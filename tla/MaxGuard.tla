------------------------------- MODULE MaxGuard ------------------------------
(***************************************************************************)
(* Max Guard (max_guard.py) limits what sessions take from a shared        *)
(* subscription.  Before a request is forwarded its estimated tokens are   *)
(* reserved in the database, checked against allowances per request,       *)
(* session, project and lane (reserve_durable); when its answer is         *)
(* complete, the reservation becomes the reported usage                    *)
(* (reconcile_durable).  An operator pauses and resumes a session and      *)
(* authorizes requests beyond its allowances.  A guard in the memory of    *)
(* the process follows along and decides alone when the database fails     *)
(* (anthropic_oauth_forwarder.py).                                         *)
(*                                                                         *)
(* A reservation is a transaction of several statements under READ         *)
(* COMMITTED: one step takes the locks and reads, a second one writes and  *)
(* commits.  In between other transactions commit that need none of its    *)
(* locks.  A transaction may fail, its acknowledgement may be lost, and    *)
(* the process may restart between any two steps.                          *)
(***************************************************************************)
EXTENDS Integers, Sequences, FiniteSets, FiniteSetsExt

CONSTANTS
  Requests,        \* requests, each forwarded at most once
  Identities,      \* native sessions and OAuth callers
  Known,           \* the identities that already have a row in max_guard_sessions
  ProjectOf,       \* the project of each identity's launch, or NoProject
  NoProject,       \* project_id NULL
  Operators,       \* handlers of control calls
  Estimates,       \* estimated tokens of a request
  Grants,          \* overrides an operator creates: extra tokens and uses
  Unlimited,       \* remaining_requests NULL
  Mode,            \* "observe", "warn" or "pause"
  PauseRequest, PauseSession, ProjectHour, LaneFiveHour, LaneWeek, \* allowances
  CacheFreeMin, CacheFreeCalls,  \* size and number of cache-free calls
  OverrideBound,   \* bound on the overrides created
  OldestAge        \* bound on the age of a reservation

\* The age of a reservation is the longest window it has left: below fifteen
\* minutes it is Fresh, then it is within the hour, five hours, the week.
Fresh == 0
Hour == 1
FiveHours == 2
Week == 3

ASSUME RequestsAssumption == IsFiniteSet(Requests)
ASSUME AllowancesAssumption ==
  /\ Estimates \subseteq Nat
  /\ {PauseRequest, PauseSession, ProjectHour, LaneFiveHour, LaneWeek} \subseteq Nat \ {0}
  /\ CacheFreeMin \in Nat /\ CacheFreeCalls \in Nat \ {0}
  /\ Unlimited \notin Nat
  /\ Grants \subseteq [extra : Nat, uses : (Nat \ {0}) \union {Unlimited}]
  /\ Mode \in {"observe", "warn", "pause"}
  /\ OverrideBound \in Nat /\ OldestAge \in Nat
ASSUME IdentitiesAssumption ==
  Identities # {} /\ Known \subseteq Identities /\ DOMAIN ProjectOf = Identities

Projects == {ProjectOf[i] : i \in Identities} \ {NoProject}

VARIABLES
  pc,           \* per request: how far its handler got
  request,      \* per request under way: who sends it, estimate, reported usage
  seen,         \* per request: what its handler decided and not yet acted on
  session,      \* max_guard_sessions
  reservation,  \* max_guard_reservations, one at most per request
  overrides,    \* max_guard_overrides in the order of created_at
  memory,       \* the guard in memory: MaxGuardState per identity
  control,      \* per operator: the pause or resume on its way to the memory
  pool          \* the process got a database pool when it started

database == <<session, reservation, overrides>>
handler == <<pc, request, seen>>
vars == <<pc, request, seen, session, reservation, overrides, memory,
          control, pool>>

PauseReason == {"none", "cache_free", "other"}
Request == [identity : Identities, estimate : Nat, fresh : Nat]
Verdict == [heldBack : BOOLEAN, refuse : BOOLEAN, grant : Nat]
NoVerdict == [heldBack |-> FALSE, refuse |-> FALSE, grant |-> 0]

\* "tokens" are estimated_fresh_tokens, and actual_fresh_tokens when they are
\* reconciled; "late" is reconciled_at after the fifteen minutes.  "grant" is
\* history: the override the reservation was made under, 0 for none.
Reservation ==
  [status : {"none", "reserved", "reconciled"}, identity : Identities, tokens : Nat,
   age : Nat, late : BOOLEAN, grant : Nat]

Override ==
  [identity : Identities, extra : Nat, uses : (Nat \ {0}) \union {Unlimited},
   left : Nat \union {Unlimited}, expired : BOOLEAN]

HandlerTypeOK ==
  /\ pc \in [Requests -> {"new", "waiting", "reserving", "forwarded",
                          "unreserved", "answered", "done", "refused"}]
  /\ request \in [Requests -> Request]
  /\ seen \in [Requests -> Verdict]

DatabaseTypeOK ==
  /\ session \in [Identities -> [known : BOOLEAN, fresh : Nat, paused : BOOLEAN]]
  /\ reservation \in [Requests -> Reservation]
  /\ overrides \in Seq(Override)

ProcessTypeOK ==
  /\ memory \in [Identities -> [fresh : Nat, cacheFree : Nat, paused : PauseReason]]
  /\ control \in [Operators -> [identity : Identities, step : {"idle", "pause", "resume"}]]
  /\ pool \in BOOLEAN

TypeOK == HandlerTypeOK /\ DatabaseTypeOK /\ ProcessTypeOK

AnyIdentity == CHOOSE i \in Identities : TRUE
NoRequest == [identity |-> AnyIdentity, estimate |-> 0, fresh |-> 0]
Idle == [identity |-> AnyIdentity, step |-> "idle"]
NoReservation == [status |-> "none", identity |-> AnyIdentity, tokens |-> 0,
                  age |-> 0, late |-> FALSE, grant |-> 0]
NewMemory == [i \in Identities |-> [fresh |-> 0, cacheFree |-> 0, paused |-> "none"]]

Init ==
  /\ request = [r \in Requests |-> NoRequest]
  /\ control = [o \in Operators |-> Idle]
  /\ pc = [r \in Requests |-> "new"]
  /\ seen = [r \in Requests |-> NoVerdict]
  /\ session = [i \in Identities |->
                   [known |-> i \in Known, fresh |-> 0, paused |-> FALSE]]
  /\ reservation = [r \in Requests |-> NoReservation]
  /\ overrides = <<>>
  /\ memory = NewMemory
  /\ pool \in BOOLEAN

------------------------------------------------------------------------------
(* The guard in memory.                                                    *)

Identity(r) == request[r].identity
Project(r) == ProjectOf[Identity(r)]

\* The preflight holds a request back: its session is paused or it would take
\* the session, as far as this process knows, to its allowance.
HoldsBack(i, estimate) ==
  /\ Mode = "pause"
  /\ \/ memory[i].paused # "none"
     \/ estimate >= PauseRequest
     \/ memory[i].fresh + estimate >= PauseSession

\* The reason the guard in memory pauses a session when usage is reported,
\* "none" for no pause.  The allowance is looked at last and wins.
ReconcileReason(fresh, cacheFree, cacheFreeCall) ==
  IF Mode # "pause" THEN "none"
  ELSE IF fresh >= PauseSession THEN "other"
  ELSE IF cacheFreeCall /\ cacheFree >= CacheFreeCalls THEN "cache_free"
  ELSE "none"

\* An answer that read nothing from the cache under a known prefix, and was
\* large enough to count.
CacheFreeCall(fresh, miss) == miss /\ fresh >= CacheFreeMin

------------------------------------------------------------------------------
(* The sums over reservations.                                             *)

Reserved(r) == reservation[r].status = "reserved"
Reconciled(r) == reservation[r].status = "reconciled"
Active(r) == Reserved(r) /\ reservation[r].age = Fresh
CountedIn(r, window) == Active(r) \/ (Reconciled(r) /\ reservation[r].age <= window)

Total(S) == MapThenSumSet(LAMBDA r : reservation[r].tokens, S)

OfSession(i) == {r \in Requests : reservation[r].status # "none" /\ reservation[r].identity = i}
OfProject(p) == UNION {OfSession(i) : i \in {j \in Identities : ProjectOf[j] = p}}

\* NULL equals no project: without a project the sum is that of no row.
ProjectTotal(p) ==
  IF p = NoProject THEN 0
                   ELSE Total({r \in OfProject(p) : CountedIn(r, Hour)})
LaneTotal(window) == Total({r \in Requests : CountedIn(r, window)})

\* Mutant: requests under way are not counted.
ActiveTotalIgnored(i) == 0

\* What a session has under way.
ActiveTotal(i) == Total({r \in OfSession(i) : Active(r)})

\* Mutant: an override is taken though its uses are spent.
UsableThoughSpent(i) ==
  {k \in 1..Len(overrides) : overrides[k].identity = i /\ ~overrides[k].expired}

\* Overrides of an identity that grant a request, and the one that is taken:
\* the oldest, 0 if there is none.
Usable(i) ==
  {k \in 1..Len(overrides) :
     /\ overrides[k].identity = i
     /\ ~overrides[k].expired
     /\ overrides[k].left # 0}
OldestUsable(i) == IF Usable(i) = {} THEN 0
                   ELSE CHOOSE k \in Usable(i) : \A l \in Usable(i) : k <= l

\* What reserve_durable concludes from what it reads.
ExceedsAllowance(r, extra) ==
  LET i == Identity(r)
      estimate == request[r].estimate
  IN \/ estimate >= PauseRequest + extra
     \/ session[i].fresh + ActiveTotal(i) + estimate >= PauseSession + extra
     \/ ProjectTotal(Project(r)) + estimate >= ProjectHour + extra
     \/ LaneTotal(FiveHours) + estimate >= LaneFiveHour + extra
     \/ LaneTotal(Week) + estimate >= LaneWeek + extra

Refused(r) ==
  LET grant == OldestUsable(Identity(r))
  IN /\ Mode = "pause"
     /\ IF grant = 0 THEN session[Identity(r)].paused \/ ExceedsAllowance(r, 0)
                     ELSE ExceedsAllowance(r, overrides[grant].extra)

\* The advisory locks of identity and project (requests without a project
\* share one), and the session row, which reserve_durable holds to its end.
SessionLocked(i) == \E q \in Requests : pc[q] = "reserving" /\ Identity(q) = i
ProjectLocked(p) == \E q \in Requests : pc[q] = "reserving" /\ Project(q) = p

------------------------------------------------------------------------------
(* A request before it is forwarded.                                       *)

\* The request arrives and the guard in memory looks at it.  Its verdict is
\* final without a database, and else kept for the case that that fails.
Arrive(r) ==
  /\ pc[r] = "new"
  /\ \E i \in Identities, estimate \in Estimates :
       LET held == HoldsBack(i, estimate)
       IN /\ memory' = IF held /\ memory[i].paused = "none"
                         THEN [memory EXCEPT ![i].paused = "other"]
                         ELSE memory
          /\ IF pool
               THEN /\ pc' = [pc EXCEPT ![r] = "waiting"]
                    /\ seen' = [seen EXCEPT ![r].heldBack = held]
               ELSE /\ pc' = [pc EXCEPT ![r] = IF held THEN "refused" ELSE "unreserved"]
                    /\ UNCHANGED seen
          /\ request' = IF held /\ ~pool THEN request ELSE
               [request EXCEPT ![r] = [identity |-> i, estimate |-> estimate, fresh |-> 0]]
  /\ UNCHANGED <<database, control, pool>>

\* Mutant: the project's reservations are not serialised.
ReserveReadUnserialised(r) ==
  /\ pc[r] = "waiting"
  /\ ~SessionLocked(Identity(r))
  /\ pc' = [pc EXCEPT ![r] = "reserving"]
  /\ seen' = [seen EXCEPT ![r].refuse = Refused(r),
                          ![r].grant = OldestUsable(Identity(r))]
  /\ UNCHANGED <<request, database, memory, control, pool>>

\* The transaction gets its locks and reads the session, the sums and the
\* oldest override.
ReserveRead(r) ==
  /\ pc[r] = "waiting"
  /\ ~SessionLocked(Identity(r))
  /\ ~ProjectLocked(Project(r))
  /\ pc' = [pc EXCEPT ![r] = "reserving"]
  /\ seen' = [seen EXCEPT ![r].refuse = Refused(r),
                          ![r].grant = OldestUsable(Identity(r))]
  /\ UNCHANGED <<request, database, memory, control, pool>>

\* reserve_durable raised: the verdict of the guard in memory counts.
Fallback(r) == IF seen[r].heldBack THEN "refused" ELSE "unreserved"

\* The handler goes on with the outcome of its transaction, or is finished and
\* its variables with it.
Leave(r, to) ==
  /\ pc' = [pc EXCEPT ![r] = to]
  /\ seen' = [seen EXCEPT ![r] = NoVerdict]
  /\ request' = IF to \in {"refused", "done"} THEN [request EXCEPT ![r] = NoRequest]
                                              ELSE request

\* The reservation is refused and the session paused.  The caller may not
\* learn of it.
Refuse(r) ==
  /\ pc[r] = "reserving"
  /\ seen[r].refuse
  /\ session' = [session EXCEPT ![Identity(r)].known = TRUE, ![Identity(r)].paused = TRUE]
  /\ \E to \in {"refused", Fallback(r)} : Leave(r, to)
  /\ UNCHANGED <<reservation, overrides, memory, control, pool>>

\* Mutant: an override is consumed only when it was needed.
ConsumeIfPaused(grant) ==
  IF grant = 0 \/ overrides[grant].left = Unlimited
               \/ ~session[overrides[grant].identity].paused
    THEN overrides
    ELSE [overrides EXCEPT ![grant].left = @ - 1]

\* The override with its remaining_requests counted down, unless unlimited.
Consume(grant) ==
  IF grant = 0 \/ overrides[grant].left = Unlimited
    THEN overrides
    ELSE [overrides EXCEPT ![grant].left = @ - 1]

\* The reservation is made.  The caller may not learn of it.
Reserve(r) ==
  /\ pc[r] = "reserving"
  /\ ~seen[r].refuse
  /\ session' = [session EXCEPT ![Identity(r)].known = TRUE]
  /\ overrides' = Consume(seen[r].grant)
  /\ reservation' = [reservation EXCEPT ![r] =
       [status |-> "reserved", identity |-> Identity(r), tokens |-> request[r].estimate,
        age |-> Fresh, late |-> FALSE, grant |-> seen[r].grant]]
  /\ \E to \in {"forwarded", Fallback(r)} : Leave(r, to)
  /\ UNCHANGED <<memory, control, pool>>

\* The transaction fails and is rolled back.
ReserveFail(r) ==
  /\ pc[r] \in {"waiting", "reserving"}
  /\ Leave(r, Fallback(r))
  /\ UNCHANGED <<database, memory, control, pool>>

------------------------------------------------------------------------------
(* A request after it was forwarded.                                       *)

\* The provider cannot be reached: the client gets an error, the reservation
\* is left as it is.
SendFail(r) ==
  /\ pc[r] \in {"forwarded", "unreserved"}
  /\ Leave(r, "done")
  /\ UNCHANGED <<database, memory, control, pool>>

\* The stream ends, perhaps early; the reported usage goes to the memory, and
\* is kept for the reservation if there is one.
Answer(r) ==
  /\ pc[r] \in {"forwarded", "unreserved"}
  /\ \E fresh \in 0..request[r].estimate, miss \in BOOLEAN :
       LET i == Identity(r)
           total == memory[i].fresh + fresh
           counts == CacheFreeCall(fresh, miss)
           calls == memory[i].cacheFree + (IF counts THEN 1 ELSE 0)
           reason == ReconcileReason(total, calls, counts)
       IN /\ IF pc[r] = "forwarded"
               THEN /\ pc' = [pc EXCEPT ![r] = "answered"]
                    /\ request' = [request EXCEPT ![r].fresh = fresh]
                    /\ UNCHANGED seen
               ELSE Leave(r, "done")
          /\ memory' = [memory EXCEPT ![i] =
               [fresh |-> total, cacheFree |-> calls,
                paused |-> IF reason = "none" THEN @.paused ELSE reason]]
  /\ UNCHANGED <<database, control, pool>>

\* Mutant: the estimate is charged to the session, not the reported usage.
ReconcileEstimate(r) ==
  /\ pc[r] = "answered"
  /\ ~SessionLocked(Identity(r))
  /\ reservation' = [reservation EXCEPT
       ![r].status = "reconciled",
       ![r].tokens = request[r].fresh,
       ![r].late = reservation[r].age > Fresh]
  /\ session' = [session EXCEPT ![Identity(r)].fresh = @ + request[r].estimate]
  /\ Leave(r, "done")
  /\ UNCHANGED <<overrides, memory, control, pool>>

\* The reservation becomes the reported usage.
Reconcile(r) ==
  /\ pc[r] = "answered"
  /\ ~SessionLocked(Identity(r))
  /\ IF Reserved(r)
       THEN /\ reservation' = [reservation EXCEPT
                 ![r].status = "reconciled",
                 ![r].tokens = request[r].fresh,
                 ![r].late = reservation[r].age > Fresh]
            /\ session' = [session EXCEPT ![Identity(r)].fresh = @ + request[r].fresh]
       ELSE UNCHANGED <<reservation, session>>
  /\ Leave(r, "done")
  /\ UNCHANGED <<overrides, memory, control, pool>>

\* It fails, or the handler is cancelled; nobody tries again.
ReconcileFail(r) ==
  /\ pc[r] = "answered"
  /\ Leave(r, "done")
  /\ UNCHANGED <<database, memory, control, pool>>

------------------------------------------------------------------------------
(* The operator.                                                           *)

\* Mutant: the update does not wait for a reservation under way.
ControlDatabaseAtOnce(o) ==
  /\ pool
  /\ control[o].step = "idle"
  /\ \E i \in Identities, step \in {"pause", "resume"} :
       /\ session[i].known
       /\ session' = [session EXCEPT ![i].paused = (step = "pause")]
       /\ control' = [control EXCEPT ![o] = [identity |-> i, step |-> step]]
  /\ UNCHANGED <<handler, reservation, overrides, memory, pool>>

\* A pause or resume is committed; its handler may not learn of it and then
\* leaves the memory alone.
ControlDatabase(o) ==
  /\ pool
  /\ control[o].step = "idle"
  /\ \E i \in Identities, step \in {"pause", "resume"} :
       /\ session[i].known
       /\ ~SessionLocked(i)
       /\ session' = [session EXCEPT ![i].paused = (step = "pause")]
       /\ \/ control' = [control EXCEPT ![o] = [identity |-> i, step |-> step]]
          \/ UNCHANGED control
  /\ UNCHANGED <<handler, reservation, overrides, memory, pool>>

\* Then the guard in memory follows.
ControlMemory(o) ==
  /\ control[o].step # "idle"
  /\ memory' = [memory EXCEPT ![control[o].identity].paused =
       IF control[o].step = "pause" THEN "other" ELSE "none"]
  /\ control' = [control EXCEPT ![o] = Idle]
  /\ UNCHANGED <<handler, database, pool>>

\* Requests beyond the allowances are authorized.
Authorize(i) ==
  /\ pool
  /\ session[i].known
  /\ ~SessionLocked(i)
  /\ Len(overrides) < OverrideBound
  /\ \E grant \in Grants :
       overrides' = Append(overrides,
         [identity |-> i, extra |-> grant.extra, uses |-> grant.uses,
          left |-> grant.uses, expired |-> FALSE])
  /\ UNCHANGED <<handler, session, reservation, memory, control, pool>>

------------------------------------------------------------------------------
(* Time and restarts.                                                      *)

Age(r) ==
  /\ reservation[r].status # "none"
  /\ reservation[r].age < OldestAge
  /\ reservation' = [reservation EXCEPT ![r].age = @ + 1]
  /\ UNCHANGED <<handler, session, overrides, memory, control, pool>>

Expire(k) ==
  /\ ~overrides[k].expired
  /\ overrides' = [overrides EXCEPT ![k].expired = TRUE]
  /\ UNCHANGED <<handler, session, reservation, memory, control, pool>>

\* The process ends, open transactions with it, and starts again with or
\* without a database; requests under way are lost.
Restart ==
  /\ memory' = NewMemory
  /\ control' = [o \in Operators |-> Idle]
  /\ pc' = [r \in Requests |-> IF pc[r] \in {"new", "refused"} THEN pc[r] ELSE "done"]
  /\ request' = [r \in Requests |-> NoRequest]
  /\ seen' = [r \in Requests |-> NoVerdict]
  /\ pool' \in BOOLEAN
  /\ UNCHANGED database

Handler(r) ==
  \/ Arrive(r) \/ ReserveRead(r) \/ Refuse(r) \/ Reserve(r) \/ ReserveFail(r)
  \/ SendFail(r) \/ Answer(r) \/ Reconcile(r) \/ ReconcileFail(r)

Next ==
  \/ \E r \in Requests : Handler(r) \/ Age(r)
  \/ \E o \in Operators : ControlDatabase(o) \/ ControlMemory(o)
  \/ \E i \in Identities : Authorize(i)
  \/ \E k \in 1..Len(overrides) : Expire(k)
  \/ Restart

Spec == Init /\ [][Next]_vars

------------------------------------------------------------------------------
(* Properties of the reservations.                                         *)

\* Reservations that count against an allowance if everything comes in time:
\* an answer after fifteen minutes was given up when its reservation aged.
OnTime(r, window) ==
  \/ Active(r)
  \/ Reconciled(r) /\ ~reservation[r].late /\ reservation[r].age <= window

\* The most tokens an override added for one of these reservations.
LargestExtra(S) ==
  Max({0} \union {overrides[reservation[r].grant].extra :
                    r \in {q \in S : reservation[q].grant # 0}})

\* What a session used and has under way stays below its allowance, extended
\* by the largest override one of its reservations was made under, however
\* requests, answers, restarts and operators interleave.  This is what
\* reserve_durable holds the session row for (max_guard.py:163, 178).
SessionWithin ==
  Mode = "pause" =>
    \A i \in Identities :
      Total({r \in OfSession(i) : OnTime(r, OldestAge)})
        < PauseSession + LargestExtra(OfSession(i))

\* The same for the rolling hour of a project, shared by its sessions: the
\* advisory lock of the project serialises what their session rows do not.
ProjectWithin ==
  Mode = "pause" =>
    \A p \in Projects :
      Total({r \in OfProject(p) : OnTime(r, Hour)}) < ProjectHour + LargestExtra(OfProject(p))

\* The lane's allowance, which the docstring of reserve_durable
\* (max_guard.py:155) says is reserved atomically as well.
LaneWithin ==
  Mode = "pause" =>
    Total({r \in Requests : OnTime(r, FiveHours)}) < LaneFiveHour + LargestExtra(Requests)

\* No usage is counted twice or lost for a session that has a reservation for
\* it: its fresh_tokens are the reported usage of its reconciled reservations
\* (max_guard.py:504, "exactly once").
UsageAccounted ==
  \A i \in Identities :
    session[i].fresh = Total({r \in OfSession(i) : Reconciled(r)})

\* Every use of an override pays for one reservation: no two requests get the
\* same use, and none is taken from it for a request that was refused or
\* rolled back (docs/features/max-guard.md:141).
GrantConsumedOnce ==
  \A k \in 1..Len(overrides) :
    overrides[k].left # Unlimited =>
      overrides[k].left + Cardinality({r \in Requests : reservation[r].grant = k})
        = overrides[k].uses

\* No reservation is made in a session that is paused at that moment unless an
\* override of that session grants it, however the operator's pause and the
\* reservation overlap.
PauseHolds ==
  [][\A r \in Requests :
       Mode = "pause" /\ reservation[r].status = "none" /\ reservation'[r].status = "reserved"
         => \/ ~session[Identity(r)].paused
            \/ /\ reservation'[r].grant \in 1..Len(overrides)
               /\ overrides[reservation'[r].grant].identity = Identity(r)]_vars

\* A request that the preflight holds back in a session with repeated
\* cache-free calls is not forwarded without an override, if the database took
\* every reservation before (docs/features/max-guard.md:94; the comment at
\* anthropic_oauth_forwarder.py:334).
CacheFreePauses ==
  [][\A r \in Requests :
       pc[r] = "reserving" /\ pc'[r] = "forwarded" /\ reservation'[r].grant = 0
         => ~ /\ seen[r].heldBack
              /\ memory[Identity(r)].paused = "cache_free"
              /\ \A q \in Requests : pc[q] = "done" => Reconciled(q)]_vars
==============================================================================
