--------------------------- MODULE MaxGuardProofs ----------------------------
(***************************************************************************)
(* TLAPS proofs about MaxGuard, for any number of requests, sessions and   *)
(* operators and any allowances: every use of an override pays for one     *)
(* reservation, no reservation slips past the operator's pause, usage is   *)
(* accounted once, and sessions and projects stay within their allowances. *)
(***************************************************************************)
EXTENDS MaxGuard, SumTheorems, FiniteSetTheorems, TLAPS

\* At most one reservation is under way in a session.
AloneInSession ==
  \A q, r \in Requests :
    pc[q] = "reserving" /\ pc[r] = "reserving" /\ Identity(q) = Identity(r) => q = r

\* The override a transaction chose is still there and usable, and the session
\* it found open is still open.
ReadHolds(r) ==
  /\ seen[r].grant \in 0 .. Len(overrides)
  /\ seen[r].grant # 0 =>
       /\ overrides[seen[r].grant].identity = Identity(r)
       /\ overrides[seen[r].grant].left # 0
  /\ Mode = "pause" /\ ~seen[r].refuse /\ seen[r].grant = 0
       => ~session[Identity(r)].paused

\* What a transaction read holds until it commits.
ReserverHolds ==
  /\ AloneInSession
  /\ \A r \in Requests : pc[r] = "reserving" => ReadHolds(r)

\* A request has a reservation only after it held the locks, and a reservation
\* was made under an override that is there.
ReservedOnce ==
  /\ \A r \in Requests :
       pc[r] \in {"new", "waiting", "reserving"} => reservation[r].status = "none"
  /\ \A r \in Requests :
       /\ reservation[r].grant \in 0 .. Len(overrides)
       /\ reservation[r].status = "none" => reservation[r].grant = 0

IInv == TypeOK /\ ReserverHolds /\ ReservedOnce /\ GrantConsumedOnce

------------------------------------------------------------------------------
(* Types.                                                                  *)

\* The initial values of the handlers and of the memory have their types.
LEMMA InitialValues ==
  /\ AnyIdentity \in Identities
  /\ NoRequest \in Request
  /\ NoVerdict \in Verdict
  /\ Idle \in [identity : Identities, step : {"idle", "pause", "resume"}]
  /\ NoReservation \in Reservation
  /\ NewMemory \in [Identities -> [fresh : Nat, cacheFree : Nat, paused : PauseReason]]
BY IdentitiesAssumption DEF AnyIdentity, NoRequest, Request, NoVerdict, Verdict, Idle,
   NoReservation, Reservation, NewMemory, PauseReason

\* The override a reservation is made under, if there is one, is usable.
LEMMA OldestIsUsable ==
  ASSUME NEW i
  PROVE  OldestUsable(i) = 0 \/ OldestUsable(i) \in Usable(i)
<1>1. Usable(i) \in SUBSET Nat
  BY DEF Usable
<1>2. CASE Usable(i) # {}
  <2>1. \E k \in Usable(i) : \A l \in Usable(i) : k <= l
    BY <1>1, <1>2, LeastNatural
  <2> QED
    BY <1>2, <2>1 DEF OldestUsable
<1> QED
  BY <1>2 DEF OldestUsable

\* Replacing one element of a sequence keeps its length and the others.
LEMMA ExceptKeeps ==
  ASSUME NEW S, NEW s \in Seq(S), NEW i \in DOMAIN s, NEW e \in S
  PROVE  /\ [s EXCEPT ![i] = e] \in Seq(S)
         /\ Len([s EXCEPT ![i] = e]) = Len(s)
         /\ [s EXCEPT ![i] = e][i] = e
         /\ \A j \in DOMAIN s : j # i => [s EXCEPT ![i] = e][j] = s[j]
OBVIOUS

\* Counting down an override changes nothing but what is left of it.
LEMMA ConsumeForms ==
  ASSUME TypeOK, NEW k \in 0 .. Len(overrides), k # 0 => overrides[k].left # 0
  PROVE  /\ Consume(k) \in Seq(Override)
         /\ Len(Consume(k)) = Len(overrides)
         /\ \A j \in 1 .. Len(overrides) :
              /\ Consume(k)[j].identity = overrides[j].identity
              /\ Consume(k)[j].uses = overrides[j].uses
              /\ Consume(k)[j].extra = overrides[j].extra
              /\ Consume(k)[j].left =
                   IF j = k /\ overrides[j].left # Unlimited THEN overrides[j].left - 1
                                                            ELSE overrides[j].left
<1>1. overrides \in Seq(Override)
  BY DEF TypeOK, DatabaseTypeOK
<1>2. CASE k = 0 \/ overrides[k].left = Unlimited
  BY <1>1, <1>2 DEF Consume
<1>3. CASE k # 0 /\ overrides[k].left # Unlimited
  <2> DEFINE new == [overrides[k] EXCEPT !.left = @ - 1]
  <2>1. k \in DOMAIN overrides /\ overrides[k] \in Override
    BY <1>1, <1>3
  <2>2. overrides[k].left \in Nat \ {0}
    BY <1>3, <2>1 DEF Override
  <2>3. new \in Override
    BY <2>1, <2>2 DEF Override
  <2>4. /\ new.identity = overrides[k].identity
        /\ new.uses = overrides[k].uses
        /\ new.extra = overrides[k].extra
        /\ new.left = overrides[k].left - 1
    BY <2>1 DEF Override
  <2>5. Consume(k) = [overrides EXCEPT ![k] = new]
    BY <1>3 DEF Consume
  <2> HIDE DEF new
  <2>6. /\ Consume(k) \in Seq(Override)
        /\ Len(Consume(k)) = Len(overrides)
        /\ Consume(k)[k] = new
        /\ \A j \in DOMAIN overrides : j # k => Consume(k)[j] = overrides[j]
    BY <1>1, <2>1, <2>3, <2>5, ExceptKeeps
  <2> QED
    BY <1>1, <1>3, <2>4, <2>6
<1> QED
  BY <1>2, <1>3

\* A new override comes last, with all its uses.
LEMMA AuthorizeForms ==
  ASSUME TypeOK, NEW i \in Identities, Authorize(i)
  PROVE  /\ overrides' \in Seq(Override)
         /\ Len(overrides') = Len(overrides) + 1
         /\ \A j \in 1 .. Len(overrides) : overrides'[j] = overrides[j]
         /\ overrides'[Len(overrides) + 1].left = overrides'[Len(overrides) + 1].uses
<1>1. PICK grant \in Grants :
        overrides' = Append(overrides,
          [identity |-> i, extra |-> grant.extra, uses |-> grant.uses,
           left |-> grant.uses, expired |-> FALSE])
  BY DEF Authorize
<1>2. grant \in [extra : Nat, uses : (Nat \ {0}) \union {Unlimited}]
  BY AllowancesAssumption
<1> DEFINE new == [identity |-> i, extra |-> grant.extra, uses |-> grant.uses,
                   left |-> grant.uses, expired |-> FALSE]
<1>3. new \in Override /\ new.left = new.uses
  BY <1>2 DEF Override
<1>4. overrides \in Seq(Override) /\ overrides' = Append(overrides, new)
  BY <1>1 DEF TypeOK, DatabaseTypeOK
<1> HIDE DEF new
<1> QED
  BY <1>3, <1>4

\* An override expires and is otherwise the same.
LEMMA ExpireForms ==
  ASSUME TypeOK, NEW k \in 1 .. Len(overrides), Expire(k)
  PROVE  /\ overrides' \in Seq(Override)
         /\ Len(overrides') = Len(overrides)
         /\ \A j \in 1 .. Len(overrides) :
              /\ overrides'[j].identity = overrides[j].identity
              /\ overrides'[j].uses = overrides[j].uses
              /\ overrides'[j].extra = overrides[j].extra
              /\ overrides'[j].left = overrides[j].left
<1>1. overrides \in Seq(Override) /\ k \in DOMAIN overrides
  BY DEF TypeOK, DatabaseTypeOK
<1> DEFINE new == [overrides[k] EXCEPT !.expired = TRUE]
<1>2. overrides[k] \in Override
  BY <1>1
<1>3. /\ new \in Override
      /\ new.identity = overrides[k].identity
      /\ new.uses = overrides[k].uses
      /\ new.extra = overrides[k].extra
      /\ new.left = overrides[k].left
  BY <1>2 DEF Override
<1>4. overrides' = [overrides EXCEPT ![k] = new]
  BY DEF Expire
<1> HIDE DEF new
<1>5. /\ overrides' \in Seq(Override)
      /\ Len(overrides') = Len(overrides)
      /\ overrides'[k] = new
      /\ \A j \in DOMAIN overrides : j # k => overrides'[j] = overrides[j]
  BY <1>1, <1>3, <1>4, ExceptKeeps
<1> QED
  BY <1>1, <1>3, <1>5

\* What Leave does to a handler.
LEMMA LeaveForms ==
  ASSUME HandlerTypeOK, NEW r \in Requests,
         NEW to \in {"forwarded", "refused", "unreserved", "done"}, Leave(r, to)
  PROVE  /\ HandlerTypeOK'
         /\ pc'[r] = to
         /\ \A q \in Requests \ {r} :
              pc'[q] = pc[q] /\ request'[q] = request[q] /\ seen'[q] = seen[q]
BY InitialValues DEF HandlerTypeOK, Leave

------------------------------------------------------------------------------
(* Type correctness.                                                       *)

\* The handlers' variables keep their types.
LEMMA StepHandlerTypeOK == TypeOK /\ [Next]_vars => HandlerTypeOK'
<1> SUFFICES ASSUME TypeOK, [Next]_vars PROVE HandlerTypeOK'
  OBVIOUS
<1>1. HandlerTypeOK
  BY DEF TypeOK
<1>2. ASSUME NEW r \in Requests, Handler(r) PROVE HandlerTypeOK'
  <2>1. \A to \in {"forwarded", "refused", "unreserved", "done"} :
          Leave(r, to) => HandlerTypeOK'
    BY <1>1, LeaveForms
  <2>2. Fallback(r) \in {"refused", "unreserved"}
    BY DEF Fallback
  <2>3. CASE Arrive(r)
    <3>1. PICK i \in Identities, estimate \in Estimates :
            /\ pc' = [pc EXCEPT ![r] = pc'[r]]
            /\ pc'[r] \in {"waiting", "refused", "unreserved"}
            /\ \/ seen' = [seen EXCEPT ![r].heldBack = HoldsBack(i, estimate)]
               \/ seen' = seen
            /\ \/ request' = request
               \/ request' = [request EXCEPT ![r] =
                    [identity |-> i, estimate |-> estimate, fresh |-> 0]]
      BY <1>1, <2>3 DEF Arrive, HandlerTypeOK
    <3>2. [identity |-> i, estimate |-> estimate, fresh |-> 0] \in Request
      BY AllowancesAssumption DEF Request
    <3>3. HoldsBack(i, estimate) \in BOOLEAN
      BY DEF HoldsBack
    <3>4. request' \in [Requests -> Request]
      BY <1>1, <3>1, <3>2 DEF HandlerTypeOK
    <3>5. seen' \in [Requests -> Verdict]
      BY <1>1, <3>1, <3>3 DEF HandlerTypeOK, Verdict
    <3>6. pc' \in [Requests -> {"new", "waiting", "reserving", "forwarded",
                                "unreserved", "answered", "done", "refused"}]
      BY <1>1, <3>1 DEF HandlerTypeOK
    <3> QED
      BY <3>4, <3>5, <3>6 DEF HandlerTypeOK
  <2>4. CASE ReserveRead(r)
    <3>1. Refused(r) \in BOOLEAN
      BY DEF Refused
    <3>2. OldestUsable(Identity(r)) \in Nat
      BY OldestIsUsable DEF Usable
    <3> QED
      BY <1>1, <2>4, <3>1, <3>2 DEF ReserveRead, HandlerTypeOK, Verdict
  <2>5. CASE Refuse(r) \/ Reserve(r) \/ ReserveFail(r)
    BY <2>1, <2>2, <2>5 DEF Refuse, Reserve, ReserveFail
  <2>6. CASE SendFail(r) \/ Reconcile(r) \/ ReconcileFail(r)
    BY <2>1, <2>6 DEF SendFail, Reconcile, ReconcileFail
  <2>7. CASE Answer(r)
    <3>1. CASE pc[r] # "forwarded"
      BY <2>1, <2>7, <3>1 DEF Answer
    <3>2. CASE pc[r] = "forwarded"
      <4>1. PICK fresh \in 0 .. request[r].estimate :
              /\ pc' = [pc EXCEPT ![r] = "answered"]
              /\ request' = [request EXCEPT ![r].fresh = fresh]
              /\ seen' = seen
        BY <2>7, <3>2 DEF Answer
      <4> QED
        BY <1>1, <4>1 DEF HandlerTypeOK, Request
    <3> QED
      BY <3>1, <3>2
  <2> QED
    BY <1>2, <2>3, <2>4, <2>5, <2>6, <2>7 DEF Handler
<1>3. CASE Restart
  BY <1>1, <1>3, InitialValues DEF Restart, HandlerTypeOK
<1>4. CASE UNCHANGED handler
  BY <1>1, <1>4 DEF handler, HandlerTypeOK
<1> QED
  BY <1>2, <1>3, <1>4 DEF Next, Age, ControlDatabase, ControlMemory, Authorize, Expire,
                          handler, vars

\* The tables keep their types: an override is consumed only while it has uses.
LEMMA StepDatabaseTypeOK == TypeOK /\ ReserverHolds /\ [Next]_vars => DatabaseTypeOK'
<1> SUFFICES ASSUME TypeOK, ReserverHolds, [Next]_vars PROVE DatabaseTypeOK'
  OBVIOUS
<1>1. HandlerTypeOK /\ DatabaseTypeOK
  BY DEF TypeOK
<1>2. ASSUME NEW r \in Requests, Reserve(r) PROVE DatabaseTypeOK'
  <2>1. /\ seen[r].grant \in 0 .. Len(overrides)
        /\ seen[r].grant # 0 => overrides[seen[r].grant].left # 0
    BY <1>2 DEF Reserve, ReserverHolds, ReadHolds
  <2>2. overrides' \in Seq(Override)
    BY <1>2, <2>1, ConsumeForms DEF Reserve
  <2>3. [status |-> "reserved", identity |-> Identity(r), tokens |-> request[r].estimate,
         age |-> Fresh, late |-> FALSE, grant |-> seen[r].grant] \in Reservation
    BY <1>1, <2>1 DEF HandlerTypeOK, Identity, Request, Verdict, Reservation, Fresh
  <2>4. reservation' \in [Requests -> Reservation]
    BY <1>1, <1>2, <2>3 DEF Reserve, DatabaseTypeOK
  <2>5. session' \in [Identities -> [known : BOOLEAN, fresh : Nat, paused : BOOLEAN]]
    BY <1>1, <1>2 DEF Reserve, DatabaseTypeOK
  <2> QED
    BY <2>2, <2>4, <2>5 DEF DatabaseTypeOK
<1>3. ASSUME NEW r \in Requests, Refuse(r) PROVE DatabaseTypeOK'
  BY <1>1, <1>3 DEF Refuse, DatabaseTypeOK
<1>4. ASSUME NEW r \in Requests, Reconcile(r) PROVE DatabaseTypeOK'
  <2>1. request[r] \in Request
    BY <1>1 DEF HandlerTypeOK
  <2>2. session' \in [Identities -> [known : BOOLEAN, fresh : Nat, paused : BOOLEAN]]
    <3>1. request[r].fresh \in Nat /\ Identity(r) \in Identities
      BY <2>1 DEF Identity, Request
    <3> DEFINE row == session[Identity(r)]
               new == [row EXCEPT !.fresh = @ + request[r].fresh]
    <3>2. row \in [known : BOOLEAN, fresh : Nat, paused : BOOLEAN]
      BY <1>1, <3>1 DEF DatabaseTypeOK
    <3>3. new \in [known : BOOLEAN, fresh : Nat, paused : BOOLEAN]
      BY <3>1, <3>2
    <3>4. session' = session \/ session' = [session EXCEPT ![Identity(r)] = new]
      BY <1>4 DEF Reconcile
    <3> HIDE DEF new
    <3> QED
      BY <1>1, <3>1, <3>3, <3>4 DEF DatabaseTypeOK
  <2>3. reservation' \in [Requests -> Reservation]
    <3> DEFINE late == reservation[r].age > Fresh
               new == [reservation[r] EXCEPT
                         !.status = "reconciled", !.tokens = request[r].fresh, !.late = late]
    <3>1. reservation[r] \in Reservation
      BY <1>1 DEF DatabaseTypeOK
    <3>2. new \in Reservation
      <4>1. late \in BOOLEAN
        OBVIOUS
      <4> HIDE DEF late
      <4> QED
        BY <2>1, <3>1, <4>1 DEF Request, Reservation
    <3>3. CASE Reserved(r)
      <4>1. reservation' = [reservation EXCEPT ![r].status = "reconciled",
              ![r].tokens = request[r].fresh, ![r].late = reservation[r].age > Fresh]
        BY <1>4, <3>3 DEF Reconcile
      <4>2. reservation' = [reservation EXCEPT ![r] = new]
        BY <4>1
      <4> HIDE DEF new
      <4> QED
        BY <1>1, <3>2, <4>2 DEF DatabaseTypeOK
    <3>4. CASE ~Reserved(r)
      BY <1>1, <1>4, <3>4 DEF Reconcile, DatabaseTypeOK
    <3> QED
      BY <3>3, <3>4
  <2> QED
    BY <1>1, <1>4, <2>2, <2>3 DEF Reconcile, DatabaseTypeOK
<1>5. ASSUME NEW r \in Requests, Age(r) PROVE DatabaseTypeOK'
  <2>1. reservation[r] \in Reservation
    BY <1>1 DEF DatabaseTypeOK
  <2>2. [reservation[r] EXCEPT !.age = @ + 1] \in Reservation
    BY <2>1 DEF Reservation
  <2> QED
    BY <1>1, <1>5, <2>2 DEF Age, DatabaseTypeOK
<1>6. ASSUME NEW o \in Operators, ControlDatabase(o) PROVE DatabaseTypeOK'
  BY <1>1, <1>6 DEF ControlDatabase, DatabaseTypeOK
<1>7. ASSUME NEW i \in Identities, Authorize(i) PROVE DatabaseTypeOK'
  BY <1>1, <1>7, AuthorizeForms DEF Authorize, DatabaseTypeOK
<1>8. ASSUME NEW k \in 1 .. Len(overrides), Expire(k) PROVE DatabaseTypeOK'
  BY <1>1, <1>8, ExpireForms DEF Expire, DatabaseTypeOK
<1>9. CASE UNCHANGED database
  BY <1>1, <1>9 DEF database, DatabaseTypeOK
<1>10. ASSUME NEW r \in Requests, Handler(r)
       PROVE  Reserve(r) \/ Refuse(r) \/ Reconcile(r) \/ UNCHANGED database
  BY <1>10 DEF Handler, Arrive, ReserveRead, ReserveFail, SendFail, Answer, ReconcileFail,
               database
<1> QED
  BY <1>2, <1>3, <1>4, <1>5, <1>6, <1>7, <1>8, <1>9, <1>10
  DEF Next, ControlMemory, Restart, database, vars

\* The guard in memory and the operators' handlers keep their types.
LEMMA StepProcessTypeOK == TypeOK /\ [Next]_vars => ProcessTypeOK'
<1> SUFFICES ASSUME TypeOK, [Next]_vars PROVE ProcessTypeOK'
  OBVIOUS
<1>1. HandlerTypeOK /\ ProcessTypeOK
  BY DEF TypeOK
<1>2. ASSUME NEW r \in Requests, Arrive(r) PROVE ProcessTypeOK'
  BY <1>1, <1>2 DEF Arrive, ProcessTypeOK, PauseReason
<1>3. ASSUME NEW r \in Requests, Answer(r) PROVE ProcessTypeOK'
  <2> DEFINE i == Identity(r)
             Calls(fresh, miss) ==
               memory[i].cacheFree + (IF CacheFreeCall(fresh, miss) THEN 1 ELSE 0)
             Reason(fresh, miss) ==
               ReconcileReason(memory[i].fresh + fresh, Calls(fresh, miss),
                               CacheFreeCall(fresh, miss))
             New(fresh, miss) ==
               [fresh |-> memory[i].fresh + fresh, cacheFree |-> Calls(fresh, miss),
                paused |-> IF Reason(fresh, miss) = "none" THEN memory[i].paused
                                                          ELSE Reason(fresh, miss)]
  <2>1. i \in Identities /\ request[r].estimate \in Nat
    BY <1>1 DEF HandlerTypeOK, Identity, Request
  <2>2. \E fresh \in 0 .. request[r].estimate, miss \in BOOLEAN :
          memory' = [memory EXCEPT ![i] = New(fresh, miss)]
    BY <1>1, <1>3, <2>1 DEF Answer, ProcessTypeOK
  <2>3. ASSUME NEW fresh \in Nat, NEW miss
        PROVE  New(fresh, miss) \in [fresh : Nat, cacheFree : Nat, paused : PauseReason]
    <3>1. Reason(fresh, miss) \in PauseReason
      BY DEF ReconcileReason, PauseReason
    <3>2. Calls(fresh, miss) \in Nat
      BY <1>1, <2>1 DEF ProcessTypeOK
    <3> HIDE DEF Reason, Calls
    <3> QED
      BY <1>1, <2>1, <3>1, <3>2 DEF ProcessTypeOK
  <2> HIDE DEF New
  <2>4. memory' \in [Identities -> [fresh : Nat, cacheFree : Nat, paused : PauseReason]]
    BY <1>1, <2>1, <2>2, <2>3 DEF ProcessTypeOK
  <2> QED
    BY <1>1, <1>3, <2>4 DEF Answer, ProcessTypeOK
<1>4. ASSUME NEW o \in Operators, ControlDatabase(o) PROVE ProcessTypeOK'
  BY <1>1, <1>4, SMTT(30) DEF ControlDatabase, ProcessTypeOK
<1>5. ASSUME NEW o \in Operators, ControlMemory(o) PROVE ProcessTypeOK'
  BY <1>1, <1>5, InitialValues, SMTT(30) DEF ControlMemory, ProcessTypeOK, PauseReason
<1>6. CASE Restart
  BY <1>1, <1>6, InitialValues DEF Restart, ProcessTypeOK
<1>7. CASE UNCHANGED <<memory, control, pool>>
  BY <1>1, <1>7 DEF ProcessTypeOK
<1>8. ASSUME NEW r \in Requests, Handler(r)
      PROVE  Arrive(r) \/ Answer(r) \/ UNCHANGED <<memory, control, pool>>
  BY <1>8 DEF Handler, ReserveRead, Refuse, Reserve, ReserveFail, SendFail, Reconcile,
              ReconcileFail
<1> QED
  BY <1>2, <1>3, <1>4, <1>5, <1>6, <1>7, <1>8 DEF Next, Age, Authorize, Expire, vars

------------------------------------------------------------------------------
(* What a transaction read holds until it commits.                         *)

\* A step of one handler leaves the variables of the others alone.
LEMMA OthersKept ==
  ASSUME TypeOK, NEW r \in Requests, Handler(r), NEW q \in Requests, q # r
  PROVE  pc'[q] = pc[q] /\ request'[q] = request[q] /\ seen'[q] = seen[q]
<1>1. HandlerTypeOK
  BY DEF TypeOK
<1> QED
  BY <1>1 DEF Handler, Arrive, ReserveRead, Refuse, Reserve, ReserveFail, SendFail, Answer,
     Reconcile, ReconcileFail, Leave, HandlerTypeOK

\* What was read still holds if the session is paused as it was and the
\* overrides of the session have their uses.
LEMMA ReadKept ==
  ASSUME TypeOK, NEW r \in Requests, ReadHolds(r),
         request'[r] = request[r], seen'[r] = seen[r],
         Len(overrides') \in Nat, Len(overrides) <= Len(overrides'),
         \A k \in 1 .. Len(overrides) :
           overrides[k].identity = Identity(r) =>
             /\ overrides'[k].identity = overrides[k].identity
             /\ overrides'[k].left = overrides[k].left,
         session'[Identity(r)].paused = session[Identity(r)].paused
  PROVE  ReadHolds(r)'
<1>1. Len(overrides) \in Nat /\ Identity(r)' = Identity(r)
  BY DEF TypeOK, DatabaseTypeOK, Identity
<1>2. seen[r].grant # 0 => seen[r].grant \in 1 .. Len(overrides)
  BY <1>1 DEF ReadHolds
<1> QED
  BY <1>1, <1>2 DEF ReadHolds

\* Locks keep transactions of one session apart, and so what they read.
LEMMA StepReserverHolds == TypeOK /\ ReserverHolds /\ [Next]_vars => ReserverHolds'
<1> SUFFICES ASSUME TypeOK, ReserverHolds, [Next]_vars PROVE ReserverHolds'
  OBVIOUS
<1>1. HandlerTypeOK /\ DatabaseTypeOK /\ Len(overrides) \in Nat
  BY DEF TypeOK, DatabaseTypeOK
<1>2. ASSUME NEW r \in Requests, Handler(r) PROVE ReserverHolds'
  <2>1. \A q \in Requests \ {r} :
          pc'[q] = pc[q] /\ request'[q] = request[q] /\ seen'[q] = seen[q]
    BY <1>2, OthersKept
  <2>2. \A q \in Requests \ {r} : pc[q] = "reserving" => ReadHolds(q)
    BY DEF ReserverHolds
  <2>3. ASSUME ReserveRead(r) PROVE ReserverHolds'
    <3>1. request' = request /\ overrides' = overrides /\ session' = session
      BY <2>3 DEF ReserveRead, database
    <3>2. AloneInSession'
      BY <2>1, <2>3, <3>1
      DEF ReserverHolds, AloneInSession, ReserveRead, SessionLocked, Identity
    <3>3. \A q \in Requests \ {r} : pc[q] = "reserving" => ReadHolds(q)'
      BY <1>1, <2>1, <2>2, <3>1, ReadKept
    <3>4. seen'[r].grant = OldestUsable(Identity(r)) /\ seen'[r].refuse = Refused(r)
      BY <1>1, <2>3 DEF ReserveRead, HandlerTypeOK, Verdict
    <3>5. \/ OldestUsable(Identity(r)) = 0
          \/ OldestUsable(Identity(r)) \in Usable(Identity(r))
      BY OldestIsUsable
    <3>6. Mode = "pause" /\ OldestUsable(Identity(r)) = 0 /\ ~Refused(r)
            => ~session[Identity(r)].paused
      BY DEF Refused
    <3>7. ReadHolds(r)'
      BY <1>1, <3>1, <3>4, <3>5, <3>6 DEF ReadHolds, Usable, Identity
    <3> QED
      BY <2>1, <3>2, <3>3, <3>7 DEF ReserverHolds
  <2>4. ASSUME ~ReserveRead(r) PROVE ReserverHolds'
    <3>1. pc'[r] # "reserving"
      BY <1>1, <1>2, <2>4 DEF Handler, Arrive, Refuse, Reserve, ReserveFail, SendFail, Answer,
         Reconcile, ReconcileFail, Leave, Fallback, HandlerTypeOK
    <3>2. AloneInSession'
      BY <2>1, <3>1 DEF ReserverHolds, AloneInSession, Identity
    <3>3. ASSUME NEW q \in Requests \ {r}, pc[q] = "reserving" PROVE ReadHolds(q)'
      <4>1. CASE Refuse(r)
        <5>1. Identity(q) # Identity(r)
          BY <3>3, <4>1 DEF Refuse, ReserverHolds, AloneInSession
        <5>2. session'[Identity(q)] = session[Identity(q)] /\ overrides' = overrides
          BY <1>1, <4>1, <5>1 DEF Refuse, DatabaseTypeOK, HandlerTypeOK, Request, Identity
        <5> QED
          BY <1>1, <2>1, <2>2, <3>3, <5>2, ReadKept
      <4>2. CASE Reserve(r)
        <5>1. Identity(q) # Identity(r) /\ ReadHolds(r)
          BY <3>3, <4>2 DEF Reserve, ReserverHolds, AloneInSession
        <5>2. session'[Identity(q)] = session[Identity(q)]
          BY <1>1, <4>2, <5>1 DEF Reserve, DatabaseTypeOK, HandlerTypeOK, Request, Identity
        <5>3. /\ Len(overrides') = Len(overrides)
              /\ \A k \in 1 .. Len(overrides) :
                   /\ overrides'[k].identity = overrides[k].identity
                   /\ k # seen[r].grant => overrides'[k].left = overrides[k].left
          BY <4>2, <5>1, ConsumeForms DEF Reserve, ReadHolds
        <5>4. \A k \in 1 .. Len(overrides) :
                overrides[k].identity = Identity(q) => k # seen[r].grant
          BY <5>1 DEF ReadHolds
        <5> QED
          BY <1>1, <2>1, <2>2, <3>3, <5>2, <5>3, <5>4, ReadKept
      <4>3. CASE Reconcile(r)
        <5>1. Identity(q) # Identity(r)
          BY <3>3, <4>3 DEF Reconcile, SessionLocked
        <5>2. session'[Identity(q)] = session[Identity(q)] /\ overrides' = overrides
          BY <1>1, <4>3, <5>1 DEF Reconcile, DatabaseTypeOK, HandlerTypeOK, Request, Identity
        <5> QED
          BY <1>1, <2>1, <2>2, <3>3, <5>2, ReadKept
      <4>4. CASE UNCHANGED database
        BY <1>1, <2>1, <2>2, <3>3, <4>4, ReadKept DEF database
      <4> QED
        BY <1>2, <2>4, <4>1, <4>2, <4>3, <4>4
        DEF Handler, Arrive, ReserveFail, SendFail, Answer, ReconcileFail, database
    <3> QED
      BY <2>1, <3>1, <3>2, <3>3 DEF ReserverHolds
  <2> QED
    BY <2>3, <2>4
<1>3. ASSUME UNCHANGED handler,
             \A q \in Requests : pc[q] = "reserving" => ReadHolds(q)'
      PROVE  ReserverHolds'
  BY <1>3 DEF handler, ReserverHolds, AloneInSession, Identity
<1>4. ASSUME NEW o \in Operators, ControlDatabase(o) PROVE ReserverHolds'
  <2>1. \A q \in Requests : pc[q] = "reserving" =>
          session'[Identity(q)].paused = session[Identity(q)].paused
    BY <1>1, <1>4 DEF ControlDatabase, SessionLocked, DatabaseTypeOK, HandlerTypeOK, Request,
       Identity
  <2> QED
    BY <1>1, <1>3, <1>4, <2>1, ReadKept DEF ControlDatabase, ReserverHolds, handler
<1>5. ASSUME NEW i \in Identities, Authorize(i) PROVE ReserverHolds'
  <2>1. /\ Len(overrides') = Len(overrides) + 1
        /\ \A k \in 1 .. Len(overrides) : overrides'[k] = overrides[k]
    BY <1>5, AuthorizeForms
  <2> QED
    BY <1>1, <1>3, <1>5, <2>1, ReadKept DEF Authorize, ReserverHolds, handler
<1>6. ASSUME NEW k \in 1 .. Len(overrides), Expire(k) PROVE ReserverHolds'
  <2>1. /\ Len(overrides') = Len(overrides)
        /\ \A j \in 1 .. Len(overrides) :
             /\ overrides'[j].identity = overrides[j].identity
             /\ overrides'[j].left = overrides[j].left
    BY <1>6, ExpireForms
  <2> QED
    BY <1>1, <1>3, <1>6, <2>1, ReadKept DEF Expire, ReserverHolds, handler
<1>7. CASE Restart
  BY <1>7 DEF Restart, ReserverHolds, AloneInSession
<1>8. CASE UNCHANGED <<handler, session, overrides>>
  BY <1>1, <1>3, <1>8, ReadKept DEF ReserverHolds, handler
<1> QED
  BY <1>2, <1>4, <1>5, <1>6, <1>7, <1>8
  DEF Next, Age, ControlMemory, database, handler, vars

------------------------------------------------------------------------------
(* Reservations and the overrides they were made under.                    *)

\* What the steps other than Reserve do to the reservations: they keep the
\* override each was made under, and make none.
LEMMA ReservationsKept ==
  ASSUME TypeOK, [Next]_vars, \A r \in Requests : ~Reserve(r), ReservedOnce,
         NEW q \in Requests
  PROVE  /\ reservation'[q].grant = reservation[q].grant
         /\ reservation'[q].status = "none" <=> reservation[q].status = "none"
<1>1. reservation \in [Requests -> Reservation]
  BY DEF TypeOK, DatabaseTypeOK
<1>2. reservation[q] \in Reservation
  BY <1>1
<1>3. ASSUME NEW r \in Requests, Reconcile(r)
      PROVE  /\ reservation'[q].grant = reservation[q].grant
             /\ reservation'[q].status = "none" <=> reservation[q].status = "none"
  <2>1. CASE Reserved(r)
    <3>1. /\ reservation'[q].grant = reservation[q].grant
          /\ reservation'[q].status \in {reservation[q].status, "reconciled"}
          /\ reservation'[q].status # reservation[q].status => q = r
      BY <1>1, <1>2, <1>3, <2>1 DEF Reconcile, Reservation
    <3> QED
      BY <2>1, <3>1 DEF Reserved
  <2>2. CASE ~Reserved(r)
    BY <1>3, <2>2 DEF Reconcile
  <2> QED
    BY <2>1, <2>2
<1>4. ASSUME NEW r \in Requests, Age(r)
      PROVE  /\ reservation'[q].grant = reservation[q].grant
             /\ reservation'[q].status = reservation[q].status
  BY <1>1, <1>2, <1>4 DEF Age, Reservation
<1>5. \/ \E r \in Requests : Reconcile(r) \/ Age(r)
      \/ reservation' = reservation
  BY DEF Next, Handler, Arrive, ReserveRead, Refuse, ReserveFail, SendFail, Answer,
     ReconcileFail, ControlDatabase, ControlMemory, Authorize, Expire, Restart,
     database, vars
<1> QED
  BY <1>3, <1>4, <1>5

\* What Reserve does to them.
LEMMA ReserveForms ==
  ASSUME TypeOK, ReserverHolds, ReservedOnce, NEW r \in Requests, Reserve(r)
  PROVE  /\ reservation[r].status = "none" /\ reservation[r].grant = 0
         /\ reservation'[r].status = "reserved"
         /\ reservation'[r].grant = seen[r].grant
         /\ seen[r].grant \in 0 .. Len(overrides)
         /\ seen[r].grant # 0 =>
              /\ overrides[seen[r].grant].identity = Identity(r)
              /\ overrides[seen[r].grant].left # 0
         /\ \A q \in Requests \ {r} : reservation'[q] = reservation[q]
         /\ pc'[r] \in {"forwarded", "refused", "unreserved"}
         /\ Len(overrides') = Len(overrides)
         /\ \A k \in 1 .. Len(overrides) :
              /\ overrides'[k].uses = overrides[k].uses
              /\ overrides'[k].extra = overrides[k].extra
              /\ overrides'[k].left =
                   IF k = seen[r].grant /\ overrides[k].left # Unlimited
                     THEN overrides[k].left - 1 ELSE overrides[k].left
<1>1. ReadHolds(r) /\ pc[r] = "reserving"
  BY DEF Reserve, ReserverHolds
<1>2. /\ Len(overrides') = Len(overrides)
      /\ \A k \in 1 .. Len(overrides) :
           /\ overrides'[k].uses = overrides[k].uses
           /\ overrides'[k].extra = overrides[k].extra
           /\ overrides'[k].left =
                IF k = seen[r].grant /\ overrides[k].left # Unlimited
                  THEN overrides[k].left - 1 ELSE overrides[k].left
  BY <1>1, ConsumeForms DEF Reserve, ReadHolds
<1>3. reservation[r].status = "none" /\ reservation[r].grant = 0
  BY <1>1 DEF ReservedOnce
<1>4. pc'[r] \in {"forwarded", "refused", "unreserved"}
  BY DEF Reserve, Leave, Fallback, TypeOK, HandlerTypeOK
<1>5. /\ reservation'[r].status = "reserved"
      /\ reservation'[r].grant = seen[r].grant
      /\ \A q \in Requests \ {r} : reservation'[q] = reservation[q]
  BY DEF Reserve, TypeOK, DatabaseTypeOK
<1> QED
  BY <1>1, <1>2, <1>3, <1>4, <1>5 DEF ReadHolds

\* The table of overrides only grows.
LEMMA OverridesGrow ==
  ASSUME TypeOK, [Next]_vars, \A r \in Requests : ~Reserve(r)
  PROVE  /\ Len(overrides') \in {Len(overrides), Len(overrides) + 1}
         /\ \A k \in 1 .. Len(overrides) :
              /\ overrides'[k].uses = overrides[k].uses
              /\ overrides'[k].extra = overrides[k].extra
              /\ overrides'[k].left = overrides[k].left
         /\ Len(overrides') # Len(overrides) =>
              overrides'[Len(overrides')].left = overrides'[Len(overrides')].uses
<1>1. ASSUME NEW i \in Identities, Authorize(i)
      PROVE  /\ Len(overrides') = Len(overrides) + 1
             /\ \A k \in 1 .. Len(overrides) : overrides'[k] = overrides[k]
             /\ overrides'[Len(overrides')].left = overrides'[Len(overrides')].uses
  BY <1>1, AuthorizeForms
<1>2. ASSUME NEW j \in 1 .. Len(overrides), Expire(j)
      PROVE  /\ Len(overrides') = Len(overrides)
             /\ \A k \in 1 .. Len(overrides) :
                  /\ overrides'[k].uses = overrides[k].uses
                  /\ overrides'[k].extra = overrides[k].extra
                  /\ overrides'[k].left = overrides[k].left
  BY <1>2, ExpireForms
<1>3. \/ \E i \in Identities : Authorize(i)
      \/ \E j \in 1 .. Len(overrides) : Expire(j)
      \/ overrides' = overrides
  BY DEF Next, Handler, Arrive, ReserveRead, Refuse, ReserveFail, SendFail, Answer, Reconcile,
     ReconcileFail, Age, ControlDatabase, ControlMemory, Restart, database, vars
<1> QED
  BY <1>1, <1>2, <1>3

\* Requests make one reservation at most, under an override that is there.
LEMMA StepReservedOnce ==
  TypeOK /\ ReserverHolds /\ ReservedOnce /\ [Next]_vars => ReservedOnce'
<1> SUFFICES ASSUME TypeOK, ReserverHolds, ReservedOnce, [Next]_vars PROVE ReservedOnce'
  OBVIOUS
<1> DEFINE Early == {"new", "waiting", "reserving"}
<1>1. HandlerTypeOK /\ Len(overrides) \in Nat
  BY DEF TypeOK, DatabaseTypeOK
<1>2. ASSUME NEW r \in Requests, Reserve(r) PROVE ReservedOnce'
  <2>1. \A q \in Requests \ {r} : pc'[q] = pc[q]
    BY <1>2, OthersKept DEF Handler
  <2> QED
    BY <1>1, <1>2, <2>1, ReserveForms DEF ReservedOnce
<1>3. ASSUME \A r \in Requests : ~Reserve(r) PROVE ReservedOnce'
  <2>1. \A q \in Requests : pc'[q] \in Early => pc[q] \in Early
    <3>1. ASSUME NEW r \in Requests, Handler(r) PROVE pc'[r] \in Early => pc[r] \in Early
      BY <1>1, <3>1 DEF Handler, Arrive, ReserveRead, Refuse, Reserve, ReserveFail, SendFail,
         Answer, Reconcile, ReconcileFail, Leave, Fallback, HandlerTypeOK
    <3>2. ASSUME NEW r \in Requests, Handler(r), NEW q \in Requests
          PROVE  pc'[q] \in Early => pc[q] \in Early
      BY <3>1, <3>2, OthersKept
    <3>3. CASE Restart
      BY <3>3 DEF Restart
    <3>4. CASE pc' = pc
      BY <3>4
    <3> QED
      BY <3>2, <3>3, <3>4 DEF Next, Age, ControlDatabase, ControlMemory, Authorize, Expire,
         handler, vars
  <2>2. \A q \in Requests :
          /\ reservation'[q].grant = reservation[q].grant
          /\ reservation'[q].status = "none" <=> reservation[q].status = "none"
    BY <1>3, ReservationsKept
  <2>3. Len(overrides') \in {Len(overrides), Len(overrides) + 1}
    BY <1>3, OverridesGrow
  <2> QED
    BY <1>1, <2>1, <2>2, <2>3 DEF ReservedOnce
<1> QED
  BY <1>2, <1>3

\* What one loses the other gains.
LEMMA OneMoves == ASSUME NEW a \in Nat, NEW b \in Nat PROVE (a - 1) + (b + 1) = a + b
OBVIOUS

\* What is left of an override and what was reserved under it stay its uses.
LEMMA StepGrantConsumedOnce ==
  TypeOK /\ ReserverHolds /\ ReservedOnce /\ GrantConsumedOnce /\ [Next]_vars
    => GrantConsumedOnce'
<1> SUFFICES ASSUME TypeOK, ReserverHolds, ReservedOnce, GrantConsumedOnce, [Next]_vars
             PROVE  GrantConsumedOnce'
  OBVIOUS
<1> DEFINE Under(k) == {r \in Requests : reservation[r].grant = k}
<1>1. overrides \in Seq(Override) /\ Len(overrides) \in Nat
  BY DEF TypeOK, DatabaseTypeOK
<1>2. \A k : IsFiniteSet(Under(k)) /\ Cardinality(Under(k)) \in Nat
  BY RequestsAssumption, FS_Subset, FS_CardinalityType
<1>3. ASSUME NEW k \in 1 .. Len(overrides), overrides[k].left # Unlimited
      PROVE  /\ overrides[k].left \in Nat
             /\ overrides[k].left + Cardinality(Under(k)) = overrides[k].uses
  <2>1. overrides[k] \in Override
    BY <1>1
  <2> QED
    BY <1>3, <2>1 DEF GrantConsumedOnce, Override
<1>4. ASSUME NEW r \in Requests, Reserve(r) PROVE GrantConsumedOnce'
  <2> SUFFICES ASSUME NEW k \in 1 .. Len(overrides'), overrides'[k].left # Unlimited
               PROVE  overrides'[k].left + Cardinality(Under(k)') = overrides'[k].uses
    BY DEF GrantConsumedOnce
  <2>1. k \in 1 .. Len(overrides) /\ overrides'[k].uses = overrides[k].uses
    BY <1>4, ReserveForms
  <2>2. CASE k # seen[r].grant
    <3>1. Under(k)' = Under(k)
      BY <1>4, <2>1, <2>2, ReserveForms
    <3>2. overrides'[k].left = overrides[k].left
      BY <1>4, <2>1, <2>2, ReserveForms
    <3> HIDE DEF Under
    <3> QED
      BY <1>3, <2>1, <3>1, <3>2
  <2>3. CASE k = seen[r].grant
    <3>1. Under(k)' = Under(k) \union {r} /\ r \notin Under(k)
      BY <1>4, <2>1, <2>3, ReserveForms
    <3>2. overrides[k].left # Unlimited /\ overrides'[k].left = overrides[k].left - 1
      BY <1>4, <2>1, <2>3, ReserveForms
    <3> HIDE DEF Under
    <3>3. Cardinality(Under(k)') = Cardinality(Under(k)) + 1
      BY <1>2, <3>1, FS_AddElement
    <3>4. overrides[k].left \in Nat /\ overrides[k].left + Cardinality(Under(k)) = overrides[k].uses
      BY <1>3, <2>1, <3>2
    <3>5. Cardinality(Under(k)) \in Nat
      BY <1>2
    <3>6. (overrides[k].left - 1) + (Cardinality(Under(k)) + 1)
            = overrides[k].left + Cardinality(Under(k))
      BY <3>4, <3>5, OneMoves
    <3> QED
      BY <2>1, <3>2, <3>3, <3>4, <3>6
  <2> QED
    BY <2>2, <2>3
<1>5. ASSUME \A r \in Requests : ~Reserve(r) PROVE GrantConsumedOnce'
  <2> SUFFICES ASSUME NEW k \in 1 .. Len(overrides'), overrides'[k].left # Unlimited
               PROVE  overrides'[k].left + Cardinality(Under(k)') = overrides'[k].uses
    BY DEF GrantConsumedOnce
  <2>1. Under(k)' = Under(k)
    BY <1>5, ReservationsKept
  <2>2. CASE k \in 1 .. Len(overrides)
    <3>1. overrides'[k].left = overrides[k].left /\ overrides'[k].uses = overrides[k].uses
      BY <1>5, <2>2, OverridesGrow
    <3> HIDE DEF Under
    <3> QED
      BY <1>3, <2>1, <2>2, <3>1
  <2>3. CASE k \notin 1 .. Len(overrides)
    <3>1. Len(overrides') # Len(overrides) /\ k = Len(overrides')
      BY <1>1, <1>5, <2>3, OverridesGrow
    <3>2. overrides'[k].left = overrides'[k].uses
      BY <1>5, <3>1, OverridesGrow
    <3>3. Under(k) = {}
      BY <1>1, <1>5, <2>3, <3>1 DEF ReservedOnce
    <3>4. Cardinality(Under(k)') = 0
      BY <2>1, <3>3, FS_EmptySet
    <3>5. overrides'[k].left \in Nat
      <4>1. overrides' \in Seq(Override)
        BY StepDatabaseTypeOK DEF DatabaseTypeOK
      <4>2. overrides'[k] \in Override
        BY <4>1
      <4> QED
        BY <4>2 DEF Override
    <3> HIDE DEF Under
    <3> QED
      BY <3>2, <3>4, <3>5
  <2> QED
    BY <2>2, <2>3
<1> QED
  BY <1>4, <1>5

------------------------------------------------------------------------------
(* The theorems.                                                           *)

\* The initial state satisfies the inductive invariant.
LEMMA InitIInv == Init => IInv
<1> SUFFICES ASSUME Init PROVE IInv
  OBVIOUS
<1>1. TypeOK
  <2>1. HandlerTypeOK
    BY InitialValues DEF Init, HandlerTypeOK
  <2>2. DatabaseTypeOK
    BY InitialValues DEF Init, DatabaseTypeOK
  <2>3. ProcessTypeOK
    BY InitialValues DEF Init, ProcessTypeOK
  <2> QED
    BY <2>1, <2>2, <2>3 DEF TypeOK
<1>2. ReserverHolds
  BY DEF Init, ReserverHolds, AloneInSession
<1>3. ReservedOnce
  BY DEF Init, ReservedOnce, NoReservation
<1>4. GrantConsumedOnce
  BY DEF Init, GrantConsumedOnce
<1> QED
  BY <1>1, <1>2, <1>3, <1>4 DEF IInv

\* Every step preserves it.
LEMMA StepIInv == IInv /\ [Next]_vars => IInv'
<1> SUFFICES ASSUME IInv, [Next]_vars PROVE IInv'
  OBVIOUS
<1>1. TypeOK'
  BY StepHandlerTypeOK, StepDatabaseTypeOK, StepProcessTypeOK DEF IInv, TypeOK
<1>2. ReserverHolds'
  BY StepReserverHolds DEF IInv
<1>3. ReservedOnce'
  BY StepReservedOnce DEF IInv
<1>4. GrantConsumedOnce'
  BY StepGrantConsumedOnce DEF IInv
<1> QED
  BY <1>1, <1>2, <1>3, <1>4 DEF IInv

\* It holds in every reachable state.
THEOREM Invariance == Spec => []IInv
BY InitIInv, StepIInv, PTL DEF Spec

\* Every reachable state is well typed; no override has less than no use left.
THEOREM TypeCorrect == Spec => []TypeOK
<1>1. IInv => TypeOK
  BY DEF IInv
<1> QED
  BY <1>1, Invariance, PTL

\* However requests, failures and operators interleave, every use of an override
\* pays for one reservation (reserve_durable, create_durable_override).
THEOREM GrantsAreConsumedOnce == Spec => []GrantConsumedOnce
<1>1. IInv => GrantConsumedOnce
  BY DEF IInv
<1> QED
  BY <1>1, Invariance, PTL

\* A pause that is committed holds for every reservation that commits after it,
\* those under way included, save for an override of the session
\* (reserve_durable, set_durable_pause).
THEOREM PausesHold == Spec => PauseHolds
<1> DEFINE Held(r) ==
      Mode = "pause" /\ reservation[r].status = "none" /\ reservation'[r].status = "reserved"
        => \/ ~session[Identity(r)].paused
           \/ /\ reservation'[r].grant \in 1..Len(overrides)
              /\ overrides[reservation'[r].grant].identity = Identity(r)
<1>1. ASSUME IInv, [Next]_vars, NEW r \in Requests PROVE Held(r)
  <2> SUFFICES ASSUME Mode = "pause", reservation[r].status = "none",
                      reservation'[r].status = "reserved"
               PROVE  \/ ~session[Identity(r)].paused
                      \/ /\ reservation'[r].grant \in 1..Len(overrides)
                         /\ overrides[reservation'[r].grant].identity = Identity(r)
    OBVIOUS
  <2>1. PICK q \in Requests : Reserve(q)
    BY <1>1, ReservationsKept DEF IInv
  <2>2. q = r
    BY <1>1, <2>1, ReserveForms DEF IInv
  <2>3. reservation'[r].grant = seen[r].grant
    BY <1>1, <2>1, <2>2, ReserveForms DEF IInv
  <2>4. ReadHolds(r) /\ ~seen[r].refuse
    BY <1>1, <2>1, <2>2 DEF IInv, ReserverHolds, Reserve
  <2>5. Len(overrides) \in Nat
    BY <1>1 DEF IInv, TypeOK, DatabaseTypeOK
  <2> QED
    BY <2>3, <2>4, <2>5 DEF ReadHolds
<1>2. IInv /\ [Next]_vars => [\A r \in Requests : Held(r)]_vars
  BY <1>1
<1> QED
  BY <1>2, Invariance, PTL DEF Spec, PauseHolds
------------------------------------------------------------------------------
(* The sums over reservations: what they were when a transaction read them *)
(* bounds what they are when it commits, because its locks keep out every  *)
(* other transaction that could add to them.                               *)

\* The tokens of each reservation.
Tokens == [r \in Requests |-> reservation[r].tokens]

\* Reservations of some sessions, and what each weighs in the sums.
Within(r, I) == reservation[r].status # "none" /\ reservation[r].identity \in I
Weight(I, window) ==
  [r \in Requests |-> IF Within(r, I) /\ OnTime(r, window) THEN reservation[r].tokens ELSE 0]
Counted(I, window) ==
  [r \in Requests |-> IF Within(r, I) /\ CountedIn(r, window) THEN reservation[r].tokens ELSE 0]

\* What a session used and what it has under way, request by request.
Usage(i) ==
  [r \in Requests |->
     IF Within(r, {i}) /\ Reconciled(r) THEN reservation[r].tokens ELSE 0]
UnderWay(i) ==
  [r \in Requests |-> IF Within(r, {i}) /\ Active(r) THEN reservation[r].tokens ELSE 0]

SessionsOf(p) == {i \in Identities : ProjectOf[i] = p}
ExtraOf(grant) == IF grant = 0 THEN 0 ELSE overrides[grant].extra

\* The sum is below the allowance, extended by one of the overrides used.
Covered(I, window, allowance) ==
  \/ SumOf(Weight(I, window), Requests) < allowance
  \/ \E r \in Requests :
       /\ Within(r, I)
       /\ SumOf(Weight(I, window), Requests) < allowance + ExtraOf(reservation[r].grant)

\* There is room for what a transaction is about to reserve.
Room(r, I, window, allowance) ==
  SumOf(Weight(I, window), Requests) + request[r].estimate < allowance + ExtraOf(seen[r].grant)

\* What a handler holds while its request is at the provider.
HandlerKnows ==
  \A r \in Requests :
    /\ request[r].fresh <= request[r].estimate
    /\ pc[r] \in {"forwarded", "answered"} =>
         /\ Reserved(r) /\ reservation[r].identity = Identity(r)
         /\ reservation[r].tokens = request[r].estimate

\* At most one transaction is under way in a project (requests without one share its lock).
AloneInProject ==
  \A q, r \in Requests :
    pc[q] = "reserving" /\ pc[r] = "reserving" /\ Project(q) = Project(r) => q = r

\* The counter of a session is the usage of its reconciled reservations.
UsageHolds == \A i \in Identities : session[i].fresh = SumOf(Usage(i), Requests)

\* The sums of sessions and projects are covered.
AllowancesHold ==
  /\ \A i \in Identities : Covered({i}, OldestAge, PauseSession)
  /\ \A p \in Projects : Covered(SessionsOf(p), Hour, ProjectHour)

\* A transaction that is going to reserve has room, whatever happened since it read.
RoomLeft ==
  \A r \in Requests : pc[r] = "reserving" /\ ~seen[r].refuse =>
    /\ \A i \in Identities : Identity(r) = i => Room(r, {i}, OldestAge, PauseSession)
    /\ \A p \in Projects : Project(r) = p => Room(r, SessionsOf(p), Hour, ProjectHour)

\* The strengthening: what holds of the sums between a transaction's read and its commit.
SumInv ==
  /\ HandlerKnows /\ AloneInProject /\ UsageHolds
  /\ Mode = "pause" => AllowancesHold /\ RoomLeft

------------------------------------------------------------------------------
(* The sums.                                                               *)

\* The total of the model is the sum of SumTheorems.
LEMMA TotalIsSum == ASSUME NEW S \in SUBSET Requests PROVE Total(S) = SumOf(Tokens, S)
<1> DEFINE A(g) == g = [s \in SUBSET S |-> IF s = {} THEN 0
                        ELSE reservation[Picked(s)].tokens + g[s \ {Picked(s)}]]
<1>1. Total(S) = (CHOOSE g : A(g))[S]
  BY DEF Total, MapThenSumSet, MapThenFoldSet, Picked
<1>2. \A g : A(g) <=> IsTally(Tokens, S, g)
  <2> TAKE g
  <2>1. \A s \in SUBSET S : TallyOf(Tokens, g, s) = (IF s = {} THEN 0
                        ELSE reservation[Picked(s)].tokens + g[s \ {Picked(s)}])
    BY DEF TallyOf, Tokens, Picked
  <2> QED BY <2>1 DEF IsTally
<1>3. (CHOOSE g : A(g)) = Tally(Tokens, S)
  <2> HIDE DEF A
  <2> QED BY <1>2, Zenon DEF Tally
<1> QED BY <1>1, <1>3, SumIsTally

\* A total is the sum of what each request weighs in it.
LEMMA TotalWeighs ==
  ASSUME DatabaseTypeOK, NEW S \in SUBSET Requests, NEW f,
         f = [r \in Requests |-> IF r \in S THEN reservation[r].tokens ELSE 0]
  PROVE  Total(S) = SumOf(f, Requests)
<1>1. \A r \in Requests : Tokens[r] \in Nat
  BY DEF Tokens, DatabaseTypeOK, Reservation
<1>2. f = Only(Tokens, Requests, S)
  BY DEF Only, Tokens
<1>3. SumOf(Tokens, S) = SumOf(Only(Tokens, Requests, S), Requests)
  BY <1>1, SumOfPart, RequestsAssumption
<1> QED BY <1>2, <1>3, TotalIsSum

\* The totals the code and the properties speak of, in these terms.
LEMMA Totals ==
  ASSUME DatabaseTypeOK
  PROVE  /\ \A i \in Identities :
              /\ Total({r \in OfSession(i) : Reconciled(r)}) = SumOf(Usage(i), Requests)
              /\ ActiveTotal(i) = SumOf(UnderWay(i), Requests)
              /\ \A window : Total({r \in OfSession(i) : OnTime(r, window)})
                               = SumOf(Weight({i}, window), Requests)
         /\ \A p \in Projects :
              /\ ProjectTotal(p) = SumOf(Counted(SessionsOf(p), Hour), Requests)
              /\ \A window : Total({r \in OfProject(p) : OnTime(r, window)})
                               = SumOf(Weight(SessionsOf(p), window), Requests)
<1>1. ASSUME NEW i \in Identities
      PROVE  /\ Total({r \in OfSession(i) : Reconciled(r)}) = SumOf(Usage(i), Requests)
             /\ ActiveTotal(i) = SumOf(UnderWay(i), Requests)
             /\ \A window : Total({r \in OfSession(i) : OnTime(r, window)})
                               = SumOf(Weight({i}, window), Requests)
  <2>1. \A r \in Requests : Within(r, {i}) <=> r \in OfSession(i)
    BY DEF Within, OfSession
  <2>2. OfSession(i) \in SUBSET Requests
    BY DEF OfSession
  <2>3. Total({r \in OfSession(i) : Reconciled(r)}) = SumOf(Usage(i), Requests)
    <3> DEFINE S == {r \in OfSession(i) : Reconciled(r)}
    <3>1. Usage(i) = [r \in Requests |-> IF r \in S THEN reservation[r].tokens ELSE 0]
      BY <2>1 DEF Usage
    <3>2. S \in SUBSET Requests
      BY <2>2
    <3> HIDE DEF S
    <3>3. Total(S) = SumOf(Usage(i), Requests)
      BY <3>1, <3>2, TotalWeighs
    <3> QED BY <3>3 DEF S
  <2>4. ActiveTotal(i) = SumOf(UnderWay(i), Requests)
    <3> DEFINE S == {r \in OfSession(i) : Active(r)}
    <3>1. UnderWay(i) = [r \in Requests |-> IF r \in S THEN reservation[r].tokens ELSE 0]
      BY <2>1 DEF UnderWay
    <3>2. S \in SUBSET Requests
      BY <2>2
    <3> HIDE DEF S
    <3>3. Total(S) = SumOf(UnderWay(i), Requests)
      BY <3>1, <3>2, TotalWeighs
    <3> QED BY <3>3 DEF S, ActiveTotal
  <2>5. ASSUME NEW window PROVE Total({r \in OfSession(i) : OnTime(r, window)})
                               = SumOf(Weight({i}, window), Requests)
    <3> DEFINE S == {r \in OfSession(i) : OnTime(r, window)}
    <3>1. Weight({i}, window) = [r \in Requests |-> IF r \in S THEN reservation[r].tokens ELSE 0]
      BY <2>1 DEF Weight
    <3>2. S \in SUBSET Requests
      BY <2>2
    <3> HIDE DEF S
    <3>3. Total(S) = SumOf(Weight({i}, window), Requests)
      BY <3>1, <3>2, TotalWeighs
    <3> QED BY <3>3 DEF S
  <2> QED BY <2>3, <2>4, <2>5
<1>2. ASSUME NEW p \in Projects
      PROVE  /\ ProjectTotal(p) = SumOf(Counted(SessionsOf(p), Hour), Requests)
             /\ \A window : Total({r \in OfProject(p) : OnTime(r, window)})
                               = SumOf(Weight(SessionsOf(p), window), Requests)
  <2>1. \A r \in Requests : Within(r, SessionsOf(p)) <=> r \in OfProject(p)
    BY DEF Within, OfProject, OfSession, SessionsOf
  <2>2. OfProject(p) \in SUBSET Requests
    BY DEF OfProject, OfSession
  <2>3. ProjectTotal(p) = SumOf(Counted(SessionsOf(p), Hour), Requests)
    <3> DEFINE S == {r \in OfProject(p) : CountedIn(r, Hour)}
    <3>1. Counted(SessionsOf(p), Hour)
            = [r \in Requests |-> IF r \in S THEN reservation[r].tokens ELSE 0]
      BY <2>1 DEF Counted
    <3>2. S \in SUBSET Requests
      BY <2>2
    <3>3. p # NoProject
      BY DEF Projects
    <3> HIDE DEF S
    <3>4. Total(S) = SumOf(Counted(SessionsOf(p), Hour), Requests)
      BY <3>1, <3>2, TotalWeighs
    <3> QED BY <3>3, <3>4 DEF S, ProjectTotal
  <2>4. ASSUME NEW window PROVE Total({r \in OfProject(p) : OnTime(r, window)})
                               = SumOf(Weight(SessionsOf(p), window), Requests)
    <3> DEFINE S == {r \in OfProject(p) : OnTime(r, window)}
    <3>1. Weight(SessionsOf(p), window)
            = [r \in Requests |-> IF r \in S THEN reservation[r].tokens ELSE 0]
      BY <2>1 DEF Weight
    <3>2. S \in SUBSET Requests
      BY <2>2
    <3> HIDE DEF S
    <3>3. Total(S) = SumOf(Weight(SessionsOf(p), window), Requests)
      BY <3>1, <3>2, TotalWeighs
    <3> QED BY <3>3 DEF S
  <2> QED BY <2>3, <2>4
<1> QED BY <1>1, <1>2

\* Weights are natural numbers.
LEMMA WeightsAreNatural ==
  ASSUME DatabaseTypeOK, NEW I, NEW window, NEW r \in Requests
  PROVE  /\ reservation[r].tokens \in Nat
         /\ Weight(I, window)[r] \in Nat /\ Counted(I, window)[r] \in Nat
         /\ \A i : Usage(i)[r] \in Nat /\ UnderWay(i)[r] \in Nat
BY DEF DatabaseTypeOK, Reservation, Weight, Counted, Usage, UnderWay

\* What is on time is no more than what counts against an allowance.
LEMMA OnTimeCounts ==
  ASSUME DatabaseTypeOK, NEW I, NEW window
  PROVE  SumOf(Weight(I, window), Requests) <= SumOf(Counted(I, window), Requests)
<1>1. \A r \in Requests : Weight(I, window)[r] <= Counted(I, window)[r]
  BY DEF Weight, Counted, OnTime, CountedIn, DatabaseTypeOK, Reservation
<1> QED BY <1>1, WeightsAreNatural, SumMonotonic, RequestsAssumption
\* What is on time in a session is no more than its usage and what it has under way.
LEMMA OnTimeIsUsedOrUnderWay ==
  ASSUME DatabaseTypeOK, NEW i, NEW window
  PROVE  SumOf(Weight({i}, window), Requests)
           <= SumOf(Usage(i), Requests) + SumOf(UnderWay(i), Requests)
<1>1. \A r \in Requests : Weight({i}, window)[r] <= Usage(i)[r] + UnderWay(i)[r]
  BY DEF Weight, Usage, UnderWay, OnTime, DatabaseTypeOK, Reservation
<1> QED BY <1>1, WeightsAreNatural, SumOfTwo, RequestsAssumption

\* The sums are natural numbers.
LEMMA SumsAreNatural ==
  ASSUME DatabaseTypeOK, NEW I, NEW window
  PROVE  /\ SumOf(Weight(I, window), Requests) \in Nat
         /\ SumOf(Counted(I, window), Requests) \in Nat
         /\ \A i : SumOf(Usage(i), Requests) \in Nat /\ SumOf(UnderWay(i), Requests) \in Nat
BY WeightsAreNatural, SumProperties, RequestsAssumption

\* A transaction that concludes not to refuse has read that there is room.
LEMMA ReadFindsRoom ==
  ASSUME TypeOK, UsageHolds, Mode = "pause", NEW r \in Requests, ~Refused(r),
         NEW extra \in Nat, extra = ExtraOf(OldestUsable(Identity(r)))
  PROVE  /\ \A i \in Identities : Identity(r) = i =>
              SumOf(Weight({i}, OldestAge), Requests) + request[r].estimate < PauseSession + extra
         /\ \A p \in Projects : Project(r) = p =>
              SumOf(Weight(SessionsOf(p), Hour), Requests) + request[r].estimate
                < ProjectHour + extra
<1>1. DatabaseTypeOK /\ request[r].estimate \in Nat
  BY DEF TypeOK, HandlerTypeOK, Request
<1>2. ~ExceedsAllowance(r, extra)
  BY DEF Refused, ExtraOf
<1>3. PauseSession \in Nat /\ ProjectHour \in Nat
  BY AllowancesAssumption
<1>4. ASSUME NEW i \in Identities, Identity(r) = i
      PROVE  SumOf(Weight({i}, OldestAge), Requests) + request[r].estimate < PauseSession + extra
  <2>1. ~(session[i].fresh + ActiveTotal(i) + request[r].estimate >= PauseSession + extra)
    BY <1>2, <1>4 DEF ExceedsAllowance
  <2>2. session[i].fresh = SumOf(Usage(i), Requests)
    BY DEF UsageHolds
  <2>3. ActiveTotal(i) = SumOf(UnderWay(i), Requests)
    BY <1>1, Totals
  <2>4. SumOf(Weight({i}, OldestAge), Requests)
           <= SumOf(Usage(i), Requests) + SumOf(UnderWay(i), Requests)
    BY <1>1, OnTimeIsUsedOrUnderWay
  <2>5. /\ SumOf(Weight({i}, OldestAge), Requests) \in Nat
        /\ SumOf(Usage(i), Requests) \in Nat /\ SumOf(UnderWay(i), Requests) \in Nat
    BY <1>1, SumsAreNatural
  <2> QED BY <1>1, <1>3, <2>1, <2>2, <2>3, <2>4, <2>5
<1>5. ASSUME NEW p \in Projects, Project(r) = p
      PROVE  SumOf(Weight(SessionsOf(p), Hour), Requests) + request[r].estimate
               < ProjectHour + extra
  <2>1. ~(ProjectTotal(p) + request[r].estimate >= ProjectHour + extra)
    BY <1>2, <1>5 DEF ExceedsAllowance
  <2>2. ProjectTotal(p) = SumOf(Counted(SessionsOf(p), Hour), Requests)
    BY <1>1, Totals
  <2>3. SumOf(Weight(SessionsOf(p), Hour), Requests)
          <= SumOf(Counted(SessionsOf(p), Hour), Requests)
    BY <1>1, OnTimeCounts
  <2>4. /\ SumOf(Weight(SessionsOf(p), Hour), Requests) \in Nat
        /\ SumOf(Counted(SessionsOf(p), Hour), Requests) \in Nat
    BY <1>1, SumsAreNatural
  <2> QED BY <1>1, <1>3, <2>1, <2>2, <2>3, <2>4
<1> QED BY <1>4, <1>5

------------------------------------------------------------------------------
(* What steps do to the sums.                                              *)

\* Reservations change by a new one, a reconciled one, or one that ages.
LEMMA ReservationsChange ==
  ASSUME [Next]_vars
  PROVE  \/ \E r \in Requests : Reserve(r) \/ Reconcile(r) \/ Age(r)
         \/ reservation' = reservation
BY DEF Next, Handler, Arrive, ReserveRead, Refuse, ReserveFail, SendFail, Answer,
   ReconcileFail, ControlDatabase, ControlMemory, Authorize, Expire, Restart, database, vars

\* What Reconcile and Age do to a reservation.
LEMMA ReconcileForms ==
  ASSUME TypeOK, HandlerKnows, NEW r \in Requests, Reconcile(r)
  PROVE  /\ Reserved(r) /\ reservation[r].identity = Identity(r)
         /\ request[r].fresh <= reservation[r].tokens
         /\ reservation'[r].status = "reconciled"
         /\ reservation'[r].identity = reservation[r].identity
         /\ reservation'[r].tokens = request[r].fresh
         /\ reservation'[r].age = reservation[r].age
         /\ reservation'[r].late <=> reservation[r].age > Fresh
         /\ \A q \in Requests : q # r => reservation'[q] = reservation[q]
<1>1. pc[r] = "answered"
  BY DEF Reconcile
<1>2. Reserved(r) /\ reservation[r].identity = Identity(r)
      /\ request[r].fresh <= reservation[r].tokens
  BY <1>1 DEF HandlerKnows
<1>3. reservation \in [Requests -> Reservation]
  BY DEF TypeOK, DatabaseTypeOK
<1>4. reservation' = [reservation EXCEPT ![r].status = "reconciled",
        ![r].tokens = request[r].fresh, ![r].late = reservation[r].age > Fresh]
  BY <1>2 DEF Reconcile
<1>5. reservation[r] \in Reservation
  BY <1>3
<1> QED BY <1>2, <1>3, <1>4, <1>5 DEF Reservation

\* What Age does to it.
LEMMA AgeForms ==
  ASSUME TypeOK, NEW r \in Requests, Age(r)
  PROVE  /\ reservation'[r].status = reservation[r].status
         /\ reservation'[r].identity = reservation[r].identity
         /\ reservation'[r].tokens = reservation[r].tokens
         /\ reservation'[r].grant = reservation[r].grant
         /\ reservation'[r].age = reservation[r].age + 1
         /\ reservation'[r].late = reservation[r].late
         /\ \A q \in Requests : q # r => reservation'[q] = reservation[q]
<1>1. reservation \in [Requests -> Reservation] /\ reservation[r] \in Reservation
  BY DEF TypeOK, DatabaseTypeOK
<1> QED BY <1>1 DEF Age, Reservation

\* A request that is reserved weighs its estimate, and nothing before.
LEMMA ReserveWeighs ==
  ASSUME TypeOK, ReserverHolds, ReservedOnce, NEW r \in Requests, Reserve(r)
  PROVE  /\ reservation'[r].identity = Identity(r)
         /\ reservation'[r].tokens = request[r].estimate
         /\ reservation'[r].age = Fresh
         /\ reservation'[r].status = "reserved"
         /\ reservation[r].status = "none"
         /\ \A q \in Requests : q # r => reservation'[q] = reservation[q]
<1>1. /\ reservation'[r].identity = Identity(r)
      /\ reservation'[r].tokens = request[r].estimate
      /\ reservation'[r].age = Fresh
  BY DEF Reserve, TypeOK, DatabaseTypeOK
<1> QED BY <1>1, ReserveForms

\* Nothing but a new reservation adds to what is on time.
LEMMA WeightsShrink ==
  ASSUME TypeOK, TypeOK', HandlerKnows, ReserverHolds, ReservedOnce, [Next]_vars,
         NEW I, NEW window \in Nat,
         \A r \in Requests : Reserve(r) => Identity(r) \notin I
  PROVE  SumOf(Weight(I, window), Requests)' <= SumOf(Weight(I, window), Requests)
<1>1. DatabaseTypeOK /\ DatabaseTypeOK'
  BY DEF TypeOK
<1> DEFINE f == Weight(I, window)
           g == Weight(I, window)'
<1>2. ASSUME NEW q \in Requests PROVE g[q] <= f[q]
  <2>1. /\ reservation[q] \in Reservation /\ reservation'[q] \in Reservation
        /\ f[q] = IF Within(q, I) /\ OnTime(q, window) THEN reservation[q].tokens ELSE 0
        /\ g[q] = IF (Within(q, I) /\ OnTime(q, window))' THEN reservation'[q].tokens ELSE 0
    BY <1>1 DEF DatabaseTypeOK, Weight
  <2> HIDE DEF f, g
  <2>2. reservation[q].tokens \in Nat /\ reservation[q].age \in Nat
    BY <2>1 DEF Reservation
  <2>3. CASE reservation'[q] = reservation[q]
    BY <2>1, <2>2, <2>3 DEF Within, OnTime, Active, Reserved, Reconciled
  <2>4. CASE Reserve(q)
    <3>1. reservation'[q].identity \notin I
      BY <2>4, ReserveWeighs
    <3> QED BY <2>1, <2>2, <3>1 DEF Within
  <2>5. CASE Reconcile(q)
    <3>1. /\ reservation[q].status = "reserved"
          /\ reservation'[q].status = "reconciled"
          /\ reservation'[q].identity = reservation[q].identity
          /\ reservation'[q].tokens <= reservation[q].tokens
          /\ reservation'[q].age = reservation[q].age
          /\ reservation'[q].late <=> reservation[q].age > Fresh
      BY <2>5, ReconcileForms DEF Reserved
    <3>2. (Within(q, I) /\ OnTime(q, window))' => Within(q, I) /\ OnTime(q, window)
      BY <2>2, <3>1 DEF Within, OnTime, Active, Reserved, Reconciled, Fresh
    <3> QED BY <2>1, <2>2, <3>1, <3>2
  <2>6. CASE Age(q)
    <3>1. /\ reservation'[q].status = reservation[q].status
          /\ reservation'[q].identity = reservation[q].identity
          /\ reservation'[q].tokens = reservation[q].tokens
          /\ reservation'[q].age = reservation[q].age + 1
          /\ reservation'[q].late = reservation[q].late
      BY <2>6, AgeForms
    <3>2. (Within(q, I) /\ OnTime(q, window))' => Within(q, I) /\ OnTime(q, window)
      BY <2>2, <3>1 DEF Within, OnTime, Active, Reserved, Reconciled, Fresh
    <3> QED BY <2>1, <2>2, <3>1, <3>2
  <2>7. \/ reservation'[q] = reservation[q] \/ Reserve(q) \/ Reconcile(q) \/ Age(q)
    BY ReservationsChange, ReserveWeighs, ReconcileForms, AgeForms
  <2> QED BY <2>3, <2>4, <2>5, <2>6, <2>7
<1>3. \A q \in Requests : f[q] \in Nat /\ g[q] \in Nat
  BY <1>1 DEF DatabaseTypeOK, Reservation, Weight
<1>4. SumOf(g, Requests) <= SumOf(f, Requests)
  <2> HIDE DEF f, g
  <2> QED BY <1>2, <1>3, SumMonotonic, RequestsAssumption
<1> QED BY <1>4

\* A new reservation adds its estimate to what its session and project have on time.
LEMMA WeightsGrow ==
  ASSUME TypeOK, TypeOK', ReserverHolds, ReservedOnce, NEW r \in Requests, Reserve(r),
         NEW I, NEW window \in Nat, Identity(r) \in I
  PROVE  SumOf(Weight(I, window), Requests)'
           = SumOf(Weight(I, window), Requests) + request[r].estimate
<1> DEFINE f == Weight(I, window)
           g == Weight(I, window)'
<1>1. \A q \in Requests : f[q] \in Nat /\ g[q] \in Nat
  BY DEF TypeOK, DatabaseTypeOK, Reservation, Weight
<1>2. \A q \in Requests : q # r => g[q] = f[q]
  <2>1. \A q \in Requests : q # r => reservation'[q] = reservation[q]
    BY ReserveWeighs
  <2> QED BY <2>1 DEF Weight, Within, OnTime, Active, Reserved, Reconciled
<1>3. f[r] = 0 /\ g[r] = request[r].estimate
  BY ReserveWeighs DEF Weight, Within, OnTime, Active, Reserved
<1>4. SumOf(g, Requests) = SumOf(f, Requests) - f[r] + g[r]
  <2> HIDE DEF f, g
  <2> QED BY <1>1, <1>2, SumChanges, RequestsAssumption
<1>5. SumOf(f, Requests) \in Nat
  BY SumsAreNatural DEF TypeOK
<1>6. SumOf(g, Requests) = SumOf(f, Requests) + request[r].estimate
  <2> HIDE DEF f, g
  <2> QED BY <1>1, <1>3, <1>4, <1>5
<1> QED BY <1>6

\* Overrides keep the tokens they add, and reservations the override.
LEMMA ExtrasKept ==
  ASSUME TypeOK, ReserverHolds, ReservedOnce, [Next]_vars, NEW k \in 1 .. Len(overrides)
  PROVE  overrides'[k].extra = overrides[k].extra
<1>1. CASE \E r \in Requests : Reserve(r)
  BY <1>1, ReserveForms
<1>2. CASE \A r \in Requests : ~Reserve(r)
  BY <1>2, OverridesGrow
<1> QED BY <1>1, <1>2

\* What a reservation adds to the sum never changes: its session and override stay.
LEMMA MadeUnderKept ==
  ASSUME TypeOK, HandlerKnows, ReserverHolds, ReservedOnce, [Next]_vars,
         NEW r \in Requests, NEW I, Within(r, I)
  PROVE  /\ Within(r, I)'
         /\ ExtraOf(reservation[r].grant)' = ExtraOf(reservation[r].grant)
<1>1. reservation[r].status # "none" /\ reservation[r].grant \in 0 .. Len(overrides)
  BY DEF Within, ReservedOnce
<1>2. /\ reservation'[r].grant = reservation[r].grant
      /\ reservation'[r].status # "none"
      /\ reservation'[r].identity = reservation[r].identity
  <2>1. ~Reserve(r)
    BY <1>1, ReserveForms
  <2>2. CASE reservation'[r] = reservation[r]
    BY <1>1, <2>2
  <2>3. CASE Reconcile(r)
    <3>1. \A q \in Requests : ~Reserve(q)
      BY <2>3, ReconcileForms, ReserveWeighs DEF Reserved
    <3> QED BY <1>1, <2>3, <3>1, ReconcileForms, ReservationsKept
  <2>4. CASE Age(r)
    BY <1>1, <2>4, AgeForms
  <2> QED BY <2>1, <2>2, <2>3, <2>4, ReservationsChange, ReserveWeighs, ReconcileForms, AgeForms
<1>3. Len(overrides) \in Nat
  BY DEF TypeOK, DatabaseTypeOK
<1>4. reservation[r].grant # 0 =>
        overrides'[reservation[r].grant].extra = overrides[reservation[r].grant].extra
  BY <1>1, <1>3, ExtrasKept
<1> QED BY <1>2, <1>4 DEF Within, ExtraOf

\* A sum stays covered, if a new reservation found room.
LEMMA CoveredKept ==
  ASSUME TypeOK, TypeOK', HandlerKnows, ReserverHolds, ReservedOnce, [Next]_vars,
         NEW I, NEW window \in Nat, NEW allowance \in Nat, Covered(I, window, allowance),
         \A r \in Requests : Reserve(r) /\ Identity(r) \in I => Room(r, I, window, allowance)
  PROVE  Covered(I, window, allowance)'
<1> DEFINE total == SumOf(Weight(I, window), Requests)
<1>1. total \in Nat /\ total' \in Nat
  <2>1. DatabaseTypeOK /\ DatabaseTypeOK'
    BY DEF TypeOK
  <2>2. \A q \in Requests : Weight(I, window)'[q] \in Nat
    BY <2>1 DEF DatabaseTypeOK, Reservation, Weight
  <2>3. SumOf(Weight(I, window)', Requests) \in Nat
    BY <2>2, SumProperties, RequestsAssumption
  <2> QED BY <2>1, <2>3, SumsAreNatural
<1>2. CASE \A r \in Requests : Reserve(r) => Identity(r) \notin I
  <2>1. total' <= total
    BY <1>2, WeightsShrink
  <2>2. CASE total < allowance
    <3> HIDE DEF total
    <3>1. total' < allowance
      BY <1>1, <2>1, <2>2
    <3> QED BY <3>1 DEF Covered, total
  <2>3. CASE ~(total < allowance)
    <3>1. PICK r \in Requests :
            Within(r, I) /\ total < allowance + ExtraOf(reservation[r].grant)
      BY <2>3 DEF Covered
    <3>2. Within(r, I)' /\ ExtraOf(reservation[r].grant)' = ExtraOf(reservation[r].grant)
      BY <3>1, MadeUnderKept
    <3>3. ExtraOf(reservation[r].grant) \in Nat
      <4>1. reservation[r].grant \in 0 .. Len(overrides) /\ overrides \in Seq(Override)
        BY DEF ReservedOnce, TypeOK, DatabaseTypeOK
      <4>2. reservation[r].grant # 0 => overrides[reservation[r].grant] \in Override
        BY <4>1
      <4> QED BY <4>2 DEF ExtraOf, Override
    <3>4. total' < allowance + ExtraOf(reservation[r].grant)'
      <4> HIDE DEF total
      <4> QED BY <1>1, <2>1, <3>1, <3>2, <3>3
    <3> QED BY <3>2, <3>4 DEF Covered
  <2> QED BY <2>2, <2>3
<1>3. ASSUME NEW r \in Requests, Reserve(r), Identity(r) \in I
      PROVE  Covered(I, window, allowance)'
  <2>1. total' = total + request[r].estimate
    BY <1>3, WeightsGrow
  <2>2. total + request[r].estimate < allowance + ExtraOf(seen[r].grant)
    BY <1>3 DEF Room
  <2>3. Within(r, I)'
    BY <1>3, ReserveWeighs DEF Within
  <2>4. ExtraOf(reservation[r].grant)' = ExtraOf(seen[r].grant)
    <3>1. /\ reservation'[r].grant = seen[r].grant
          /\ seen[r].grant \in 0 .. Len(overrides)
          /\ Len(overrides) \in Nat
      BY <1>3, ReserveForms DEF TypeOK, DatabaseTypeOK
    <3>2. seen[r].grant # 0 => overrides'[seen[r].grant].extra = overrides[seen[r].grant].extra
      BY <3>1, ExtrasKept
    <3> QED BY <3>1, <3>2 DEF ExtraOf
  <2> QED BY <2>1, <2>2, <2>3, <2>4 DEF Covered
<1> QED BY <1>2, <1>3

\* A transaction that goes on keeps what it read and has room while nobody else reserves
\* under its allowance.
LEMMA RoomKept ==
  ASSUME TypeOK, TypeOK', HandlerKnows, ReserverHolds, ReservedOnce, [Next]_vars,
         NEW r \in Requests, request'[r] = request[r], seen'[r] = seen[r],
         seen[r].grant \in 0 .. Len(overrides),
         NEW I, NEW window \in Nat, NEW allowance \in Nat, Room(r, I, window, allowance),
         \A q \in Requests : Reserve(q) => Identity(q) \notin I
  PROVE  Room(r, I, window, allowance)'
<1> DEFINE total == SumOf(Weight(I, window), Requests)
<1>1. DatabaseTypeOK /\ DatabaseTypeOK' /\ request[r].estimate \in Nat
  BY DEF TypeOK, HandlerTypeOK, Request
<1>2. total \in Nat /\ total' \in Nat
  <2>2. \A q \in Requests : Weight(I, window)'[q] \in Nat
    BY <1>1 DEF DatabaseTypeOK, Reservation, Weight
  <2>3. SumOf(Weight(I, window)', Requests) \in Nat
    BY <2>2, SumProperties, RequestsAssumption
  <2> QED BY <1>1, <2>3, SumsAreNatural
<1>3. total' <= total
  BY WeightsShrink
<1>4. ExtraOf(seen[r].grant)' = ExtraOf(seen[r].grant) /\ ExtraOf(seen[r].grant) \in Nat
  <2>1. overrides \in Seq(Override) /\ Len(overrides) \in Nat
    BY <1>1 DEF DatabaseTypeOK
  <2>2. seen[r].grant # 0 =>
          /\ overrides[seen[r].grant] \in Override
          /\ overrides'[seen[r].grant].extra = overrides[seen[r].grant].extra
    BY <2>1, ExtrasKept
  <2> QED BY <2>2 DEF ExtraOf, Override
<1>5. total + request[r].estimate < allowance + ExtraOf(seen[r].grant)
  BY DEF Room
<1>6. total' + request'[r].estimate < allowance + ExtraOf(seen[r].grant)'
  <2> HIDE DEF total
  <2> QED BY <1>1, <1>2, <1>3, <1>4, <1>5
<1> QED BY <1>6 DEF Room

\* A handler that waits for an answer has its reservation.
LEMMA StepHandlerKnows ==
  TypeOK /\ ReserverHolds /\ ReservedOnce /\ HandlerKnows /\ [Next]_vars => HandlerKnows'
<1> SUFFICES ASSUME TypeOK, ReserverHolds, ReservedOnce, HandlerKnows, [Next]_vars
             PROVE  HandlerKnows'
  OBVIOUS
<1> DEFINE Reports(q) == request'[q].fresh <= request'[q].estimate
           Knows(q) == /\ Reserved(q)' /\ reservation'[q].identity = Identity(q)'
                       /\ reservation'[q].tokens = request'[q].estimate
<1>1. HandlerTypeOK /\ reservation \in [Requests -> Reservation]
  BY DEF TypeOK, DatabaseTypeOK
<1>2. ASSUME NEW q \in Requests PROVE Reports(q)
  <2>1. CASE Arrive(q)
    <3>1. \/ request' = request
          \/ \E i \in Identities, estimate \in Estimates :
               request' = [request EXCEPT ![q] =
                             [identity |-> i, estimate |-> estimate, fresh |-> 0]]
      BY <2>1 DEF Arrive
    <3>2. 0 <= request[q].estimate /\ \A estimate \in Estimates : 0 <= estimate
      <4>1. Estimates \subseteq Nat
        BY AllowancesAssumption
      <4>2. request[q] \in Request
        BY <1>1 DEF HandlerTypeOK
      <4>3. request[q].estimate \in Nat
        BY <4>2 DEF Request
      <4> QED BY <4>1, <4>3
    <3> QED BY <1>1, <3>1, <3>2 DEF HandlerKnows, HandlerTypeOK
  <2>2. CASE Answer(q)
    <3>1. PICK fresh \in 0 .. request[q].estimate :
            \/ request' = [request EXCEPT ![q].fresh = fresh]
            \/ request' = [request EXCEPT ![q] = NoRequest]
      BY <2>2 DEF Answer, Leave
    <3>2. request[q] \in Request /\ fresh <= request[q].estimate
      BY <1>1 DEF HandlerTypeOK, Request
    <3> QED BY <1>1, <3>1, <3>2 DEF HandlerTypeOK, Request, NoRequest
  <2>3. CASE \/ request' = [request EXCEPT ![q] = NoRequest]
             \/ request' = [r \in Requests |-> NoRequest]
             \/ request'[q] = request[q]
    BY <1>1, <2>3 DEF HandlerKnows, NoRequest, HandlerTypeOK
  <2>4. ASSUME NEW r \in Requests, Handler(r), r # q PROVE request'[q] = request[q]
    BY <2>4, OthersKept
  <2>5. ASSUME Handler(q), ~Arrive(q), ~Answer(q)
        PROVE  \/ request' = [request EXCEPT ![q] = NoRequest] \/ request' = request
    BY <2>5 DEF Handler, ReserveRead, Refuse, Reserve, ReserveFail, SendFail, Reconcile,
       ReconcileFail, Leave
  <2> QED BY <2>1, <2>2, <2>3, <2>4, <2>5
    DEF Next, Age, ControlDatabase, ControlMemory, Authorize, Expire, Restart, handler, vars
<1>3. ASSUME NEW q \in Requests, pc'[q] \in {"forwarded", "answered"} PROVE Knows(q)
  <2>1. CASE Reserve(q)
    <3>1. /\ reservation'[q].status = "reserved" /\ reservation'[q].identity = Identity(q)
          /\ reservation'[q].tokens = request[q].estimate
      BY <2>1, ReserveWeighs
    <3>2. PICK to \in {"forwarded", Fallback(q)} : Leave(q, to)
      BY <2>1 DEF Reserve
    <3>3. to = "forwarded" /\ request' = request
      BY <1>1, <1>3, <3>2 DEF Leave, Fallback, HandlerTypeOK
    <3> QED BY <3>1, <3>3 DEF Reserved, Identity
  <2>2. CASE Answer(q)
    <3>1. pc[q] = "forwarded"
      BY <1>1, <1>3, <2>2 DEF Answer, Leave, HandlerTypeOK
    <3>2. PICK fresh \in 0 .. request[q].estimate :
            request' = [request EXCEPT ![q].fresh = fresh] /\ reservation' = reservation
      BY <2>2, <3>1 DEF Answer, database
    <3>3. request[q] \in Request
      BY <1>1 DEF HandlerTypeOK
    <3>4. /\ request'[q].estimate = request[q].estimate
          /\ request'[q].identity = request[q].identity
      BY <1>1, <3>2, <3>3 DEF HandlerTypeOK, Request
    <3> QED BY <3>1, <3>2, <3>4 DEF HandlerKnows, Reserved, Identity
  <2>3. ASSUME Handler(q), ~Reserve(q), ~Answer(q) PROVE FALSE
    BY <1>1, <1>3, <2>3 DEF Handler, Arrive, ReserveRead, Refuse, ReserveFail, SendFail, Reconcile,
       ReconcileFail, Leave, Fallback, HandlerTypeOK
  <2>4. ASSUME NEW r \in Requests, Handler(r), r # q
        PROVE  pc'[q] = pc[q] /\ request'[q] = request[q] /\ reservation'[q] = reservation[q]
    <3>1. reservation'[q] = reservation[q]
      BY <1>1, <2>4 DEF Handler, Arrive, ReserveRead, Refuse, Reserve, ReserveFail, SendFail,
         Answer, Reconcile, ReconcileFail, database
    <3> QED BY <2>4, <3>1, OthersKept
  <2>5. ASSUME NEW r \in Requests, Age(r) PROVE Knows(q)
    <3>1. pc' = pc /\ request' = request
      BY <2>5 DEF Age, handler
    <3>2. /\ reservation'[q].status = reservation[q].status
          /\ reservation'[q].identity = reservation[q].identity
          /\ reservation'[q].tokens = reservation[q].tokens
      BY <2>5, AgeForms
    <3> QED BY <1>3, <3>1, <3>2 DEF HandlerKnows, Reserved, Identity
  <2>6. CASE Restart
    BY <1>3, <2>6 DEF Restart
  <2>7. CASE UNCHANGED <<pc, request, reservation>>
    BY <1>3, <2>7 DEF HandlerKnows, Reserved, Identity
  <2>8. CASE \E r \in Requests : Handler(r) /\ r # q
    BY <1>3, <2>4, <2>8 DEF HandlerKnows, Reserved, Identity
  <2> QED BY <2>1, <2>2, <2>3, <2>5, <2>6, <2>7, <2>8
    DEF Next, ControlDatabase, ControlMemory, Authorize, Expire, handler, database, vars
<1> QED BY <1>2, <1>3 DEF HandlerKnows

\* At most one transaction is under way in a project.
LEMMA StepAloneInProject == TypeOK /\ AloneInProject /\ [Next]_vars => AloneInProject'
<1> SUFFICES ASSUME TypeOK, AloneInProject, [Next]_vars PROVE AloneInProject'
  OBVIOUS
<1>1. HandlerTypeOK
  BY DEF TypeOK
<1>2. ASSUME NEW r \in Requests, Handler(r) PROVE AloneInProject'
  <2>1. \A q \in Requests \ {r} : pc'[q] = pc[q] /\ request'[q] = request[q]
    BY <1>2, OthersKept
  <2>2. CASE ReserveRead(r)
    <3>1. request' = request
      BY <2>2 DEF ReserveRead
    <3> QED BY <2>1, <2>2, <3>1
      DEF AloneInProject, ReserveRead, ProjectLocked, Project, Identity
  <2>3. CASE ~ReserveRead(r)
    <3>1. pc'[r] # "reserving"
      BY <1>1, <1>2, <2>3 DEF Handler, Arrive, Refuse, Reserve, ReserveFail, SendFail, Answer,
         Reconcile, ReconcileFail, Leave, Fallback, HandlerTypeOK
    <3> QED BY <2>1, <3>1 DEF AloneInProject, Project, Identity
  <2> QED BY <2>2, <2>3
<1>3. CASE UNCHANGED handler
  BY <1>3 DEF AloneInProject, Project, Identity, handler
<1>4. CASE Restart
  BY <1>4 DEF Restart, AloneInProject
<1> QED BY <1>2, <1>3, <1>4
  DEF Next, Age, ControlDatabase, ControlMemory, Authorize, Expire, handler, database, vars

\* A reconciled reservation is charged to its session once, with what was reported.
LEMMA StepUsageHolds ==
  TypeOK /\ TypeOK' /\ ReserverHolds /\ ReservedOnce /\ HandlerKnows /\ UsageHolds /\ [Next]_vars
    => UsageHolds'
<1> SUFFICES ASSUME TypeOK, TypeOK', ReserverHolds, ReservedOnce, HandlerKnows, UsageHolds,
                    [Next]_vars, NEW i \in Identities
             PROVE  session'[i].fresh = SumOf(Usage(i), Requests)'
  BY DEF UsageHolds
<1> DEFINE f == Usage(i)
           g == Usage(i)'
<1>1. DatabaseTypeOK /\ HandlerTypeOK
  BY DEF TypeOK
<1>2. \A q \in Requests : f[q] \in Nat /\ g[q] \in Nat
  <2>1. DatabaseTypeOK'
    BY DEF TypeOK
  <2> QED BY <1>1, <2>1 DEF DatabaseTypeOK, Reservation, Usage
<1>3. session[i].fresh = SumOf(f, Requests)
  BY DEF UsageHolds
<1>4. ASSUME session'[i].fresh = session[i].fresh, \A q \in Requests : g[q] = f[q]
      PROVE  session'[i].fresh = SumOf(g, Requests)
  <2> HIDE DEF f, g
  <2>1. SumOf(f, Requests) = SumOf(g, Requests)
    BY <1>2, <1>4, SumAgrees, RequestsAssumption
  <2> QED BY <1>3, <1>4, <2>1
<1>5. ASSUME NEW r \in Requests, Reconcile(r) PROVE session'[i].fresh = SumOf(g, Requests)
  <2>1. /\ Reserved(r) /\ reservation[r].identity = Identity(r)
        /\ reservation'[r].status = "reconciled"
        /\ reservation'[r].identity = reservation[r].identity
        /\ reservation'[r].tokens = request[r].fresh
        /\ \A q \in Requests : q # r => reservation'[q] = reservation[q]
    BY <1>5, ReconcileForms
  <2>2. session' = [session EXCEPT ![Identity(r)].fresh = @ + request[r].fresh]
    BY <1>5, <2>1 DEF Reconcile
  <2>3. \A q \in Requests : q # r => g[q] = f[q]
    BY <2>1 DEF Usage, Within, Reconciled
  <2>4. f[r] = 0 /\ g[r] = IF Identity(r) = i THEN request[r].fresh ELSE 0
    BY <2>1 DEF Usage, Within, Reconciled, Reserved
  <2>5. SumOf(g, Requests) = SumOf(f, Requests) - f[r] + g[r]
    <3> HIDE DEF f, g
    <3> QED BY <1>2, <2>3, SumChanges, RequestsAssumption
  <2>6. SumOf(f, Requests) \in Nat
    BY <1>1, SumsAreNatural
  <2>7. session'[i].fresh = session[i].fresh + g[r]
    <3>1. session[i].fresh \in Nat /\ i \in DOMAIN session /\ request[r].fresh \in Nat
      BY <1>1 DEF DatabaseTypeOK, HandlerTypeOK, Request
    <3>2. CASE Identity(r) = i
      <4> DEFINE row == [session[i] EXCEPT !.fresh = @ + request[r].fresh]
      <4>1. session' = [session EXCEPT ![i] = row]
        BY <2>2, <3>2
      <4>2. row.fresh = session[i].fresh + request[r].fresh
        BY <1>1 DEF DatabaseTypeOK
      <4> HIDE DEF row
      <4>3. session'[i] = row
        BY <3>1, <4>1
      <4> QED BY <2>4, <3>2, <4>2, <4>3
    <3>3. CASE Identity(r) # i
      <4>1. session'[i] = session[i]
        BY <2>2, <3>3, <3>1
      <4> QED BY <2>4, <3>1, <3>3, <4>1
    <3> QED BY <3>2, <3>3
  <2> HIDE DEF f, g
  <2> QED BY <1>2, <1>3, <2>4, <2>5, <2>6, <2>7
<1>6. ASSUME NEW r \in Requests, Reserve(r) PROVE session'[i].fresh = SumOf(g, Requests)
  <2>1. session'[i].fresh = session[i].fresh
    BY <1>1, <1>6 DEF Reserve, DatabaseTypeOK
  <2>2. \A q \in Requests : g[q] = f[q]
    BY <1>6, ReserveWeighs DEF Usage, Within, Reconciled
  <2> QED BY <1>4, <2>1, <2>2
<1>7. ASSUME NEW r \in Requests, Age(r) PROVE session'[i].fresh = SumOf(g, Requests)
  <2>1. session' = session
    BY <1>7 DEF Age
  <2>2. \A q \in Requests : g[q] = f[q]
    BY <1>7, AgeForms DEF Usage, Within, Reconciled
  <2> QED BY <1>4, <2>1, <2>2
<1>8. ASSUME reservation' = reservation, \A r \in Requests : ~Reconcile(r)
      PROVE  session'[i].fresh = SumOf(g, Requests)
  <2>1. \A q \in Requests : g[q] = f[q]
    BY <1>8 DEF Usage, Within, Reconciled
  <2>2. session'[i].fresh = session[i].fresh
    <3>1. CASE \E r \in Requests : Refuse(r) \/ Reserve(r)
      <4>1. session \in [Identities -> [known : BOOLEAN, fresh : Nat, paused : BOOLEAN]]
        BY <1>1 DEF DatabaseTypeOK
      <4>2. PICK r \in Requests :
              \/ session' = [session EXCEPT ![Identity(r)].known = TRUE,
                                            ![Identity(r)].paused = TRUE]
              \/ session' = [session EXCEPT ![Identity(r)].known = TRUE]
        BY <3>1 DEF Refuse, Reserve
      <4> HIDE DEF f, g
      <4>3. CASE i = Identity(r)
        BY <4>1, <4>2, <4>3
      <4>4. CASE i # Identity(r)
        BY <4>1, <4>2, <4>4
      <4> QED BY <4>3, <4>4
    <3>2. CASE \E o \in Operators : ControlDatabase(o)
      BY <1>1, <3>2 DEF ControlDatabase, DatabaseTypeOK
    <3>3. CASE session' = session
      BY <3>3
    <3>4. \/ \E r \in Requests : Refuse(r) \/ Reserve(r)
          \/ \E o \in Operators : ControlDatabase(o)
          \/ session' = session
      <4> HIDE DEF f, g
      <4> QED BY <1>8 DEF Next, Handler, Arrive, ReserveRead, ReserveFail, SendFail,
        Answer, ReconcileFail, Age, ControlMemory, Authorize, Expire, Restart, database, vars
    <3> QED BY <3>1, <3>2, <3>3, <3>4
  <2> QED BY <1>4, <2>1, <2>2
<1> QED BY <1>5, <1>6, <1>7, <1>8, ReservationsChange
\* The requests under way in a session or a project before a step that reserves one there.
LEMMA NobodyElseReserves ==
  ASSUME ReserverHolds, AloneInProject, NEW r \in Requests, pc[r] = "reserving",
         ~Reserve(r), NEW q \in Requests, Reserve(q)
  PROVE  /\ \A i \in Identities : Identity(r) = i => Identity(q) \notin {i}
         /\ \A p \in Projects : Project(r) = p => Identity(q) \notin SessionsOf(p)
<1>1. pc[q] = "reserving"
  BY DEF Reserve
<1>2. Identity(r) # Identity(q)
  BY <1>1 DEF ReserverHolds, AloneInSession
<1>3. Project(r) # Project(q)
  BY <1>1 DEF AloneInProject
<1> QED BY <1>2, <1>3 DEF SessionsOf, Project

\* A transaction that goes on has room: it reads it under its locks, and they keep it.
LEMMA StepRoomLeft ==
  ASSUME TypeOK, TypeOK', ReserverHolds, ReservedOnce, HandlerKnows, AloneInProject, UsageHolds,
         Mode = "pause", RoomLeft, [Next]_vars
  PROVE  RoomLeft'
<1> SUFFICES ASSUME NEW r \in Requests, pc'[r] = "reserving", ~seen'[r].refuse
             PROVE  /\ \A i \in Identities : Identity(r)' = i =>
                         Room(r, {i}, OldestAge, PauseSession)'
                    /\ \A p \in Projects : Project(r)' = p =>
                         Room(r, SessionsOf(p), Hour, ProjectHour)'
  BY DEF RoomLeft, SessionsOf
<1>1. HandlerTypeOK /\ DatabaseTypeOK
  BY DEF TypeOK
<1>2. /\ OldestAge \in Nat /\ Hour \in Nat
      /\ PauseSession \in Nat /\ ProjectHour \in Nat
  BY AllowancesAssumption DEF Hour
<1>3. CASE ReserveRead(r)
  <2>1. reservation' = reservation /\ overrides' = overrides /\ request' = request
    BY <1>3 DEF ReserveRead, database
  <2>2. seen'[r].grant = OldestUsable(Identity(r)) /\ seen'[r].refuse = Refused(r)
    BY <1>1, <1>3 DEF ReserveRead, HandlerTypeOK, Verdict
  <2> DEFINE extra == ExtraOf(OldestUsable(Identity(r)))
  <2>3. extra \in Nat
    <3>1. \A k \in 1 .. Len(overrides) : overrides[k] \in Override
      BY <1>1 DEF DatabaseTypeOK
    <3> QED BY <3>1, OldestIsUsable DEF ExtraOf, Usable, Override
  <2>4. ExtraOf(seen[r].grant)' = extra
    BY <2>1, <2>2 DEF ExtraOf
  <2> HIDE DEF extra
  <2>5. /\ \A i \in Identities : Identity(r) = i =>
             SumOf(Weight({i}, OldestAge), Requests) + request[r].estimate < PauseSession + extra
        /\ \A p \in Projects : Project(r) = p =>
             SumOf(Weight(SessionsOf(p), Hour), Requests) + request[r].estimate
               < ProjectHour + extra
    BY <2>2, <2>3, ReadFindsRoom DEF extra
  <2>6. \A I, window : Weight(I, window)' = Weight(I, window)
    BY <2>1 DEF Weight, Within, OnTime, Active, Reserved, Reconciled
  <2>7. \A I, window : SumOf(Weight(I, window), Requests)' = SumOf(Weight(I, window), Requests)
    BY <2>6
  <2> QED BY <2>1, <2>4, <2>5, <2>7 DEF Room, Identity, Project
<1>4. CASE pc[r] = "reserving" /\ request'[r] = request[r] /\ seen'[r] = seen[r] /\ ~Reserve(r)
  <2>1. ~seen[r].refuse /\ Identity(r)' = Identity(r) /\ Project(r)' = Project(r)
    BY <1>4 DEF Identity, Project
  <2>2. seen[r].grant \in 0 .. Len(overrides)
    BY <1>4 DEF ReserverHolds, ReadHolds
  <2>3. ASSUME NEW i \in Identities, Identity(r) = i
        PROVE  Room(r, {i}, OldestAge, PauseSession)'
    <3>1. Room(r, {i}, OldestAge, PauseSession)
      BY <1>4, <2>1, <2>3 DEF RoomLeft
    <3>2. \A q \in Requests : Reserve(q) => Identity(q) \notin {i}
      BY <1>4, <2>3, NobodyElseReserves
    <3> QED BY <1>2, <1>4, <2>2, <3>1, <3>2, RoomKept
  <2>4. ASSUME NEW p \in Projects, Project(r) = p
        PROVE  Room(r, SessionsOf(p), Hour, ProjectHour)'
    <3>1. Room(r, SessionsOf(p), Hour, ProjectHour)
      BY <1>4, <2>1, <2>4 DEF RoomLeft
    <3>2. \A q \in Requests : Reserve(q) => Identity(q) \notin SessionsOf(p)
      BY <1>4, <2>4, NobodyElseReserves
    <3> DEFINE I == SessionsOf(p)
    <3> HIDE DEF I
    <3>3. Room(r, I, Hour, ProjectHour)'
      BY <1>2, <1>4, <2>2, <3>1, <3>2, RoomKept DEF I
    <3> QED BY <3>3 DEF I
  <2> QED BY <2>1, <2>3, <2>4
<1>5. ASSUME ~ReserveRead(r)
      PROVE  pc[r] = "reserving" /\ request'[r] = request[r] /\ seen'[r] = seen[r] /\ ~Reserve(r)
  <2>1. ~Handler(r)
    BY <1>1, <1>5 DEF Handler, Arrive, Refuse, Reserve, ReserveFail, SendFail, Answer, Reconcile,
       ReconcileFail, Leave, Fallback, HandlerTypeOK
  <2>2. CASE \E q \in Requests : Handler(q)
    BY <2>1, <2>2, OthersKept DEF Handler
  <2>3. CASE UNCHANGED handler
    BY <2>1, <2>3 DEF handler, Handler
  <2>4. ~Restart
    BY DEF Restart
  <2> QED BY <2>2, <2>3, <2>4
    DEF Next, Age, ControlDatabase, ControlMemory, Authorize, Expire, handler, vars
<1> QED BY <1>3, <1>4, <1>5

\* What is on time stays within the allowances.
LEMMA StepAllowancesHold ==
  ASSUME TypeOK, TypeOK', ReserverHolds, ReservedOnce, HandlerKnows, RoomLeft, AllowancesHold,
         [Next]_vars
  PROVE  AllowancesHold'
<1>1. /\ OldestAge \in Nat /\ Hour \in Nat
      /\ PauseSession \in Nat /\ ProjectHour \in Nat
  BY AllowancesAssumption DEF Hour
<1>2. ASSUME NEW i \in Identities PROVE Covered({i}, OldestAge, PauseSession)'
  <2>1. \A r \in Requests : Reserve(r) /\ Identity(r) \in {i}
          => Room(r, {i}, OldestAge, PauseSession)
    BY DEF RoomLeft, Reserve
  <2>2. Covered({i}, OldestAge, PauseSession)
    BY DEF AllowancesHold
  <2> QED BY <1>1, <2>1, <2>2, CoveredKept
<1>3. ASSUME NEW p \in Projects PROVE Covered(SessionsOf(p), Hour, ProjectHour)'
  <2>1. \A r \in Requests : Reserve(r) /\ Identity(r) \in SessionsOf(p)
          => Room(r, SessionsOf(p), Hour, ProjectHour)
    BY DEF RoomLeft, Reserve, SessionsOf, Project
  <2>2. Covered(SessionsOf(p), Hour, ProjectHour)
    BY DEF AllowancesHold
  <2> DEFINE I == SessionsOf(p)
  <2> HIDE DEF I
  <2>3. Covered(I, Hour, ProjectHour)'
    BY <1>1, <2>1, <2>2, CoveredKept DEF I
  <2> QED BY <2>3 DEF I
<1> QED BY <1>2, <1>3 DEF AllowancesHold, SessionsOf

------------------------------------------------------------------------------
(* Allowances and usage.                                                   *)

\* Everything that was made out about the sums.
SpendInv == IInv /\ SumInv

\* Initially nothing is reserved and nothing was used.
LEMMA InitSpendInv == Init => SpendInv
<1> SUFFICES ASSUME Init PROVE SpendInv
  OBVIOUS
<1>1. IInv
  BY InitIInv
<1>2. DatabaseTypeOK
  BY <1>1 DEF IInv, TypeOK
<1>3. HandlerKnows /\ AloneInProject /\ RoomLeft
  BY DEF Init, HandlerKnows, AloneInProject, RoomLeft, NoRequest
<1>4. \A r \in Requests : reservation[r].status = "none"
  BY DEF Init, NoReservation
<1> DEFINE zero == [r \in Requests |-> 0]
<1>5. SumOf(zero, Requests) = 0
  <2>1. SumOf(zero, {}) = 0
    BY SumProperties, FS_EmptySet
  <2>2. zero = Only(zero, Requests, {})
    BY DEF Only
  <2> HIDE DEF zero
  <2>3. \A r \in Requests : zero[r] \in Nat
    BY DEF zero
  <2>4. SumOf(zero, {}) = SumOf(Only(zero, Requests, {}), Requests)
    BY <2>3, SumOfPart, RequestsAssumption
  <2> QED BY <2>1, <2>2, <2>4
<1>6. UsageHolds
  <2>1. \A i : Usage(i) = zero
    BY <1>4 DEF Usage, Within
  <2>2. \A i \in Identities : session[i].fresh = 0
    BY DEF Init
  <2> HIDE DEF zero
  <2> QED BY <1>5, <2>1, <2>2 DEF UsageHolds
<1>7. AllowancesHold
  <2>1. \A I, window : Weight(I, window) = zero
    BY <1>4 DEF Weight, Within
  <2>2. 0 < PauseSession /\ 0 < ProjectHour
    BY AllowancesAssumption
  <2> HIDE DEF zero
  <2> QED BY <1>5, <2>1, <2>2 DEF AllowancesHold, Covered
<1> QED BY <1>1, <1>3, <1>6, <1>7 DEF SpendInv, SumInv

\* Every step preserves what was made out.
LEMMA StepSpendInv == SpendInv /\ [Next]_vars => SpendInv'
<1> SUFFICES ASSUME SpendInv, [Next]_vars PROVE SpendInv'
  OBVIOUS
<1>1. /\ TypeOK /\ ReserverHolds /\ ReservedOnce
      /\ HandlerKnows /\ AloneInProject /\ UsageHolds
      /\ Mode = "pause" => AllowancesHold /\ RoomLeft
  BY DEF SpendInv, SumInv, IInv
<1>2. IInv'
  BY StepIInv DEF SpendInv
<1>3. TypeOK'
  BY <1>2 DEF IInv
<1>4. HandlerKnows' /\ AloneInProject' /\ UsageHolds'
  BY <1>1, <1>3, StepHandlerKnows, StepAloneInProject, StepUsageHolds
<1>5. Mode = "pause" => AllowancesHold' /\ RoomLeft'
  BY <1>1, <1>3, StepAllowancesHold, StepRoomLeft
<1> QED BY <1>2, <1>4, <1>5 DEF SpendInv, SumInv

\* The largest override is no less than any of them.
LEMMA CoveredByLargest ==
  ASSUME TypeOK, ReservedOnce, NEW S \in SUBSET Requests, NEW total \in Nat,
         NEW allowance \in Nat,
         \/ total < allowance
         \/ \E r \in S : total < allowance + ExtraOf(reservation[r].grant)
  PROVE  total < allowance + LargestExtra(S)
<1> DEFINE T == {r \in S : reservation[r].grant # 0}
           E == {overrides[reservation[r].grant].extra : r \in T}
           all == {0} \union E
<1>1. \A r \in T : overrides[reservation[r].grant].extra \in Nat
  <2>1. \A k \in 1 .. Len(overrides) : overrides[k] \in Override
    BY DEF TypeOK, DatabaseTypeOK
  <2>2. \A r \in T : reservation[r].grant \in 1 .. Len(overrides)
    BY DEF ReservedOnce, TypeOK, DatabaseTypeOK
  <2> HIDE DEF T
  <2> QED BY <2>1, <2>2 DEF Override
<1>2. IsFiniteSet(all)
  <2>1. IsFiniteSet(T)
    BY RequestsAssumption, FS_Subset
  <2> DEFINE f == [r \in T |-> overrides[reservation[r].grant].extra]
  <2>2. f \in Surjection(T, E)
    BY DEF Surjection
  <2>3. IsFiniteSet(E)
    <3> HIDE DEF T, E, f
    <3> QED BY <2>1, <2>2, FS_Surjection
  <2> HIDE DEF E
  <2> QED BY <2>3, FS_Singleton, FS_Union
<1>3. all \in SUBSET Nat /\ all # {} /\ 0 \in all
  BY <1>1
<1>4. Max(all) = LargestExtra(S)
  BY DEF LargestExtra
<1>5. \A r \in S : ExtraOf(reservation[r].grant) \in all
  BY DEF ExtraOf
<1> HIDE DEF all
<1> DEFINE most == Max(all)
<1>6. most \in Nat /\ \A e \in all : e \in Nat /\ most >= e
  BY <1>2, <1>3, MaxIsLargest
<1> HIDE DEF most
<1>8. ASSUME NEW r \in S, total < allowance + ExtraOf(reservation[r].grant)
      PROVE  total < allowance + most
  <2>1. ExtraOf(reservation[r].grant) \in Nat /\ most >= ExtraOf(reservation[r].grant)
    BY <1>5, <1>6
  <2> QED BY <1>6, <1>8, <2>1
<1>9. total < allowance + most
  <2>1. total < allowance => total < allowance + most
    BY <1>6
  <2> QED BY <1>8, <2>1
<1> QED BY <1>4, <1>9 DEF most

\* The totals of the properties are those sums.
LEMMA SpendInvImplies == SpendInv => SessionWithin /\ UsageAccounted /\ ProjectWithin
<1> SUFFICES ASSUME SpendInv PROVE SessionWithin /\ UsageAccounted /\ ProjectWithin
  OBVIOUS
<1>1. TypeOK /\ ReservedOnce /\ UsageHolds /\ DatabaseTypeOK
      /\ (Mode = "pause" => AllowancesHold)
  BY DEF SpendInv, SumInv, IInv, TypeOK
<1>2. PauseSession \in Nat /\ ProjectHour \in Nat
  BY AllowancesAssumption
<1>3. UsageAccounted
  BY <1>1, Totals DEF UsageAccounted, UsageHolds
<1>4. ASSUME Mode = "pause", NEW i \in Identities
      PROVE  Total({r \in OfSession(i) : OnTime(r, OldestAge)})
               < PauseSession + LargestExtra(OfSession(i))
  <2> DEFINE total == SumOf(Weight({i}, OldestAge), Requests)
  <2>1. Total({r \in OfSession(i) : OnTime(r, OldestAge)}) = total /\ total \in Nat
    BY <1>1, Totals, SumsAreNatural
  <2>2. OfSession(i) \in SUBSET Requests
    BY DEF OfSession
  <2>3. \A r \in Requests : Within(r, {i}) => r \in OfSession(i)
    BY DEF Within, OfSession
  <2>4. \/ total < PauseSession
        \/ \E r \in OfSession(i) : total < PauseSession + ExtraOf(reservation[r].grant)
    BY <1>1, <1>4, <2>3 DEF AllowancesHold, Covered
  <2> HIDE DEF total
  <2> QED BY <1>1, <1>2, <2>1, <2>2, <2>4, CoveredByLargest
<1>5. ASSUME Mode = "pause", NEW p \in Projects
      PROVE  Total({r \in OfProject(p) : OnTime(r, Hour)})
               < ProjectHour + LargestExtra(OfProject(p))
  <2> DEFINE total == SumOf(Weight(SessionsOf(p), Hour), Requests)
  <2>1. Total({r \in OfProject(p) : OnTime(r, Hour)}) = total /\ total \in Nat
    BY <1>1, Totals, SumsAreNatural
  <2>2. OfProject(p) \in SUBSET Requests
    BY DEF OfProject, OfSession
  <2>3. \A r \in Requests : Within(r, SessionsOf(p)) => r \in OfProject(p)
    BY DEF Within, OfProject, OfSession, SessionsOf
  <2>4. \/ total < ProjectHour
        \/ \E r \in OfProject(p) : total < ProjectHour + ExtraOf(reservation[r].grant)
    BY <1>1, <1>5, <2>3 DEF AllowancesHold, Covered
  <2> HIDE DEF total
  <2> QED BY <1>1, <1>2, <2>1, <2>2, <2>4, CoveredByLargest
<1> QED BY <1>3, <1>4, <1>5 DEF SessionWithin, ProjectWithin

\* The sums are what the code's locks make them, in every reachable state.
THEOREM SpendIsInvariant == Spec => []SpendInv
BY InitSpendInv, StepSpendInv, PTL DEF Spec

\* What a session used and has under way stays below its allowance and the largest override it
\* was granted: the row lock of reserve_durable (max_guard.py:163, 178) keeps what it read true
\* until it commits, for any number of requests, failures and restarts.
THEOREM SessionsStayWithin == Spec => []SessionWithin
<1>1. SpendInv => SessionWithin
  BY SpendInvImplies
<1> QED BY <1>1, SpendIsInvariant, PTL

\* A session's counter is the usage of its reconciled reservations, each counted once, though
\* reconcile_durable may fail or not be reached (max_guard.py:504).
THEOREM UsageIsAccounted == Spec => []UsageAccounted
<1>1. SpendInv => UsageAccounted
  BY SpendInvImplies
<1> QED BY <1>1, SpendIsInvariant, PTL

\* A project's rolling hour stays within its allowance, though its sessions hold different row
\* locks: the advisory lock of the project serialises them (max_guard.py:160-162).
THEOREM ProjectsStayWithin == Spec => []ProjectWithin
<1>1. SpendInv => ProjectWithin
  BY SpendInvImplies
<1> QED BY <1>1, SpendIsInvariant, PTL
==============================================================================
