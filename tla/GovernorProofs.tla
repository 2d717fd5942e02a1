---------------------------- MODULE GovernorProofs ----------------------------
(***************************************************************************)
(* What may be spent: by the governor, for every set of requests, every    *)
(* policy and every clock behaviour, and by the LITE watch, for every      *)
(* budget, group size and clock.                                           *)
(*                                                                         *)
(* The inductive invariant of the governor is TypeOK,                      *)
(* PermitOnceNeverRefunded, EpochFencing strengthened by FencedIsStale,    *)
(* CircuitIntegrity, HalfOpenSingleFlight and BudgetInv. That of the watch *)
(* is WatchInv. The two share no state.                                    *)
(***************************************************************************)
EXTENDS Governor, GovernorStateProofs, LiteWatch, FiniteSetTheorems

\* The trial history keeps its type.
LEMMA NextTrialType ==
  ASSUME TypeOK, NEW after, NEW sent \in SUBSET Ids
  PROVE  NextTrial(after, sent) \in [Providers -> SUBSET Ids]
  BY DEF TypeOK, NextTrial

-----------------------------------------------------------------------------
(* Type correctness *)

\* The initial state is well formed.
LEMMA InitType == Init => TypeOK
  BY InitialOK DEF Init, TypeOK

\* Every method keeps the stored snapshot and the histories well formed.
LEMMA StepType == TypeOK /\ [Next]_vars => TypeOK'
  <1> SUFFICES ASSUME TypeOK, [Next]_vars
               PROVE  TypeOK'
    OBVIOUS
  <1>0. /\ SnapshotOK(gov) /\ gov \in SnapshotType /\ gov.last_now \in Time \cup {-1}
        /\ gov.epoch \in Nat /\ gov.version \in Nat
    BY DEF TypeOK, SnapshotOK, SnapshotType
  <1>1. ASSUME NEW n1 \in Time, NEW n2 \in Time, start_epoch(n1, n2)
        PROVE  TypeOK'
    <2>1. SnapshotOK(gov')
      BY <1>0, <1>1, MaxOfTwo, StartEpochKeepsOK, WrittenOK DEF start_epoch, Write
    <2>2. trial' \in [Providers -> SUBSET Ids]
      BY <1>1, NextTrialType DEF start_epoch
    <2> QED
      BY <1>1, <2>1, <2>2 DEF start_epoch, TypeOK, InState
  <1>2. ASSUME NEW on \in BOOLEAN, NEW n \in Time, set_kill(on, n)
        PROVE  TypeOK'
    <2> DEFINE h == [gov EXCEPT !.kill = on]
    <2>1. h \in SnapshotType /\ h.reservations = gov.reservations /\ h.epoch = gov.epoch
      BY <1>0 DEF SnapshotType
    <2>2. SnapshotOK(h)
      BY <1>0, <2>1 DEF SnapshotOK, Reserved, Has
    <2> HIDE DEF h
    <2>3. SnapshotOK(gov')
      BY <1>0, <1>2, <2>2, MaxOfTwo, WrittenOK DEF set_kill, Write, h
    <2> QED
      BY <1>2, <2>3 DEF set_kill, TypeOK
  <1>3. ASSUME NEW rid \in ReviewIds, NEW limits \in ReviewLimits, NEW n \in Time,
               NEW v \in 0 .. gov.version, NEW e \in 0 .. gov.epoch,
               apply_money_policy(rid, limits, v, e, n)
        PROVE  TypeOK'
    <2> DEFINE h == [gov EXCEPT !.epoch = gov.epoch + 1, !.ceiling = limits]
    <2>0. limits \in Ceilings /\ gov.epoch + 1 \in Nat
      BY <1>0, ReviewAssumption
    <2>1. h \in SnapshotType /\ h.reservations = gov.reservations /\ h.epoch = gov.epoch + 1
      BY <1>0, <2>0 DEF SnapshotType
    <2>2. SnapshotOK(h)
      BY <1>0, <2>1 DEF SnapshotOK, Reserved, Has
    <2> HIDE DEF h
    <2>3. SnapshotOK(gov')
      BY <1>0, <1>3, <2>2, WrittenOK DEF apply_money_policy, Write, h
    <2>4. [request_id |-> rid, limits |-> limits, version |-> v, epoch |-> e] \in ReviewType
      BY <1>0, <2>0 DEF ReviewType
    <2> QED
      BY <1>3, <2>3, <2>4 DEF apply_money_policy, TypeOK, InState
  <1>4. ASSUME NEW e \in 0 .. gov.epoch, NEW q \in Requests, NEW n1 \in Time, NEW n2 \in Time,
               reserve(q, e, n1, n2)
        PROVE  TypeOK'
    <2>0. e \in Nat
      BY <1>0
    <2>1. SnapshotOK(gov')
      BY <1>0, <1>4, <2>0, ReserveKeepsOK, WrittenOK DEF reserve, Write
    <2>2. trial' \in [Providers -> SUBSET Ids]
      BY <1>4, NextTrialType DEF reserve
    <2> QED
      BY <1>4, <2>1, <2>2 DEF reserve, TypeOK
  <1>5. ASSUME NEW e \in 0 .. gov.epoch, NEW id \in Ids, NEW n1 \in Time, NEW n2 \in Time,
               NEW acked \in BOOLEAN, dispatch_commit(id, e, n1, n2, acked)
        PROVE  TypeOK'
    <2>1. SnapshotOK(gov')
      BY <1>0, <1>5, DispatchKeepsOK, WrittenOK DEF dispatch_commit, Write, DispatchOK
    <2>2. trial' \in [Providers -> SUBSET Ids]
      BY <1>5, NextTrialType DEF dispatch_commit
    <2>3. permits' \in [Ids -> Nat]
      <3>1. permits[id] + (IF acked THEN 1 ELSE 0) \in Nat
        BY DEF TypeOK
      <3> QED
        BY <1>5, <3>1 DEF dispatch_commit, TypeOK
    <2> QED
      BY <1>5, <2>1, <2>2, <2>3 DEF dispatch_commit, TypeOK
  <1>6. ASSUME NEW e \in 0 .. gov.epoch, NEW id \in Ids, NEW n \in Time,
               release_not_dispatched(id, e, n)
        PROVE  TypeOK'
    <2>1. SnapshotOK(gov')
      BY <1>0, <1>6, ReleaseKeepsOK, WrittenOK DEF release_not_dispatched, Write, ReleaseOK
    <2> QED
      BY <1>6, <2>1 DEF release_not_dispatched, TypeOK
  <1>7. ASSUME NEW e \in 0 .. gov.epoch, NEW id \in Ids, NEW ev \in Evidence,
               NEW n1 \in Time, NEW n2 \in Time, mark_unknown(id, e, ev, n1, n2)
        PROVE  TypeOK'
    <2>1. SnapshotOK(gov')
      BY <1>0, <1>7, MarkUnknownKeepsOK, WrittenOK DEF mark_unknown, Write, UnknownOK
    <2>2. trial' \in [Providers -> SUBSET Ids]
      BY <1>7, NextTrialType DEF mark_unknown
    <2> QED
      BY <1>7, <2>1, <2>2 DEF mark_unknown, TypeOK
  <1>8. ASSUME NEW e \in 0 .. gov.epoch, NEW id \in Ids, NEW ev \in Evidence,
               NEW n \in Time, settle(id, e, ev, n)
        PROVE  TypeOK'
    <2>1. SnapshotOK(gov')
      BY <1>0, <1>8, SettleKeepsOK, WrittenOK DEF settle, Write, SettleOK
    <2>2. trial' \in [Providers -> SUBSET Ids]
      BY <1>8, NextTrialType DEF settle
    <2> QED
      BY <1>8, <2>1, <2>2 DEF settle, TypeOK
  <1>9. CASE UNCHANGED vars
    BY <1>9 DEF vars, TypeOK
  <1> QED
    BY <1>1, <1>2, <1>3, <1>4, <1>5, <1>6, <1>7, <1>8, <1>9
    DEF Next, Operator, Caller, redispatch

\* The stored snapshot has the shape _validate insists on in every reachable state.
THEOREM TypeCorrect == Spec => []TypeOK
  <1> QED
    BY InitType, StepType, PTL DEF Spec
-----------------------------------------------------------------------------
(* What a step does to the reservations and the circuits *)

\* The fields of the snapshot that the operator methods leave alone.
LEMMA OperatorFields ==
  ASSUME TypeOK, Operator
  PROVE  /\ gov'.reservations = gov.reservations
         /\ UNCHANGED permits
         /\ \/ gov'.epoch = gov.epoch /\ gov'.circuits = gov.circuits /\ UNCHANGED <<fenced, trial>>
            \/ /\ gov'.epoch = gov.epoch + 1
               /\ fenced' = fenced \cup InState(gov, {"RESERVED"})
               /\ \/ gov'.circuits = gov.circuits /\ UNCHANGED trial
                  \/ \E n \in Time :
                       /\ gov'.circuits = [p \in Providers |-> Reopened(gov.circuits[p], n)]
                       /\ trial' = NextTrial(gov', {})
  <1>0. SnapshotOK(gov) /\ gov \in SnapshotType /\ gov.epoch \in Nat
    BY DEF TypeOK, SnapshotOK, SnapshotType
  <1>1. ASSUME NEW n1 \in Time, NEW n2 \in Time, start_epoch(n1, n2)
        PROVE  /\ gov'.reservations = gov.reservations
               /\ gov'.epoch = gov.epoch + 1
               /\ gov'.circuits = [p \in Providers |-> Reopened(gov.circuits[p], n1)]
               /\ trial' = NextTrial(gov', {})
    <2> DEFINE h == StartEpoch(gov, n1)
    <2>1. h \in SnapshotType
      BY <1>0, StartEpochKeepsOK DEF SnapshotOK
    <2>2. /\ gov'.reservations = h.reservations
          /\ gov'.epoch = h.epoch
          /\ gov'.circuits = h.circuits
      BY <1>1, <2>1, WrittenFields DEF start_epoch, Write
    <2>3. trial' = NextTrial(gov', {})
      BY <1>1, <2>2 DEF start_epoch, NextTrial
    <2> QED
      BY <1>0, <2>2, <2>3, StartEpochFields
  <1>2. ASSUME NEW on \in BOOLEAN, NEW n \in Time, set_kill(on, n)
        PROVE  /\ gov'.reservations = gov.reservations
               /\ gov'.epoch = gov.epoch /\ gov'.circuits = gov.circuits
    <2> DEFINE h == [gov EXCEPT !.kill = on]
    <2>1. /\ h \in SnapshotType /\ h.reservations = gov.reservations
          /\ h.epoch = gov.epoch /\ h.circuits = gov.circuits
      BY <1>0 DEF SnapshotType
    <2> HIDE DEF h
    <2>2. gov' = Written(gov, h, Max({n, gov.last_now}))
      BY <1>2 DEF set_kill, Write, h
    <2> QED
      BY <2>1, <2>2, WrittenFields
  <1>3. ASSUME NEW rid \in ReviewIds, NEW limits \in ReviewLimits, NEW n \in Time,
               NEW v, NEW e, apply_money_policy(rid, limits, v, e, n)
        PROVE  /\ gov'.reservations = gov.reservations
               /\ gov'.epoch = gov.epoch + 1 /\ gov'.circuits = gov.circuits
    <2> DEFINE h == [gov EXCEPT !.epoch = gov.epoch + 1, !.ceiling = limits]
    <2>0. limits \in Ceilings /\ gov.epoch + 1 \in Nat
      BY <1>0, ReviewAssumption
    <2>1. /\ h \in SnapshotType /\ h.reservations = gov.reservations
          /\ h.epoch = gov.epoch + 1 /\ h.circuits = gov.circuits
      BY <1>0, <2>0 DEF SnapshotType
    <2> HIDE DEF h
    <2>2. gov' = Written(gov, h, n)
      BY <1>3 DEF apply_money_policy, Write, h
    <2> QED
      BY <2>1, <2>2, WrittenFields
  <1>4. CASE \E n1, n2 \in Time : start_epoch(n1, n2)
    BY <1>1, <1>4 DEF start_epoch
  <1>5. CASE \E on \in BOOLEAN, n \in Time : set_kill(on, n)
    BY <1>2, <1>5 DEF set_kill
  <1>6. CASE \E rid \in ReviewIds, limits \in ReviewLimits, n \in Time :
               \E v \in 0 .. gov.version, e \in 0 .. gov.epoch :
                 apply_money_policy(rid, limits, v, e, n)
    <2>1. PICK rid \in ReviewIds, limits \in ReviewLimits, n \in Time :
            \E v \in 0 .. gov.version, e \in 0 .. gov.epoch :
              apply_money_policy(rid, limits, v, e, n)
      BY <1>6
    <2>2. PICK v \in 0 .. gov.version, e \in 0 .. gov.epoch :
            apply_money_policy(rid, limits, v, e, n)
      BY <2>1
    <2> QED
      BY <1>3, <2>2 DEF apply_money_policy
  <1> QED
    BY <1>4, <1>5, <1>6 DEF Operator

\* reserve adds an entry for a request id that had none.
LEMMA ReserveStep ==
  ASSUME TypeOK, NEW e \in 0 .. gov.epoch, NEW q \in Requests,
         NEW n1 \in Time, NEW n2 \in Time, reserve(q, e, n1, n2)
  PROVE  /\ q.id \in Ids /\ q.provider \in Providers
         /\ ~Has(gov, q.id)
         /\ Admits(gov.circuits[q.provider], n1)
         /\ gov'.reservations = [gov.reservations EXCEPT ![q.id] =
              [request |-> q, epoch |-> e, state |-> "RESERVED", evidence |-> None]]
         /\ gov'.circuits = [gov.circuits EXCEPT ![q.provider] =
                               Admitted(gov.circuits[q.provider], q.id)]
         /\ gov'.epoch = gov.epoch
         /\ trial' = NextTrial(gov', {})
  <1>0. SnapshotOK(gov) /\ e \in Nat
    BY DEF TypeOK, SnapshotOK, SnapshotType
  <1>1. Reserve(gov, q, e) \in SnapshotType
    BY <1>0, ReserveKeepsOK DEF SnapshotOK, reserve
  <1>2. /\ gov'.reservations = Reserve(gov, q, e).reservations
        /\ gov'.circuits = Reserve(gov, q, e).circuits
        /\ gov'.epoch = Reserve(gov, q, e).epoch
    BY <1>1, WrittenFields DEF reserve, Write
  <1>3. trial' = NextTrial(gov', {})
    <2>1. trial' = NextTrial(Reserve(gov, q, e), {})
      BY Zenon DEF reserve
    <2> QED
      BY <1>2, <2>1 DEF NextTrial
  <1> QED
    BY <1>0, <1>2, <1>3, ReserveFields, RequestParts DEF reserve, ReserveOK

\* The provider of a reservation.
ProviderOf(id) == gov.reservations[id].request.provider

\* The effect of dispatch_commit on one RESERVED entry of the current epoch.
DispatchEffect(id) ==
  /\ Has(gov, id) /\ gov.reservations[id].state = "RESERVED"
  /\ gov.reservations[id].epoch = gov.epoch
  /\ \/ gov.circuits[ProviderOf(id)].state = "CLOSED"
     \/ gov.circuits[ProviderOf(id)].state = "HALF_OPEN" /\ gov.circuits[ProviderOf(id)].probe = id
  /\ gov'.reservations = [gov.reservations EXCEPT ![id].state = "DISPATCHED"]
  /\ gov'.circuits = gov.circuits
  /\ gov'.epoch = gov.epoch
  /\ trial' = NextTrial(gov', {id})

\* The effect of mark_unknown on one DISPATCHED entry: an outcome and a failure.
MarkUnknownEffect(id, ev, n) ==
  /\ Has(gov, id) /\ gov.reservations[id].state = "DISPATCHED"
  /\ ProviderOf(id) \in Providers
  /\ gov'.reservations = [gov.reservations EXCEPT ![id] =
                            Resolved(gov.reservations[id], "UNKNOWN", ev)]
  /\ gov'.circuits = [gov.circuits EXCEPT ![ProviderOf(id)] =
                        Failed(gov.circuits[ProviderOf(id)], n)]
  /\ gov'.epoch = gov.epoch
  /\ trial' = NextTrial(gov', {})

\* The effect of settle on one DISPATCHED or UNKNOWN entry.
SettleEffect(id, ev) ==
  /\ Has(gov, id) /\ gov.reservations[id].state \in {"DISPATCHED", "UNKNOWN"}
  /\ ProviderOf(id) \in Providers
  /\ gov'.reservations = [gov.reservations EXCEPT ![id] =
                            Resolved(gov.reservations[id], "COMMITTED", ev)]
  /\ gov'.circuits = [gov.circuits EXCEPT ![ProviderOf(id)] =
       Succeeded(gov.circuits[ProviderOf(id)], id, gov.reservations[id].state = "DISPATCHED")]
  /\ gov'.epoch = gov.epoch
  /\ trial' = NextTrial(gov', {})

\* dispatch_commit marks one RESERVED entry of the current epoch.
LEMMA DispatchStep ==
  ASSUME TypeOK, NEW e \in 0 .. gov.epoch, NEW id \in Ids, NEW n1 \in Time, NEW n2 \in Time,
         NEW acked \in BOOLEAN, dispatch_commit(id, e, n1, n2, acked)
  PROVE  DispatchEffect(id)
  <1>0. SnapshotOK(gov) /\ Has(gov, id)
    BY DEF TypeOK, dispatch_commit, DispatchOK
  <1>1. Dispatch(gov, id) \in SnapshotType
    BY <1>0, DispatchKeepsOK DEF SnapshotOK
  <1>2. /\ gov'.reservations = Dispatch(gov, id).reservations
        /\ gov'.circuits = Dispatch(gov, id).circuits
        /\ gov'.epoch = Dispatch(gov, id).epoch
    BY <1>1, WrittenFields DEF dispatch_commit, Write
  <1>3. trial' = NextTrial(gov', {id})
    BY <1>2 DEF dispatch_commit, NextTrial
  <1> QED
    BY <1>0, <1>2, <1>3, DispatchFields
    DEF dispatch_commit, DispatchOK, Entry, EpochOK, DispatchEffect, ProviderOf

\* release_not_dispatched releases one RESERVED entry.
LEMMA ReleaseStep ==
  ASSUME TypeOK, NEW e \in 0 .. gov.epoch, NEW id \in Ids, NEW n \in Time,
         release_not_dispatched(id, e, n)
  PROVE  /\ Has(gov, id) /\ gov.reservations[id].state = "RESERVED"
         /\ ProviderOf(id) \in Providers
         /\ gov'.reservations = [gov.reservations EXCEPT ![id] = AsReleased(gov.reservations[id])]
         /\ gov'.circuits = [gov.circuits EXCEPT ![ProviderOf(id)] =
                               Freed(gov.circuits[ProviderOf(id)], id)]
         /\ gov'.epoch = gov.epoch
  <1> DEFINE h == Release(gov, id)
  <1>0. SnapshotOK(gov) /\ Has(gov, id) /\ gov.reservations[id].state = "RESERVED"
    BY DEF TypeOK, release_not_dispatched, ReleaseOK, Entry
  <1>1. h \in SnapshotType
    BY <1>0, ReleaseKeepsOK DEF SnapshotOK
  <1>2. /\ gov'.reservations = h.reservations /\ gov'.circuits = h.circuits
        /\ gov'.epoch = h.epoch
    <2>1. gov' = Written(gov, h, n)
      BY DEF release_not_dispatched, Write
    <2> HIDE DEF h
    <2> QED
      BY <1>1, <2>1, WrittenFields
  <1>4. id \in Reserved(gov)
    BY <1>0 DEF Reserved
  <1>5. ProviderOf(id) \in Providers
    BY <1>0, <1>4, ReservedParts DEF ProviderOf
  <1>6. /\ h.reservations = [gov.reservations EXCEPT ![id] = AsReleased(gov.reservations[id])]
        /\ h.circuits = [gov.circuits EXCEPT ![ProviderOf(id)] =
                           Freed(gov.circuits[ProviderOf(id)], id)]
        /\ h.epoch = gov.epoch
    BY <1>0, ReleaseFields DEF ProviderOf
  <1> QED
    BY <1>0, <1>2, <1>5, <1>6

\* mark_unknown resolves one DISPATCHED entry and counts a failure.
LEMMA MarkUnknownStep ==
  ASSUME TypeOK, NEW e \in 0 .. gov.epoch, NEW id \in Ids, NEW ev \in Evidence,
         NEW n1 \in Time, NEW n2 \in Time, mark_unknown(id, e, ev, n1, n2)
  PROVE  MarkUnknownEffect(id, ev, n1)
  <1> DEFINE h == MarkUnknown(gov, id, ev, n1)
  <1>0. SnapshotOK(gov) /\ Has(gov, id) /\ gov.reservations[id].state = "DISPATCHED"
    BY DEF TypeOK, mark_unknown, UnknownOK, Entry
  <1>1. h \in SnapshotType
    BY <1>0, MarkUnknownKeepsOK DEF SnapshotOK
  <1>2. /\ gov'.reservations = h.reservations /\ gov'.circuits = h.circuits
        /\ gov'.epoch = h.epoch
    BY <1>1, WrittenFields DEF mark_unknown, Write
  <1>3. trial' = NextTrial(gov', {})
    BY <1>2 DEF mark_unknown, NextTrial
  <1>4. id \in Reserved(gov)
    BY <1>0 DEF Reserved
  <1>5. ProviderOf(id) \in Providers
    BY <1>0, <1>4, ReservedParts DEF ProviderOf
  <1>6. /\ h.reservations = [gov.reservations EXCEPT ![id] =
              Resolved(gov.reservations[id], "UNKNOWN", ev)]
        /\ h.circuits = [gov.circuits EXCEPT ![ProviderOf(id)] = Failed(gov.circuits[ProviderOf(id)], n1)]
        /\ h.epoch = gov.epoch
    BY <1>0, MarkUnknownFields DEF ProviderOf
  <1> QED
    BY <1>0, <1>2, <1>3, <1>5, <1>6 DEF MarkUnknownEffect

\* settle resolves one DISPATCHED or UNKNOWN entry.
LEMMA SettleStep ==
  ASSUME TypeOK, NEW e \in 0 .. gov.epoch, NEW id \in Ids, NEW ev \in Evidence,
         NEW n \in Time, settle(id, e, ev, n)
  PROVE  SettleEffect(id, ev)
  <1> DEFINE h == Settle(gov, id, ev)
  <1>0. SnapshotOK(gov) /\ Has(gov, id) /\ gov.reservations[id].state \in {"DISPATCHED", "UNKNOWN"}
    BY DEF TypeOK, settle, SettleOK, Entry
  <1>1. h \in SnapshotType
    BY <1>0, SettleKeepsOK DEF SnapshotOK
  <1>2. /\ gov'.reservations = h.reservations /\ gov'.circuits = h.circuits
        /\ gov'.epoch = h.epoch
    BY <1>1, WrittenFields DEF settle, Write
  <1>3. trial' = NextTrial(gov', {})
    BY <1>2 DEF settle, NextTrial
  <1>4. id \in Reserved(gov)
    BY <1>0 DEF Reserved
  <1>5. ProviderOf(id) \in Providers
    BY <1>0, <1>4, ReservedParts DEF ProviderOf
  <1>6. /\ h.reservations = [gov.reservations EXCEPT ![id] =
              Resolved(gov.reservations[id], "COMMITTED", ev)]
        /\ h.circuits = [gov.circuits EXCEPT ![ProviderOf(id)] =
              Succeeded(gov.circuits[ProviderOf(id)], id, gov.reservations[id].state = "DISPATCHED")]
        /\ h.epoch = gov.epoch
    BY <1>0, SettleFields DEF ProviderOf
  <1> QED
    BY <1>0, <1>2, <1>3, <1>5, <1>6 DEF SettleEffect
-----------------------------------------------------------------------------
(* One permit per request, never refunded; fencing by epoch *)

\* A fenced reservation that is still RESERVED belongs to an epoch that is over.
FencedIsStale ==
  \A i \in fenced : gov.reservations[i].state = "RESERVED" => gov.reservations[i].epoch < gov.epoch

PermitInv == TypeOK /\ PermitOnceNeverRefunded /\ EpochFencing /\ FencedIsStale

\* No method breaks PermitInv.
LEMMA StepPermit == PermitInv /\ [Next]_vars => PermitInv'
  <1> SUFFICES ASSUME PermitInv, [Next]_vars
               PROVE  PermitInv'
    OBVIOUS
  <1> USE DEF PermitInv
  <1>0. TypeOK' /\ TypeOK
    BY StepType
  <1>t. /\ gov.reservations \in [Ids -> EntryType] /\ gov.epoch \in Nat
        /\ permits \in [Ids -> Nat] /\ fenced \subseteq Ids
        /\ \A i \in Ids : Has(gov, i) => gov.reservations[i].epoch \in 1 .. gov.epoch
    BY DEF TypeOK, SnapshotOK, SnapshotType, Reserved
  <1>1. CASE Operator
    <2>1. /\ gov'.reservations = gov.reservations /\ permits' = permits
          /\ \/ gov'.epoch = gov.epoch /\ fenced' = fenced
             \/ gov'.epoch = gov.epoch + 1 /\ fenced' = fenced \cup InState(gov, {"RESERVED"})
      BY <1>0, <1>1, OperatorFields
    <2>2. PermitOnceNeverRefunded'
      BY <2>1 DEF PermitOnceNeverRefunded, InState
    <2>3. EpochFencing'
      BY <2>1 DEF EpochFencing, InState
    <2>4. FencedIsStale'
      BY <1>t, <2>1 DEF FencedIsStale, InState, Has, EntryType
    <2> QED
      BY <1>0, <2>2, <2>3, <2>4
  <1>2. ASSUME NEW e \in 0 .. gov.epoch, NEW q \in Requests, NEW n1 \in Time, NEW n2 \in Time,
               reserve(q, e, n1, n2)
        PROVE  PermitInv'
    <2>1. /\ q.id \in Ids /\ ~Has(gov, q.id)
          /\ gov'.reservations = [gov.reservations EXCEPT ![q.id] =
               [request |-> q, epoch |-> e, state |-> "RESERVED", evidence |-> None]]
          /\ gov'.epoch = gov.epoch
      BY <1>0, <1>2, ReserveStep
    <2>2. permits' = permits /\ fenced' = fenced
      BY <1>2 DEF reserve
    <2>3. q.id \notin fenced /\ permits[q.id] = 0
      BY <1>t, <2>1 DEF EpochFencing, PermitOnceNeverRefunded, InState, Has, SpentState
    <2>4. PermitOnceNeverRefunded' /\ EpochFencing' /\ FencedIsStale'
      BY <1>t, <2>1, <2>2, <2>3
      DEF PermitOnceNeverRefunded, EpochFencing, FencedIsStale, InState
    <2> QED
      BY <1>0, <2>4
  <1>3. ASSUME NEW e \in 0 .. gov.epoch, NEW id \in Ids, NEW n1 \in Time, NEW n2 \in Time,
               NEW acked \in BOOLEAN, dispatch_commit(id, e, n1, n2, acked)
        PROVE  PermitInv'
    <2>0. DispatchEffect(id)
      BY <1>0, <1>3, DispatchStep
    <2>1. /\ gov.reservations[id].state = "RESERVED" /\ gov.reservations[id].epoch = gov.epoch
          /\ gov'.reservations = [gov.reservations EXCEPT ![id].state = "DISPATCHED"]
          /\ gov'.epoch = gov.epoch
      BY <2>0 DEF DispatchEffect
    <2>2. permits' = [permits EXCEPT ![id] = @ + (IF acked THEN 1 ELSE 0)] /\ fenced' = fenced
      BY <1>3 DEF dispatch_commit
    <2>3. id \notin fenced
      BY <1>t, <2>1 DEF FencedIsStale
    <2>4. permits[id] = 0
      BY <1>t, <2>1 DEF PermitOnceNeverRefunded, InState, SpentState
    <2>5. PermitOnceNeverRefunded'
      BY <1>t, <2>1, <2>2, <2>4 DEF PermitOnceNeverRefunded, InState, SpentState, EntryType
    <2>6. EpochFencing' /\ FencedIsStale'
      BY <1>t, <2>1, <2>2, <2>3 DEF EpochFencing, FencedIsStale, InState
    <2> QED
      BY <1>0, <2>5, <2>6
  <1>4. ASSUME NEW e \in 0 .. gov.epoch, NEW id \in Ids, NEW n \in Time,
               release_not_dispatched(id, e, n)
        PROVE  PermitInv'
    <2>1. /\ gov.reservations[id].state = "RESERVED"
          /\ gov'.reservations = [gov.reservations EXCEPT ![id] = AsReleased(gov.reservations[id])]
          /\ gov'.epoch = gov.epoch
      BY <1>0, <1>4, ReleaseStep
    <2>2. permits' = permits /\ fenced' = fenced
      BY <1>4 DEF release_not_dispatched
    <2>3. permits[id] = 0
      BY <1>t, <2>1 DEF PermitOnceNeverRefunded, InState, SpentState
    <2>4. PermitOnceNeverRefunded' /\ EpochFencing' /\ FencedIsStale'
      BY <1>t, <2>1, <2>2, <2>3
      DEF PermitOnceNeverRefunded, EpochFencing, FencedIsStale, InState, EntryType, AsReleased
    <2> QED
      BY <1>0, <2>4
  <1>5. ASSUME NEW id \in Ids, NEW st \in {"UNKNOWN", "COMMITTED"}, NEW ev \in Evidence,
               gov.reservations[id].state \in {"DISPATCHED", "UNKNOWN"},
               gov'.reservations = [gov.reservations EXCEPT ![id] =
                                      Resolved(gov.reservations[id], st, ev)],
               gov'.epoch = gov.epoch, permits' = permits, fenced' = fenced
        PROVE  PermitInv'
    <2>0. st \in ReservationState /\ gov.reservations[id] \in EntryType
      BY <1>t DEF ReservationState
    <2>1. Resolved(gov.reservations[id], st, ev).state = st
      BY <2>0, ResolvedType
    <2>2. id \notin fenced
      BY <1>5 DEF EpochFencing, InState
    <2>3. PermitOnceNeverRefunded' /\ EpochFencing' /\ FencedIsStale'
      BY <1>t, <1>5, <2>1, <2>2
      DEF PermitOnceNeverRefunded, EpochFencing, FencedIsStale, InState, SpentState
    <2> QED
      BY <1>0, <2>3
  <1>6. ASSUME NEW e \in 0 .. gov.epoch, NEW id \in Ids, NEW ev \in Evidence,
               NEW n1 \in Time, NEW n2 \in Time, mark_unknown(id, e, ev, n1, n2)
        PROVE  PermitInv'
    <2>0. MarkUnknownEffect(id, ev, n1)
      BY <1>0, <1>6, MarkUnknownStep
    <2>1. /\ gov.reservations[id].state = "DISPATCHED"
          /\ gov'.reservations = [gov.reservations EXCEPT ![id] =
                                    Resolved(gov.reservations[id], "UNKNOWN", ev)]
          /\ gov'.epoch = gov.epoch
      BY <2>0 DEF MarkUnknownEffect
    <2> QED
      BY <1>5, <1>6, <2>1 DEF mark_unknown
  <1>7. ASSUME NEW e \in 0 .. gov.epoch, NEW id \in Ids, NEW ev \in Evidence,
               NEW n \in Time, settle(id, e, ev, n)
        PROVE  PermitInv'
    <2>0. SettleEffect(id, ev)
      BY <1>0, <1>7, SettleStep
    <2>1. /\ gov.reservations[id].state \in {"DISPATCHED", "UNKNOWN"}
          /\ gov'.reservations = [gov.reservations EXCEPT ![id] =
                                    Resolved(gov.reservations[id], "COMMITTED", ev)]
          /\ gov'.epoch = gov.epoch
      BY <2>0 DEF SettleEffect
    <2> QED
      BY <1>5, <1>7, <2>1 DEF settle
  <1>8. CASE UNCHANGED vars
    BY <1>0, <1>8 DEF vars, PermitOnceNeverRefunded, EpochFencing, FencedIsStale, InState
  <1> QED
    BY <1>1, <1>2, <1>3, <1>4, <1>6, <1>7, <1>8 DEF Next, Caller, redispatch

\* PermitInv holds at the start.
LEMMA InitPermit == Init => PermitInv
  <1> SUFFICES ASSUME Init PROVE PermitInv
    OBVIOUS
  <1>1. TypeOK
    BY InitType
  <1>2. permits = [i \in Ids |-> 0] /\ fenced = {}
    BY DEF Init
  <1> QED
    BY <1>1, <1>2 DEF PermitInv, PermitOnceNeverRefunded, EpochFencing, FencedIsStale

\* Whatever is lost, retried, taken over or killed, at most one caller is told dispatch_now
\* for a request, and that request's budget is never released.
THEOREM PermitSafety == Spec => []PermitOnceNeverRefunded
  <1>1. PermitInv => PermitOnceNeverRefunded
    BY DEF PermitInv
  <1> QED
    BY <1>1, InitPermit, StepPermit, PTL DEF Spec

\* No reservation made before an epoch takeover is dispatched after it.
THEOREM FencingSafety == Spec => []EpochFencing
  <1>1. PermitInv => EpochFencing
    BY DEF PermitInv
  <1> QED
    BY <1>1, InitPermit, StepPermit, PTL DEF Spec
-----------------------------------------------------------------------------
(* The circuit breaker *)

\* What the two circuit invariants say of one provider, for given reservations, circuit
\* and window of requests sent.
ProviderOK(p, rs, c, sent) ==
  /\ c.probe # None =>
       /\ c.state = "HALF_OPEN"
       /\ rs[c.probe].state \in {"RESERVED", "DISPATCHED"}
       /\ rs[c.probe].request.provider = p
  /\ c.state = "CLOSED" => c.failures < Threshold
  /\ c.state = "HALF_OPEN" =>
       /\ c.successes < Recovery
       /\ \A i \in sent : rs[i].state = "DISPATCHED" => i = c.probe
  /\ \A i \in sent : rs[i].state \in SpentState

CircuitInv ==
  TypeOK /\ \A p \in Providers : ProviderOK(p, gov.reservations, gov.circuits[p], trial[p])

\* CircuitInv is the conjunction of the two invariants and TypeOK.
LEMMA CircuitInvMeaning == CircuitInv => CircuitIntegrity /\ HalfOpenSingleFlight
  <1> SUFFICES ASSUME CircuitInv PROVE CircuitIntegrity /\ HalfOpenSingleFlight
    OBVIOUS
  <1>1. /\ gov.circuits \in [Providers -> CircuitType]
        /\ trial \in [Providers -> SUBSET Ids]
    BY DEF CircuitInv, TypeOK, SnapshotOK, SnapshotType
  <1>2. CircuitIntegrity
    BY <1>1 DEF CircuitInv, ProviderOK, CircuitIntegrity, InState, CircuitType
  <1>3. HalfOpenSingleFlight
    BY <1>1 DEF CircuitInv, ProviderOK, HalfOpenSingleFlight, InState
  <1> QED
    BY <1>2, <1>3

\* The window of a provider after a step in which nothing was sent.
LEMMA QuietTrial ==
  ASSUME TypeOK, TypeOK', trial' = NextTrial(gov', {}), NEW p \in Providers
  PROVE  trial'[p] = IF gov.circuits[p].state # gov'.circuits[p].state THEN {} ELSE trial[p]
  BY DEF NextTrial, TypeOK

\* The invariants hold at the start.
LEMMA InitCircuit == Init => CircuitInv
  <1> SUFFICES ASSUME Init PROVE CircuitInv
    OBVIOUS
  <1>1. TypeOK
    BY InitType
  <1>2. \A p \in Providers : gov.circuits[p] = FreshCircuit
    BY DEF Init, Initial
  <1>3. \A p \in Providers : ProviderOK(p, gov.reservations, gov.circuits[p], trial[p])
    <2>1. \A p \in Providers : trial[p] = {}
      BY DEF Init
    <2> QED
      BY <1>2, <2>1, PolicyAssumption DEF ProviderOK, FreshCircuit
  <1> QED
    BY <1>1, <1>3 DEF CircuitInv

\* No method breaks the circuit invariants.
LEMMA StepCircuit == CircuitInv /\ [Next]_vars => CircuitInv'
  <1> SUFFICES ASSUME CircuitInv, [Next]_vars
               PROVE  CircuitInv'
    OBVIOUS
  <1>0. TypeOK /\ TypeOK'
    BY StepType DEF CircuitInv
  <1>t. /\ gov.reservations \in [Ids -> EntryType] /\ gov'.reservations \in [Ids -> EntryType]
        /\ gov.circuits \in [Providers -> CircuitType] /\ gov'.circuits \in [Providers -> CircuitType]
        /\ trial \in [Providers -> SUBSET Ids]
    BY <1>0 DEF TypeOK, SnapshotOK, SnapshotType
  <1>i. ASSUME NEW p \in Providers
        PROVE  /\ ProviderOK(p, gov.reservations, gov.circuits[p], trial[p])
               /\ gov.circuits[p] \in CircuitType /\ trial[p] \subseteq Ids
    BY <1>t DEF CircuitInv
  <1>1. CASE Operator
    <2>1. gov'.reservations = gov.reservations
      BY <1>0, <1>1, OperatorFields
    <2>2. CASE gov'.circuits = gov.circuits /\ trial' = trial
      BY <1>0, <2>1, <2>2 DEF CircuitInv
    <2>3. ASSUME NEW n \in Time,
                 gov'.circuits = [p \in Providers |-> Reopened(gov.circuits[p], n)],
                 trial' = NextTrial(gov', {})
          PROVE  CircuitInv'
      <3>1. ASSUME NEW p \in Providers
            PROVE  ProviderOK(p, gov'.reservations, gov'.circuits[p], trial'[p])
        <4>1. gov'.circuits[p] = Reopened(gov.circuits[p], n)
          BY <2>3
        <4>0. trial'[p] = IF gov.circuits[p].state # gov'.circuits[p].state THEN {} ELSE trial[p]
          BY <1>0, <2>3, QuietTrial
        <4>2. CASE gov.circuits[p].state = "HALF_OPEN"
          <5>1. gov'.circuits[p].state = "OPEN" /\ gov'.circuits[p].probe = None
            BY <1>i, <4>1, <4>2 DEF Reopened, CircuitType
          <5> QED
            BY <4>0, <4>2, <5>1 DEF ProviderOK
        <4>3. CASE gov.circuits[p].state # "HALF_OPEN"
          <5>1. gov'.circuits[p] = gov.circuits[p]
            BY <4>1, <4>3 DEF Reopened
          <5> QED
            BY <1>i, <2>1, <4>0, <4>3, <5>1 DEF ProviderOK
        <4> QED
          BY <4>2, <4>3
      <3> QED
        BY <1>0, <3>1 DEF CircuitInv
    <2> QED
      BY <1>0, <1>1, <2>2, <2>3, OperatorFields
  <1>2. ASSUME NEW e \in 0 .. gov.epoch, NEW q \in Requests, NEW n1 \in Time, NEW n2 \in Time,
               reserve(q, e, n1, n2)
        PROVE  CircuitInv'
    <2> DEFINE en == [request |-> q, epoch |-> e, state |-> "RESERVED", evidence |-> None]
    <2>1. /\ q.id \in Ids /\ q.provider \in Providers /\ ~Has(gov, q.id)
          /\ Admits(gov.circuits[q.provider], n1)
          /\ gov'.reservations = [gov.reservations EXCEPT ![q.id] = en]
          /\ gov'.circuits = [gov.circuits EXCEPT ![q.provider] =
                                Admitted(gov.circuits[q.provider], q.id)]
          /\ trial' = NextTrial(gov', {})
      BY <1>0, <1>2, ReserveStep
    <2>2. /\ \A i \in Ids : i # q.id => gov'.reservations[i] = gov.reservations[i]
          /\ gov'.reservations[q.id].state = "RESERVED"
          /\ gov'.reservations[q.id].request = q
          /\ gov.reservations[q.id].state = "ABSENT"
      BY <1>t, <2>1 DEF Has
    <2>3. ASSUME NEW p \in Providers
          PROVE  ProviderOK(p, gov'.reservations, gov'.circuits[p], trial'[p])
      <3>1. trial'[p] = IF gov.circuits[p].state # gov'.circuits[p].state THEN {} ELSE trial[p]
        BY <1>0, <2>1, QuietTrial
      <3>0. q.id \notin trial[p] /\ gov.circuits[p].probe # q.id
        BY <1>i, <2>1, <2>2, RequestsAssumption DEF ProviderOK, SpentState
      <3>2. CASE gov'.circuits[p] = gov.circuits[p]
        BY <1>i, <2>2, <3>0, <3>1, <3>2 DEF ProviderOK, CircuitType
      <3>3. CASE p = q.provider /\ gov.circuits[p].state # "CLOSED"
        <4>1. /\ gov'.circuits[p].state = "HALF_OPEN" /\ gov'.circuits[p].probe = q.id
              /\ gov'.circuits[p].successes =
                   IF gov.circuits[p].state = "OPEN" THEN 0 ELSE gov.circuits[p].successes
          BY <1>i, <1>t, <2>1, <3>3 DEF Admitted, CircuitType
        <4>2. CASE gov.circuits[p].state = "OPEN"
          BY <2>2, <3>1, <3>3, <4>1, <4>2, PolicyAssumption DEF ProviderOK
        <4>3. CASE gov.circuits[p].state = "HALF_OPEN"
          <5>1. gov.circuits[p].probe = None
            BY <2>1, <3>3, <4>3 DEF Admits
          <5>2. \A i \in trial[p] : gov.reservations[i].state # "DISPATCHED"
            BY <1>i, <4>3, <5>1, RequestsAssumption DEF ProviderOK
          <5> QED
            BY <1>i, <2>2, <3>0, <3>1, <3>3, <4>1, <4>3, <5>2 DEF ProviderOK
        <4> QED
          BY <1>i, <3>3, <4>2, <4>3 DEF CircuitType
      <3>4. p # q.provider \/ gov.circuits[p].state = "CLOSED" => gov'.circuits[p] = gov.circuits[p]
        BY <1>t, <2>1 DEF Admitted
      <3> QED
        BY <3>2, <3>3, <3>4
    <2> QED
      BY <1>0, <2>3 DEF CircuitInv
  <1>3. ASSUME NEW e \in 0 .. gov.epoch, NEW id \in Ids, NEW n1 \in Time, NEW n2 \in Time,
               NEW acked \in BOOLEAN, dispatch_commit(id, e, n1, n2, acked)
        PROVE  CircuitInv'
    <2>0. DispatchEffect(id)
      BY <1>0, <1>3, DispatchStep
    <2>1. /\ \A i \in Ids : i # id => gov'.reservations[i] = gov.reservations[i]
          /\ gov'.reservations[id].state = "DISPATCHED"
          /\ gov'.reservations[id].request = gov.reservations[id].request
          /\ gov'.circuits = gov.circuits
      BY <1>t, <2>0 DEF DispatchEffect, EntryType
    <2>2. ASSUME NEW p \in Providers
          PROVE  ProviderOK(p, gov'.reservations, gov'.circuits[p], trial'[p])
      <3>1. trial'[p] = trial[p] \cup {i \in {id} : gov.reservations[i].request.provider = p}
        BY <1>0, <2>0, <2>1 DEF DispatchEffect, NextTrial
      <3>2. id \notin trial[p]
        BY <1>i, <2>0 DEF ProviderOK, DispatchEffect, SpentState
      <3>3. gov.circuits[p].state = "HALF_OPEN" /\ id \in trial'[p] => id = gov.circuits[p].probe
        BY <2>0, <3>1, <3>2 DEF DispatchEffect, ProviderOf
      <3> QED
        BY <1>i, <2>1, <3>1, <3>3 DEF ProviderOK, CircuitType, SpentState
    <2> QED
      BY <1>0, <2>2 DEF CircuitInv
  <1>4. ASSUME NEW e \in 0 .. gov.epoch, NEW id \in Ids, NEW n \in Time,
               release_not_dispatched(id, e, n)
        PROVE  CircuitInv'
    <2>1. /\ gov.reservations[id].state = "RESERVED" /\ ProviderOf(id) \in Providers
          /\ gov'.reservations = [gov.reservations EXCEPT ![id] = AsReleased(gov.reservations[id])]
          /\ gov'.circuits = [gov.circuits EXCEPT ![ProviderOf(id)] =
                                Freed(gov.circuits[ProviderOf(id)], id)]
      BY <1>0, <1>4, ReleaseStep
    <2>2. trial' = trial
      BY <1>4 DEF release_not_dispatched
    <2>3. \A i \in Ids : i # id => gov'.reservations[i] = gov.reservations[i]
      BY <1>t, <2>1
    <2>4. ASSUME NEW p \in Providers
          PROVE  ProviderOK(p, gov'.reservations, gov'.circuits[p], trial'[p])
      <3>1. id \notin trial[p]
        BY <1>i, <2>1 DEF ProviderOK, SpentState
      <3>2. CASE gov.circuits[p].probe = id
        <4>1. p = ProviderOf(id)
          BY <1>i, <3>2, RequestsAssumption DEF ProviderOK, ProviderOf
        <4>2. gov'.circuits[p] = [gov.circuits[p] EXCEPT !.probe = None]
          BY <1>t, <2>1, <3>2, <4>1 DEF Freed
        <4>3. /\ gov'.circuits[p].probe = None /\ gov'.circuits[p].state = gov.circuits[p].state
              /\ gov'.circuits[p].failures = gov.circuits[p].failures
              /\ gov'.circuits[p].successes = gov.circuits[p].successes
          BY <1>i, <4>2 DEF CircuitType
        <4> QED
          BY <1>i, <2>2, <2>3, <3>1, <3>2, <4>3 DEF ProviderOK
      <3>3. CASE gov.circuits[p].probe # id
        <4>1. gov'.circuits[p] = gov.circuits[p]
          BY <1>t, <1>i, <2>1, <3>3 DEF CircuitType, Freed
        <4> QED
          BY <1>i, <2>2, <2>3, <3>1, <3>3, <4>1 DEF ProviderOK, CircuitType
      <3> QED
        BY <3>2, <3>3
    <2> QED
      BY <1>0, <2>4 DEF CircuitInv
  <1>5. ASSUME NEW e \in 0 .. gov.epoch, NEW id \in Ids, NEW ev \in Evidence,
               NEW n1 \in Time, NEW n2 \in Time, mark_unknown(id, e, ev, n1, n2)
        PROVE  CircuitInv'
    <2>0. MarkUnknownEffect(id, ev, n1)
      BY <1>0, <1>5, MarkUnknownStep
    <2>1. /\ \A i \in Ids : i # id => gov'.reservations[i] = gov.reservations[i]
          /\ gov'.reservations[id].state = "UNKNOWN"
          /\ \A p \in Providers : p # ProviderOf(id) => gov'.circuits[p] = gov.circuits[p]
          /\ gov'.circuits[ProviderOf(id)] = Failed(gov.circuits[ProviderOf(id)], n1)
      <3>1. "UNKNOWN" \in ReservationState /\ gov.reservations[id] \in EntryType
        BY <1>t DEF ReservationState
      <3>2. Resolved(gov.reservations[id], "UNKNOWN", ev).state = "UNKNOWN"
        BY <3>1, ResolvedType
      <3> QED
        BY <1>t, <2>0, <3>2 DEF MarkUnknownEffect
    <2>2. ASSUME NEW p \in Providers
          PROVE  ProviderOK(p, gov'.reservations, gov'.circuits[p], trial'[p])
      <3>1. trial'[p] = IF gov.circuits[p].state # gov'.circuits[p].state THEN {} ELSE trial[p]
        BY <1>0, <2>0, QuietTrial DEF MarkUnknownEffect
      <3>2. CASE p # ProviderOf(id)
        <4>1. gov.circuits[p].probe # id
          BY <1>i, <3>2, RequestsAssumption DEF ProviderOK, ProviderOf
        <4> QED
          BY <1>i, <2>1, <3>1, <3>2, <4>1, SMTT(30) DEF ProviderOK, CircuitType, SpentState
      <3>3. CASE p = ProviderOf(id) /\ gov'.circuits[p].state = "OPEN"
        <4>1. gov'.circuits[p].probe = None
          <5>1. CASE gov.circuits[p].state = "HALF_OPEN" \/ gov.circuits[p].failures + 1 >= Threshold
            BY <2>1, <3>3, <5>1 DEF Failed
          <5>2. CASE ~(gov.circuits[p].state = "HALF_OPEN" \/ gov.circuits[p].failures + 1 >= Threshold)
            <6>1. gov'.circuits[p].probe = gov.circuits[p].probe
              BY <1>i, <2>1, <3>3, <5>2 DEF Failed, CircuitType
            <6> QED
              BY <1>i, <5>2, <6>1 DEF ProviderOK
          <5> QED
            BY <5>1, <5>2
        <4> QED
          BY <1>i, <2>1, <3>1, <3>3, <4>1 DEF ProviderOK, SpentState
      <3>4. CASE p = ProviderOf(id) /\ gov'.circuits[p].state # "OPEN"
        <4>1. /\ gov'.circuits[p] = [gov.circuits[p] EXCEPT !.failures = gov.circuits[p].failures + 1,
                                                            !.successes = 0]
              /\ gov.circuits[p].state # "HALF_OPEN" /\ gov.circuits[p].failures + 1 < Threshold
          <5>1. gov.circuits[p].failures + 1 \in Nat
            BY <1>i DEF CircuitType
          <5> QED
            BY <2>1, <3>4, <5>1, PolicyAssumption DEF Failed
        <4>2. /\ gov'.circuits[p].state = gov.circuits[p].state
              /\ gov'.circuits[p].probe = gov.circuits[p].probe
              /\ gov'.circuits[p].failures = gov.circuits[p].failures + 1
          <5>1. gov.circuits[p].failures + 1 \in Nat
            BY <1>i DEF CircuitType
          <5> QED
            BY <1>i, <4>1, <5>1 DEF CircuitType
        <4> QED
          BY <1>i, <2>1, <3>1, <3>4, <4>1, <4>2 DEF ProviderOK, SpentState, CircuitType
      <3> QED
        BY <3>2, <3>3, <3>4
    <2> QED
      BY <1>0, <2>2 DEF CircuitInv
  <1>6. ASSUME NEW e \in 0 .. gov.epoch, NEW id \in Ids, NEW ev \in Evidence,
               NEW n \in Time, settle(id, e, ev, n)
        PROVE  CircuitInv'
    <2>0. SettleEffect(id, ev)
      BY <1>0, <1>6, SettleStep
    <2> DEFINE direct == gov.reservations[id].state = "DISPATCHED"
    <2>1. /\ \A i \in Ids : i # id => gov'.reservations[i] = gov.reservations[i]
          /\ gov'.reservations[id].state = "COMMITTED"
          /\ \A p \in Providers : p # ProviderOf(id) => gov'.circuits[p] = gov.circuits[p]
          /\ gov'.circuits[ProviderOf(id)] = Succeeded(gov.circuits[ProviderOf(id)], id, direct)
      <3>1. "COMMITTED" \in ReservationState /\ gov.reservations[id] \in EntryType
        BY <1>t DEF ReservationState
      <3>2. Resolved(gov.reservations[id], "COMMITTED", ev).state = "COMMITTED"
        BY <3>1, ResolvedType
      <3> QED
        BY <1>t, <2>0, <3>2 DEF SettleEffect
    <2>2. ASSUME NEW p \in Providers
          PROVE  ProviderOK(p, gov'.reservations, gov'.circuits[p], trial'[p])
      <3>1. trial'[p] = IF gov.circuits[p].state # gov'.circuits[p].state THEN {} ELSE trial[p]
        BY <1>0, <2>0, QuietTrial DEF SettleEffect
      <3>2. CASE gov.circuits[p].probe # id
        <4>1. /\ gov'.circuits[p].state = gov.circuits[p].state
              /\ gov'.circuits[p].probe = gov.circuits[p].probe
              /\ gov'.circuits[p].successes = gov.circuits[p].successes
              /\ gov'.circuits[p].failures \in {0, gov.circuits[p].failures}
          BY <1>i, <2>1, <3>2 DEF Succeeded, CircuitType
        <4> QED
          BY <1>i, <2>1, <3>1, <3>2, <4>1, PolicyAssumption DEF ProviderOK, SpentState, CircuitType
      <3>3. CASE gov.circuits[p].probe = id
        <4>1. /\ p = ProviderOf(id) /\ direct /\ gov.circuits[p].state = "HALF_OPEN"
              /\ gov.circuits[p].successes < Recovery
              /\ \A i \in trial[p] : i # id => gov.reservations[i].state # "DISPATCHED"
          BY <1>i, <2>0, <3>3, RequestsAssumption DEF ProviderOK, ProviderOf, SettleEffect
        <4>2. gov'.circuits[p] = ProbeSucceeded(gov.circuits[p])
          BY <2>1, <3>3, <4>1 DEF Succeeded
        <4>3. gov'.circuits[p].probe = None
          BY <1>i, <4>2 DEF ProbeSucceeded, CircuitType
        <4>4. CASE gov.circuits[p].successes + 1 >= Recovery
          <5>1. gov'.circuits[p].state = "CLOSED" /\ gov'.circuits[p].failures = 0
            BY <1>i, <4>2, <4>4 DEF ProbeSucceeded, CircuitType
          <5> QED
            BY <3>1, <4>1, <4>3, <5>1, PolicyAssumption DEF ProviderOK
        <4>5. CASE gov.circuits[p].successes + 1 < Recovery
          <5>0. gov.circuits[p].successes + 1 \in Nat
            BY <1>i DEF CircuitType
          <5>1. /\ gov'.circuits[p].state = "HALF_OPEN"
                /\ gov'.circuits[p].successes = gov.circuits[p].successes + 1
            <6>1. gov'.circuits[p] = [gov.circuits[p] EXCEPT
                                        !.successes = gov.circuits[p].successes + 1, !.probe = None]
              BY <4>2, <4>5, <5>0, PolicyAssumption DEF ProbeSucceeded
            <6> QED
              BY <1>i, <4>1, <5>0, <6>1 DEF CircuitType
          <5> QED
            BY <1>i, <2>1, <3>1, <4>1, <4>3, <4>5, <5>1 DEF ProviderOK, SpentState
        <4> QED
          BY <1>i, <4>4, <4>5, PolicyAssumption, SMTT(30) DEF CircuitType
      <3> QED
        BY <3>2, <3>3
    <2> QED
      BY <1>0, <2>2 DEF CircuitInv
  <1>7. CASE UNCHANGED vars
    BY <1>0, <1>7 DEF vars, CircuitInv
  <1> QED
    BY <1>1, <1>2, <1>3, <1>4, <1>5, <1>6, <1>7 DEF Next, Caller, redispatch

\* The probe slot, the failure threshold and the recovery count are always consistent.
THEOREM CircuitSafety == Spec => []CircuitIntegrity
  BY CircuitInvMeaning, InitCircuit, StepCircuit, PTL DEF Spec

\* A half-open circuit has at most one request of its window in flight, its probe.
THEOREM SingleFlightSafety == Spec => []HalfOpenSingleFlight
  BY CircuitInvMeaning, InitCircuit, StepCircuit, PTL DEF Spec
-----------------------------------------------------------------------------
(* What no step may undo, and what none may do under the kill switch *)

\* The reservations a step may change: one id, and how.
LEMMA OneEntryChanges ==
  ASSUME TypeOK, Next
  PROVE  \/ gov'.reservations = gov.reservations
         \/ \E id \in Ids :
              /\ \A i \in Ids : i # id => gov'.reservations[i] = gov.reservations[i]
              /\ <<gov.reservations[id].state, gov'.reservations[id].state>> \in
                   {<<"ABSENT", "RESERVED">>, <<"RESERVED", "DISPATCHED">>,
                    <<"RESERVED", "RELEASED">>, <<"DISPATCHED", "UNKNOWN">>,
                    <<"DISPATCHED", "COMMITTED">>, <<"UNKNOWN", "COMMITTED">>}
              /\ gov.kill => gov.reservations[id].state \in {"DISPATCHED", "UNKNOWN"}
                             \/ gov'.reservations[id].state = "RELEASED"
  <1> DEFINE Moved(id, from, to) ==
        /\ \A i \in Ids : i # id => gov'.reservations[i] = gov.reservations[i]
        /\ gov.reservations[id].state = from /\ gov'.reservations[id].state = to
  <1>t. gov.reservations \in [Ids -> EntryType]
    BY DEF TypeOK, SnapshotOK, SnapshotType
  <1>1. CASE Operator
    BY <1>1, OperatorFields
  <1>2. ASSUME NEW e \in 0 .. gov.epoch, NEW q \in Requests, NEW n1 \in Time, NEW n2 \in Time,
               reserve(q, e, n1, n2)
        PROVE  q.id \in Ids /\ Moved(q.id, "ABSENT", "RESERVED") /\ ~gov.kill
    <2>1. /\ q.id \in Ids /\ ~Has(gov, q.id)
          /\ gov'.reservations = [gov.reservations EXCEPT ![q.id] =
               [request |-> q, epoch |-> e, state |-> "RESERVED", evidence |-> None]]
      BY <1>2, ReserveStep
    <2>2. ~gov.kill
      BY <1>2 DEF reserve, ReserveOK
    <2> QED
      BY <1>t, <2>1, <2>2 DEF Has
  <1>3. ASSUME NEW e \in 0 .. gov.epoch, NEW id \in Ids, NEW n1 \in Time, NEW n2 \in Time,
               NEW acked \in BOOLEAN, dispatch_commit(id, e, n1, n2, acked)
        PROVE  Moved(id, "RESERVED", "DISPATCHED") /\ ~gov.kill
    <2>1. DispatchEffect(id)
      BY <1>3, DispatchStep
    <2> QED
      BY <1>3, <1>t, <2>1 DEF dispatch_commit, DispatchOK, DispatchEffect, EntryType
  <1>4. ASSUME NEW e \in 0 .. gov.epoch, NEW id \in Ids, NEW n \in Time,
               release_not_dispatched(id, e, n)
        PROVE  Moved(id, "RESERVED", "RELEASED")
    <2>1. /\ gov.reservations[id].state = "RESERVED"
          /\ gov'.reservations = [gov.reservations EXCEPT ![id] = AsReleased(gov.reservations[id])]
      BY <1>4, ReleaseStep
    <2> QED
      BY <1>t, <2>1 DEF EntryType, AsReleased
  <1>5. ASSUME NEW e \in 0 .. gov.epoch, NEW id \in Ids, NEW ev \in Evidence,
               NEW n1 \in Time, NEW n2 \in Time, mark_unknown(id, e, ev, n1, n2)
        PROVE  Moved(id, "DISPATCHED", "UNKNOWN")
    <2>1. MarkUnknownEffect(id, ev, n1)
      BY <1>5, MarkUnknownStep
    <2>2. "UNKNOWN" \in ReservationState /\ gov.reservations[id] \in EntryType
      BY <1>t DEF ReservationState
    <2>3. Resolved(gov.reservations[id], "UNKNOWN", ev).state = "UNKNOWN"
      BY <2>2, ResolvedType
    <2> QED
      BY <1>t, <2>1, <2>3 DEF MarkUnknownEffect
  <1>6. ASSUME NEW e \in 0 .. gov.epoch, NEW id \in Ids, NEW ev \in Evidence,
               NEW n \in Time, settle(id, e, ev, n)
        PROVE  Moved(id, "DISPATCHED", "COMMITTED") \/ Moved(id, "UNKNOWN", "COMMITTED")
    <2>1. SettleEffect(id, ev)
      BY <1>6, SettleStep
    <2>2. "COMMITTED" \in ReservationState /\ gov.reservations[id] \in EntryType
      BY <1>t DEF ReservationState
    <2>3. Resolved(gov.reservations[id], "COMMITTED", ev).state = "COMMITTED"
      BY <2>2, ResolvedType
    <2> QED
      BY <1>t, <2>1, <2>3 DEF SettleEffect
  <1>7. CASE UNCHANGED vars
    BY <1>7 DEF vars
  <1> HIDE DEF Moved
  <1>8. \/ Operator \/ UNCHANGED vars
        \/ \E id \in Ids :
             \/ ~gov.kill /\ (Moved(id, "ABSENT", "RESERVED") \/ Moved(id, "RESERVED", "DISPATCHED"))
             \/ Moved(id, "RESERVED", "RELEASED") \/ Moved(id, "DISPATCHED", "UNKNOWN")
             \/ Moved(id, "DISPATCHED", "COMMITTED") \/ Moved(id, "UNKNOWN", "COMMITTED")
    BY <1>2, <1>3, <1>4, <1>5, <1>6 DEF Next, Caller, redispatch
  <1> QED
    BY <1>1, <1>7, <1>8 DEF Moved

\* A step keeps what is spent or final.
LEMMA StepFinal == TypeOK /\ [Next]_vars => [SpentStays]_vars
  <1> SUFFICES ASSUME TypeOK, Next PROVE SpentStays
    OBVIOUS
  <1> QED
    BY OneEntryChanges DEF SpentStays, InState, SpentState

\* A step under the kill switch reserves and dispatches nothing.
LEMMA StepKill == TypeOK /\ [Next]_vars => [KillStops]_vars
  <1> SUFFICES ASSUME TypeOK, Next, gov.kill
               PROVE  /\ Reserved(gov') = Reserved(gov)
                      /\ InState(gov', SpentState) = InState(gov, SpentState)
    BY DEF KillStops
  <1> QED
    BY OneEntryChanges DEF Reserved, Has, InState, SpentState

\* Money and risk once spent stay spent, and a settled or released reservation never
\* changes again.
THEOREM FinalitySafety == Spec => SpentIsFinal
  BY InitType, StepType, StepFinal, PTL DEF Spec, SpentIsFinal

\* While the kill switch stays on nothing is reserved or dispatched, by any method.
THEOREM KillSafety == Spec => KillBarrier
  BY InitType, StepType, StepKill, PTL DEF Spec, KillBarrier
-----------------------------------------------------------------------------
(* Budgets *)

\* A finite set of reservations binds finitely many units.
LEMMA UnitsFinite ==
  ASSUME NEW g \in SnapshotType, NEW S \in SUBSET Ids, IsFiniteSet(S),
         NEW field \in {"money", "risk"}
  PROVE  IsFiniteSet(UNION {Units(g, field, i) : i \in S})
  <1> DEFINE bound == {Units(g, field, i) : i \in S}
             f == [i \in S |-> Units(g, field, i)]
  <1>1. IsFiniteSet(bound)
    <2>1. f \in Surjection(S, bound)
      BY DEF Surjection
    <2> QED
      BY <2>1, FS_Surjection
  <1>2. ASSUME NEW i \in S
        PROVE  IsFiniteSet(Units(g, field, i))
    <2> DEFINE n == g.reservations[i].request[field]
    <2>1. n \in Int
      BY RequestsAssumption DEF SnapshotType, EntryType, NoRequest
    <2> HIDE DEF n
    <2>2. IsFiniteSet(1 .. n)
      BY <2>1, 1 \in Int, FS_Interval
    <2>3. IsFiniteSet({i})
      BY FS_Singleton
    <2> QED
      BY <2>2, <2>3, FS_Product DEF Units, n
  <1>3. \A u \in bound : IsFiniteSet(u)
    BY <1>2
  <1> QED
    BY <1>1, <1>3, FS_UNION

\* More reservations bind at least as much.
LEMMA TotalMonotone ==
  ASSUME NEW g \in SnapshotType, NEW T \in SUBSET Ids, IsFiniteSet(T), NEW S \in SUBSET T,
         NEW field \in {"money", "risk"}
  PROVE  /\ Total(g, S, field) \in Nat /\ Total(g, T, field) \in Nat
         /\ Total(g, S, field) <= Total(g, T, field)
  <1>1. IsFiniteSet(UNION {Units(g, field, i) : i \in T})
    BY UnitsFinite
  <1>2. UNION {Units(g, field, i) : i \in S} \in SUBSET (UNION {Units(g, field, i) : i \in T})
    OBVIOUS
  <1> QED
    BY <1>1, <1>2, FS_Subset, FS_CardinalityType DEF Total

\* No reservation, no exposure.
LEMMA NothingBound ==
  ASSUME NEW g, NEW field
  PROVE  Total(g, {}, field) = 0
  <1>1. UNION {Units(g, field, i) : i \in {}} = {}
    OBVIOUS
  <1> QED
    BY <1>1, FS_EmptySet DEF Total

\* A part of what fits under the ceilings fits under them.
LEMMA FitsMonotone ==
  ASSUME NEW g \in SnapshotType, NEW T \in SUBSET Ids, IsFiniteSet(T), NEW S \in SUBSET T,
         Fits(g, T)
  PROVE  Fits(g, S)
  <1> SUFFICES ASSUME NEW level \in Levels, NEW b \in Buckets(g, S, level)
               PROVE  /\ Total(g, b, "money") <= MaxAmount
                      /\ g.ceiling[level] = Unlimited \/ Total(g, b, "money") <= g.ceiling[level]
                      /\ Total(g, b, "risk") <= MaxAmount
                      /\ Total(g, b, "risk") <= LimitRisk[level]
    BY DEF Fits
  <1>1. PICK c \in Buckets(g, T, level) : b \subseteq c /\ c \subseteq T
    <2>1. CASE level = "global"
      BY <2>1 DEF Buckets
    <2>2. CASE level = "task"
      <3>1. PICK t \in Tasks : b = OfTask(g, S, t)
        BY <2>2 DEF Buckets
      <3>2. OfTask(g, T, t) \in Buckets(g, T, level)
        BY <2>2 DEF Buckets
      <3> QED
        BY <3>1, <3>2 DEF OfTask
    <2>3. CASE level = "owner_provider"
      <3>1. PICK p \in Providers : b = OfProvider(g, S, p)
        BY <2>3 DEF Buckets
      <3>2. OfProvider(g, T, p) \in Buckets(g, T, level)
        BY <2>3 DEF Buckets
      <3> QED
        BY <3>1, <3>2 DEF OfProvider
    <2> QED
      BY <2>1, <2>2, <2>3 DEF Levels
  <1>2. IsFiniteSet(c) /\ c \in SUBSET Ids
    BY <1>1, FS_Subset
  <1>3. /\ Total(g, c, "money") <= MaxAmount
        /\ g.ceiling[level] = Unlimited \/ Total(g, c, "money") <= g.ceiling[level]
        /\ Total(g, c, "risk") <= MaxAmount
        /\ Total(g, c, "risk") <= LimitRisk[level]
    BY <1>1 DEF Fits
  <1>4. \A field \in {"money", "risk"} :
          /\ Total(g, b, field) \in Nat /\ Total(g, c, field) \in Nat
          /\ Total(g, b, field) <= Total(g, c, field)
    BY <1>1, <1>2, TotalMonotone
  <1>5. MaxAmount \in Nat /\ LimitRisk[level] \in Nat /\ g.ceiling[level] \in Nat \cup {-1}
    BY BoundsAssumption, PolicyAssumption DEF SnapshotType, Ceilings, Unlimited
  <1> QED
    BY <1>3, <1>4, <1>5 DEF Unlimited

\* Whether a snapshot is within the budgets depends on its reservations and ceilings only.
LEMMA BudgetsOf ==
  ASSUME NEW g, NEW h, h.reservations = g.reservations, h.ceiling = g.ceiling, Budgets(g)
  PROVE  Budgets(h)
  <1>1. Charged(h) = Charged(g)
    BY DEF Charged, InState
  <1>2. \A S, field : Total(h, S, field) = Total(g, S, field)
    BY DEF Total, Units
  <1>3. \A S, level : Buckets(h, S, level) = Buckets(g, S, level)
    BY DEF Buckets, OfTask, OfProvider
  <1> QED
    BY <1>1, <1>2, <1>3 DEF Budgets, Fits

\* What is reserved is finite, and what is charged is within the budgets now in force: the
\* induction behind PermitsWithinBudget, for requests and ids without bound.
BudgetInv ==
  /\ PermitInv
  /\ IsFiniteSet(Reserved(gov))
  /\ Budgets(gov)

\* Nothing is charged at first.
LEMMA InitBudget == Init => BudgetInv
  <1> SUFFICES ASSUME Init PROVE BudgetInv
    OBVIOUS
  <1>1. Reserved(gov) = {} /\ Charged(gov) = {}
    BY DEF Init, Initial, Reserved, Has, Charged, InState, Absent, ReservationState
  <1>2. Budgets(gov)
    <2>1. \A level \in Levels : \A b \in Buckets(gov, {}, level) : b = {}
      BY DEF Levels, Buckets, OfTask, OfProvider
    <2>2. MaxAmount \in Nat /\ LimitRisk \in [Levels -> Nat] /\ gov.ceiling \in [Levels -> Nat]
      BY BoundsAssumption, PolicyAssumption DEF Init, Initial
    <2>3. \A field : Total(gov, {}, field) = 0
      BY NothingBound
    <2>4. Fits(gov, {})
      BY <2>1, <2>2, <2>3 DEF Fits
    <2> QED
      BY <1>1, <2>4 DEF Budgets
  <1> QED
    BY <1>1, <1>2, InitPermit, FS_EmptySet DEF BudgetInv

\* A snapshot that is appended was validated.
LEMMA WriteWithinBudget ==
  ASSUME NEW g, NEW n, Write(g, n)
  PROVE  Budgets(gov')
  <1>1. Budgets(g) /\ gov' = Written(gov, g, n)
    BY DEF Write, Valid
  <1> DEFINE g1 == [g EXCEPT !.version = gov.version + 1]
  <1>2. gov'.reservations = g.reservations /\ gov'.ceiling = g.ceiling
    BY <1>1 DEF Written
  <1> QED
    BY <1>1, <1>2, BudgetsOf

\* Every step keeps within the budgets, a change of the ceilings included.
LEMMA StepBudget == BudgetInv /\ [Next]_vars => BudgetInv'
  <1> SUFFICES ASSUME BudgetInv, [Next]_vars PROVE BudgetInv'
    OBVIOUS
  <1>1. PermitInv'
    BY StepPermit DEF BudgetInv
  <1>2. CASE UNCHANGED vars
    BY <1>1, <1>2, BudgetsOf DEF BudgetInv, vars, Reserved, Has
  <1>3. CASE Next
    <2>1. Budgets(gov')
      <3>1. (\E g, n : Write(g, n)) \/ gov' = gov
        BY <1>3 DEF Next, Operator, Caller, start_epoch, set_kill, apply_money_policy, reserve,
           dispatch_commit, redispatch, release_not_dispatched, mark_unknown, settle, vars
      <3> QED
        BY <3>1, WriteWithinBudget DEF BudgetInv
    <2>2. IsFiniteSet(Reserved(gov'))
      <3>1. \E id : Reserved(gov') \subseteq Reserved(gov) \cup {id}
        BY <1>3, OneEntryChanges DEF BudgetInv, PermitInv, Reserved, Has
      <3> QED
        BY <3>1, FS_AddElement, FS_Subset DEF BudgetInv
    <2> QED
      BY <1>1, <2>1, <2>2 DEF BudgetInv, Reserved, Has, Budgets, Fits, Charged, InState, Buckets,
         OfTask, OfProvider, Total, Units
  <1> QED
    BY <1>2, <1>3

\* Everything a caller was allowed to send is still charged.
LEMMA PermittedFits == BudgetInv => PermitsWithinBudget
  <1> SUFFICES ASSUME BudgetInv PROVE Fits(gov, {i \in Ids : permits[i] > 0})
    BY DEF PermitsWithinBudget
  <1> DEFINE sent == {i \in Ids : permits[i] > 0}
  <1>1. gov \in SnapshotType
    BY DEF BudgetInv, PermitInv, TypeOK, SnapshotOK
  <1>2. sent \subseteq Charged(gov) /\ Charged(gov) \subseteq Reserved(gov)
    BY DEF BudgetInv, PermitInv, PermitOnceNeverRefunded, Charged, InState, SpentState,
       ReservationState, Reserved, Has
  <1>3. IsFiniteSet(Charged(gov)) /\ Charged(gov) \in SUBSET Ids
    BY <1>2, FS_Subset DEF BudgetInv, Charged, InState
  <1>4. Fits(gov, Charged(gov))
    BY DEF BudgetInv, Budgets
  <1> QED
    BY <1>1, <1>2, <1>3, <1>4, FitsMonotone

\* What callers were ever allowed to send fits under the ceilings now in force, whatever
\* epochs and money policies lie between, at every level and in both dimensions.
THEOREM BudgetSafety == Spec => []PermitsWithinBudget
  BY InitBudget, StepBudget, PermittedFits, PTL DEF Spec

-----------------------------------------------------------------------------
(* The LITE watch *)

RowType ==
  [trace : Chats \cup Nat, kind : {"item", "chat", "repair", "group"}, created : Nat,
   status : {"RESERVED", "UNKNOWN", "COMMITTED", "RELEASED"}, processed : BOOLEAN]

RunType ==
  [state : {"NONE", "PLANNED", "RUNNING", "COMPLETED", "FAILED", "CANCELLED"},
   calls : 0 .. Group, results : Nat]

VerdictType == [results : Nat, calls : Nat]

ItemType == [trace : Nat, attempts : Nat, retry_at : Nat, fresh : Nat]

WatchType ==
  [queue : Seq(ItemType), next : Nat, checked : Nat \cup {Nil}, last : Digests \cup {Nil},
   admitted : Digests \cup {Nil}, busy : BOOLEAN, recon : BOOLEAN]

\* One call is open in these steps, a whole group in those.
CallSteps  == {"call", "sent", "settle"}
GroupSteps == {"start", "wait", "group"}

\* The types the proofs rest on, and that a dead process holds no call and no thread.
WatchTypes ==
  /\ run \in RunType /\ worker \in {"none", "ready", "sent", "ended"} /\ active \in BOOLEAN
  /\ clock \in Nat /\ now \in Nat /\ items \in Nat
  /\ up \in BOOLEAN
  /\ watch \in WatchType
  /\ res \in Seq(RowType)
  /\ pc \in {"idle", "probe", "drain", "review", "repair", "finish"} \cup CallSteps \cup GroupSteps
  /\ job \in {"item", "chat", "repair", Nil}
  /\ answer \in {"VALID", "UNKNOWN", "RATE_LIMITED", "REFUSED", Nil}
  /\ pc = "group" => verdict \in VerdictType
  /\ pc \in {"drain", "finish"} \/ (pc \in CallSteps /\ job = "item") => watch.queue # <<>>
  /\ ~up => pc = "idle" /\ worker = "none"

Open(i) == res[i].status = "RESERVED"
Sure(i) == res[i].status \in {"COMMITTED", "RELEASED"}

\* Which rows are open at each step of the call that holds the mutex.
OpenRows ==
  up =>
    /\ pc \notin CallSteps \cup GroupSteps => \A i \in DOMAIN res : ~Open(i)
    /\ pc \in {"review", "repair", "finish"} => Last > 0
    /\ pc \in CallSteps =>
         /\ Last > 0 /\ Open(Last)
         /\ \A i \in 1 .. (Last - 1) : Sure(i)
    /\ pc \in GroupSteps =>
         /\ Last > Group
         /\ \A i \in DOMAIN res : Open(i) => i >= Base
    /\ pc \in {"start", "wait"} => \A i \in Base .. Last : Open(i)

\* What of an open row the provider may have worked on.
OpenWork ==
  up =>
    /\ pc = "call" => ~res[Last].processed
    /\ pc = "settle" /\ answer \notin {"VALID", "UNKNOWN"} => ~res[Last].processed
    /\ pc = "start" => \A i \in Base .. Last : ~res[i].processed
    /\ pc = "wait" => \A i \in Base .. Last : res[i].processed => i - Base < run.calls
    /\ pc = "group" =>
         \A i \in Base .. Last : Open(i) /\ res[i].processed => i - Base < verdict.calls

\* A worker that still runs works on the latest rows: while it is waited for, or once its
\* group has been given up, and then none of them is ever known.
WorkerRows ==
  worker \in {"ready", "sent"} =>
    /\ up /\ Last > Group
    /\ \A i \in Base .. Last : res[i].status \in {"RESERVED", "UNKNOWN"}
    /\ \/ pc \in {"idle", "wait"}
       \/ pc = "group" /\ verdict.calls = Group /\ verdict.results = 0

\* A chat has one row of its own and one of its repair, which its claim names.
ChatRows ==
  /\ \A i, j \in DOMAIN res :
       res[i].trace = res[j].trace /\ res[i].kind = res[j].kind
         /\ res[i].kind \in {"chat", "repair"} => i = j
  /\ \A i \in DOMAIN res : res[i].kind = "repair" =>
       /\ res[i].trace \in repairs
       /\ \E j \in 1 .. (i - 1) :
            res[j].kind = "chat" /\ res[j].trace = res[i].trace /\ res[j].status = "COMMITTED"

\* The chat whose answer is being reviewed, repaired or looped on has been committed.
ChatAnswered ==
  up /\ job = "chat" =>
    /\ pc \in CallSteps => res[Last].kind = "chat"
    /\ pc \in {"review", "repair"} \cup GroupSteps =>
         \E j \in 1 .. Last : /\ res[j].kind = "chat" /\ res[j].trace = res[Last].trace
                              /\ res[j].status = "COMMITTED"

\* Only a chat is repaired, and only a queued item is finished.
JobOfStep == (pc = "repair" => job = "chat") /\ (pc = "finish" => job = "item")

\* What holds of the call that has the mutex, and of the rows it works on.
CallInv == OpenRows /\ OpenWork /\ WorkerRows /\ ChatAnswered /\ JobOfStep /\ ReleasedWasUnused

WatchInv ==
  WatchTypes /\ CallInv /\ ChatRows /\ RequestsWithinHour

\* The constants as the proofs use them.
LEMMA LiteConstants ==
  /\ Group \in Nat /\ Group > 0 /\ Window \in Nat /\ MaxRequests \in Nat /\ MaxClock \in Nat
  /\ Interval \in Nat /\ Freshness \in Nat /\ RetryDelay \in Nat /\ MaxRequests > 0
  BY LiteAssumption

-----------------------------------------------------------------------------
(* Rows of the journal *)

\* Rows that are appended leave the earlier ones as they are.
LEMMA Appended ==
  ASSUME NEW s \in Seq(RowType), NEW row \in RowType
  PROVE  /\ Append(s, row) \in Seq(RowType) /\ Len(Append(s, row)) = Len(s) + 1
         /\ \A i \in 1 .. Len(s) : Append(s, row)[i] = s[i]
         /\ Append(s, row)[Len(s) + 1] = row
  OBVIOUS

\* The same of a whole group.
LEMMA GroupAppended ==
  ASSUME NEW s \in Seq(RowType), NEW row \in RowType, NEW n \in Nat
  PROVE  LET t == s \o [i \in 1 .. n |-> row]
         IN  /\ t \in Seq(RowType) /\ Len(t) = Len(s) + n
             /\ \A i \in 1 .. Len(s) : t[i] = s[i]
             /\ \A i \in (Len(s) + 1) .. (Len(s) + n) : t[i] = row
  <1> DEFINE r == [i \in 1 .. n |-> row]
  <1>1. r \in Seq(RowType) /\ Len(r) = n /\ \A i \in 1 .. n : r[i] = row
    OBVIOUS
  <1> HIDE DEF r
  <1> QED
    BY <1>1

\* A row that is changed in place.
LEMMA RowChanged ==
  ASSUME NEW s \in Seq(RowType), NEW i \in 1 .. Len(s), NEW row \in RowType
  PROVE  LET t == [s EXCEPT ![i] = row]
         IN  /\ t \in Seq(RowType) /\ Len(t) = Len(s)
             /\ \A j \in 1 .. Len(s) : t[j] = IF j = i THEN row ELSE s[j]
  OBVIOUS
-----------------------------------------------------------------------------
(* Types *)

LoopTypes == run \in RunType /\ worker \in {"none", "ready", "sent", "ended"} /\ active \in BOOLEAN

\* The critical loop keeps the types of its view and of its thread, and its worker runs
\* after a step only if it ran before or the run was started.
LEMMA LoopKeepsTypes ==
  ASSUME LoopTypes,
         \/ PlanRun \/ StartRun \/ StartRunFails \/ WorkerCall \/ WorkerResult \/ WorkerFails
         \/ EndRun("FAILED") \/ EndRun("CANCELLED") \/ LoopCrash
  PROVE  LoopTypes'
  <1> USE LiteConstants DEF LoopTypes, RunType, loopVars
  <1>1. CASE PlanRun
    BY <1>1 DEF PlanRun, NoRun
  <1>2. CASE StartRun
    BY <1>2 DEF StartRun
  <1>3. CASE StartRunFails
    BY <1>3 DEF StartRunFails
  <1>4. CASE WorkerCall
    <2>1. run.calls + 1 \in 0 .. Group
      BY <1>4 DEF WorkerCall
    <2> QED
      BY <1>4, <2>1 DEF WorkerCall
  <1>5. CASE WorkerResult
    <2>1. run.results + 1 \in Nat
      OBVIOUS
    <2>2. run' \in RunType
      <3>1. \E c \in {run.state, "COMPLETED"} :
               run' = [run EXCEPT !.results = run.results + 1, !.state = c]
        BY <1>5 DEF WorkerResult
      <3> QED
        BY <2>1, <3>1
    <2>3. worker' \in {"ended", "ready"} /\ active' \in BOOLEAN
      BY <1>5 DEF WorkerResult
    <2> QED
      BY <2>2, <2>3
  <1>6. CASE WorkerFails
    BY <1>6 DEF WorkerFails
  <1>7. CASE EndRun("FAILED") \/ EndRun("CANCELLED")
    BY <1>7 DEF EndRun
  <1>8. CASE LoopCrash
    <2>1. 0 \in 0 .. Group /\ 0 \in Nat
      OBVIOUS
    <2>2. run' = [state |-> "NONE", calls |-> 0, results |-> 0]
      BY <1>8 DEF LoopCrash, NoRun
    <2>3. run' \in RunType
      BY <2>1, <2>2
    <2> QED
      BY <1>8, <2>3 DEF LoopCrash
  <1> QED
    BY <1>1, <1>2, <1>3, <1>4, <1>5, <1>6, <1>7, <1>8

\* An existing journal is opened, and its types are those of the one that was left.
LEMMA RestartTypes == WatchTypes /\ Restart => WatchTypes'
  <1> SUFFICES ASSUME WatchTypes, Restart PROVE WatchTypes'
    OBVIOUS
  <1>1. res' \in Seq(RowType)
    <2> DEFINE row(i) == IF res[i].status = "RESERVED"
                         THEN [res[i] EXCEPT !.status = "UNKNOWN"] ELSE res[i]
    <2>1. res \in Seq(RowType) /\ res' = [i \in 1 .. Len(res) |-> row(i)]
      BY DEF WatchTypes, Restart
    <2>2. \A i \in 1 .. Len(res) : row(i) \in RowType
      <3> SUFFICES ASSUME NEW i \in 1 .. Len(res) PROVE row(i) \in RowType
        OBVIOUS
      <3>1. res[i] \in RowType
        BY <2>1
      <3> QED
        BY <3>1 DEF RowType
    <2> HIDE DEF row
    <2> QED
      BY <2>1, <2>2
  <1>2. watch' \in WatchType /\ watch'.queue = watch.queue
    BY DEF WatchTypes, Restart, WatchType
  <1> QED
    BY <1>1, <1>2 DEF WatchTypes, Restart, loopVars, caller

\* A step of the tick that reserves nothing.
LEMMA TickTypes ==
  ASSUME WatchTypes,
         \/ TickReconcile \/ TickRegression \/ Tick \/ ProbeFails
         \/ \E d \in Digests : Probe(d)
         \/ DrainDrops \/ DrainWaits
  PROVE  WatchTypes'
  <1> USE LiteConstants DEF WatchTypes, loopVars, caller, CallSteps, GroupSteps
  <1>1. CASE TickReconcile \/ TickRegression
    <2>1. watch' \in WatchType /\ watch'.queue = watch.queue
      BY <1>1 DEF TickReconcile, TickRegression, WatchType
    <2> QED
      BY <1>1, <2>1 DEF TickReconcile, TickRegression, Tickable, Free
  <1>2. CASE Tick
    <2>1. watch' \in WatchType /\ watch'.queue = watch.queue
      BY <1>2 DEF Tick, WatchType
    <2> QED
      BY <1>2, <2>1 DEF Tick, Tickable, Free
  <1>3. CASE ProbeFails
    <2>1. watch' \in WatchType
      <3>1. now + Interval \in Nat
        OBVIOUS
      <3> QED
        BY <1>3, <3>1 DEF ProbeFails, WatchType
    <2> QED
      BY <1>3, <2>1 DEF ProbeFails, Return
  <1>4. ASSUME NEW d \in Digests, Probe(d)
        PROVE  WatchTypes'
    <2> DEFINE item == [trace |-> items, attempts |-> 0, retry_at |-> now,
                        fresh |-> now + Freshness]
    <2>1. item \in ItemType /\ watch.queue \in Seq(ItemType)
      BY DEF ItemType, WatchType
    <2>2. Append(watch.queue, item) \in Seq(ItemType)
      BY <2>1
    <2>3. watch' \in WatchType
      <3> HIDE DEF item
      <3>1. \E l \in Digests \cup {Nil}, b \in BOOLEAN, n \in Nat :
               \/ watch' = [watch EXCEPT !.checked = now, !.next = n, !.last = l, !.busy = b]
               \/ watch' = [[watch EXCEPT !.checked = now, !.next = n, !.last = l, !.busy = b]
                              EXCEPT !.queue = Append(watch.queue, item), !.admitted = d]
        <4> DEFINE changed == watch.last # Nil /\ d # watch.last
                   asks == (changed \/ d \in UncertainDigests) /\ d # watch.admitted
                   full == Len(watch.queue) >= QueueDepth
                   l == IF asks /\ full THEN watch.last ELSE d
                   b == asks /\ ~full
                   n == now + Interval
                   seen == [watch EXCEPT !.checked = now, !.next = n, !.last = l, !.busy = b]
        <4>1. l \in Digests \cup {Nil} /\ b \in BOOLEAN /\ n \in Nat
          BY DEF WatchType
        <4>2. watch' = IF b THEN [seen EXCEPT !.queue = Append(seen.queue, item), !.admitted = d]
                       ELSE seen
          BY <1>4 DEF Probe, item
        <4>3. seen.queue = watch.queue
          BY DEF WatchType
        <4> HIDE DEF l, b, n
        <4> QED
          BY <4>1, <4>2, <4>3
      <3> QED
        BY <2>2, <3>1 DEF WatchType
    <2>4. items' \in Nat
      <3>1. items' \in {items + 1, items}
        BY <1>4 DEF Probe
      <3> QED
        BY <3>1
    <2>5. \/ watch'.queue # <<>> /\ Go("drain")
          \/ Return
      BY <1>4 DEF Probe
    <2>6. /\ up /\ UNCHANGED <<run, worker, active, clock, up, stop, res, repairs>>
      BY <1>4 DEF Probe
    <2> QED
      BY <2>3, <2>4, <2>5, <2>6 DEF Go, Return
  <1>5. CASE DrainDrops
    <2>1. watch.queue \in Seq(ItemType) /\ watch.queue # <<>>
      BY <1>5 DEF DrainDrops, WatchType
    <2>2. Tail(watch.queue) \in Seq(ItemType)
      BY <2>1
    <2>3. watch' \in WatchType
      BY <1>5, <2>2 DEF DrainDrops, Popped, WatchType
    <2> QED
      BY <1>5, <2>3 DEF DrainDrops, Return
  <1>6. CASE DrainWaits
    <2>1. watch' \in WatchType /\ watch'.queue = watch.queue
      BY <1>6 DEF DrainWaits, WatchType
    <2> QED
      BY <1>6, <2>1 DEF DrainWaits, Return
  <1> QED
    BY <1>1, <1>2, <1>3, <1>4, <1>5, <1>6
-----------------------------------------------------------------------------
(* What an action does to the rows *)

\* n rows are appended, with room for them in the budget of time t.
AppendsRows(n, trace, kind, t) ==
  /\ Budgeted(n, t) /\ t \in Nat /\ n \in Nat
  /\ res' \in Seq(RowType) /\ Len(res') = Last + n
  /\ \A i \in 1 .. Last : res'[i] = res[i]
  /\ \A i \in (Last + 1) .. (Last + n) : res'[i] = Row(trace, kind, t)

\* The status and the history of one row are changed.
ChangesRow(i, status, processed) ==
  /\ i \in 1 .. Last
  /\ res' \in Seq(RowType) /\ Len(res') = Last
  /\ \A j \in 1 .. Last : j # i => res'[j] = res[j]
  /\ res'[i].trace = res[i].trace /\ res'[i].kind = res[i].kind
  /\ res'[i].created = res[i].created
  /\ res'[i].status = status /\ res'[i].processed = processed

\* A new row is a row.
LEMMA RowOK ==
  ASSUME NEW trace \in Chats \cup Nat, NEW kind \in {"item", "chat", "repair", "group"},
         NEW t \in Nat
  PROVE  Row(trace, kind, t) \in RowType
  BY DEF Row, RowType

\* Appending one row.
LEMMA AppendsOne ==
  ASSUME WatchTypes, NEW trace \in Chats \cup Nat, NEW t \in Nat, Budgeted(1, t),
         NEW kind \in {"item", "chat", "repair", "group"},
         res' = Append(res, Row(trace, kind, t))
  PROVE  AppendsRows(1, trace, kind, t)
  <1>1. Row(trace, kind, t) \in RowType /\ res \in Seq(RowType)
    BY RowOK DEF WatchTypes
  <1>2. /\ res' \in Seq(RowType) /\ Len(res') = Len(res) + 1
        /\ \A i \in 1 .. Len(res) : res'[i] = res[i]
        /\ res'[Len(res) + 1] = Row(trace, kind, t)
    BY <1>1, Appended
  <1> QED
    BY <1>1, <1>2 DEF AppendsRows, Last

\* Changing one row.
LEMMA ChangesOne ==
  ASSUME WatchTypes, NEW i \in 1 .. Last,
         NEW status \in {"RESERVED", "UNKNOWN", "COMMITTED", "RELEASED"}
  PROVE  /\ res' = [res EXCEPT ![i].status = status]
              => ChangesRow(i, status, res[i].processed)
         /\ \A p \in BOOLEAN :
              res' = [res EXCEPT ![i].processed = p] => ChangesRow(i, res[i].status, p)
  <1>1. res \in Seq(RowType) /\ res[i] \in RowType
    BY DEF WatchTypes, Last
  <1>2. ASSUME res' = [res EXCEPT ![i].status = status]
        PROVE  ChangesRow(i, status, res[i].processed)
    <2> DEFINE row == [res[i] EXCEPT !.status = status]
    <2>1. /\ row \in RowType /\ row.trace = res[i].trace /\ row.kind = res[i].kind
          /\ row.created = res[i].created /\ row.status = status
          /\ row.processed = res[i].processed
      BY <1>1 DEF RowType
    <2>2. res' = [res EXCEPT ![i] = row]
      BY <1>2
    <2> HIDE DEF row
    <2> QED
      BY <1>1, <2>1, <2>2, RowChanged DEF ChangesRow, Last
  <1>3. ASSUME NEW p \in BOOLEAN, res' = [res EXCEPT ![i].processed = p]
        PROVE  ChangesRow(i, res[i].status, p)
    <2> DEFINE row == [res[i] EXCEPT !.processed = p]
    <2>1. /\ row \in RowType /\ row.trace = res[i].trace /\ row.kind = res[i].kind
          /\ row.created = res[i].created /\ row.status = res[i].status
          /\ row.processed = p
      BY <1>1 DEF RowType
    <2>2. res' = [res EXCEPT ![i] = row]
      BY <1>3
    <2> HIDE DEF row
    <2> QED
      BY <1>1, <2>1, <2>2, RowChanged DEF ChangesRow, Last
  <1> QED
    BY <1>2, <1>3

\* What the reservations append.
LEMMA ReservationsAppend ==
  ASSUME WatchTypes, OpenRows
  PROVE  /\ DrainReserves => \E trace \in Nat : AppendsRows(1, trace, "item", now)
         /\ \A c \in Chats : Chat(c) => AppendsRows(1, c, "chat", clock)
         /\ ChatRepairs => AppendsRows(1, res[Last].trace, "repair", clock)
         /\ GroupReserves => AppendsRows(Group, res[Last].trace, "group", clock)
  <1>0. res \in Seq(RowType) /\ clock \in Nat /\ now \in Nat /\ Last \in Nat
    BY DEF WatchTypes, Last
  <1>t. Last > 0 => res[Last].trace \in Chats \cup Nat
    <2>1. Last > 0 => res[Last] \in RowType
      BY <1>0 DEF Last
    <2> QED
      BY <2>1 DEF RowType
  <1>1. ASSUME DrainReserves
        PROVE  \E trace \in Nat : AppendsRows(1, trace, "item", now)
    <2>1. watch.queue \in Seq(ItemType) /\ watch.queue # <<>>
      BY <1>1 DEF WatchTypes, WatchType, DrainReserves
    <2>2. Head(watch.queue) \in ItemType
      BY <2>1
    <2>3. Head(watch.queue).trace \in Nat
      BY <2>2 DEF ItemType
    <2> QED
      BY <1>0, <1>1, <2>3, AppendsOne DEF DrainReserves
  <1>2. ASSUME NEW c \in Chats, Chat(c)
        PROVE  AppendsRows(1, c, "chat", clock)
    BY <1>0, <1>2, AppendsOne DEF Chat
  <1>3. ASSUME ChatRepairs
        PROVE  AppendsRows(1, res[Last].trace, "repair", clock)
    <2>1. Last > 0
      BY <1>3 DEF ChatRepairs, OpenRows
    <2> QED
      BY <1>0, <1>3, <1>t, <2>1, AppendsOne DEF ChatRepairs
  <1>4. ASSUME GroupReserves
        PROVE  AppendsRows(Group, res[Last].trace, "group", clock)
    <2>1. Last > 0
      BY <1>4 DEF GroupReserves, OpenRows
    <2> DEFINE row == Row(res[Last].trace, "group", clock)
    <2>2. row \in RowType /\ Group \in Nat
      BY <1>0, <1>t, <2>1, RowOK, LiteConstants
    <2>3. res' = res \o [i \in 1 .. Group |-> row] /\ Budgeted(Group, clock)
      BY <1>4 DEF GroupReserves
    <2>4. /\ res' \in Seq(RowType) /\ Len(res') = Len(res) + Group
          /\ \A i \in 1 .. Len(res) : res'[i] = res[i]
          /\ \A i \in (Len(res) + 1) .. (Len(res) + Group) : res'[i] = row
      <3> HIDE DEF row
      <3> QED
        BY <1>0, <2>2, <2>3, GroupAppended
    <2> QED
      BY <1>0, <2>2, <2>3, <2>4 DEF AppendsRows, Last
  <1> QED
    BY <1>1, <1>2, <1>3, <1>4

\* What the calls and their settlements change.
LEMMA CallsChange ==
  ASSUME WatchTypes, OpenRows, WorkerRows
  PROVE  /\ CallStopped => ChangesRow(Last, "RELEASED", res[Last].processed)
         /\ CallSent => \E p \in BOOLEAN : ChangesRow(Last, res[Last].status, p)
         /\ SettleCall => ChangesRow(Last, StatusOf(answer), res[Last].processed)
         /\ GroupSettles => \E i \in Base .. Last :
              Open(i) /\ ChangesRow(i, GroupStatus(i - Base), res[i].processed)
         /\ LoopCall =>
              /\ Base + run.calls \in Base .. Last
              /\ ChangesRow(Base + run.calls, res[Base + run.calls].status, TRUE)
  <1>0. Last \in Nat /\ Group \in Nat /\ Group > 0
    BY LiteConstants DEF WatchTypes, Last
  <1>1. up /\ pc \in CallSteps => Last \in 1 .. Last
    BY <1>0 DEF OpenRows
  <1>2. CallStopped => ChangesRow(Last, "RELEASED", res[Last].processed)
    BY <1>1, ChangesOne DEF CallStopped, CallSteps, Settled
  <1>3. CallSent => \E p \in BOOLEAN : ChangesRow(Last, res[Last].status, p)
    BY <1>1, ChangesOne DEF CallSent, CallSteps
  <1>4. SettleCall => ChangesRow(Last, StatusOf(answer), res[Last].processed)
    <2>1. StatusOf(answer) \in {"RESERVED", "UNKNOWN", "COMMITTED", "RELEASED"}
      BY DEF StatusOf
    <2> QED
      BY <1>1, <2>1, ChangesOne DEF SettleCall, CallSteps, Settled
  <1>5. ASSUME GroupSettles
        PROVE  \E i \in Base .. Last :
                 Open(i) /\ ChangesRow(i, GroupStatus(i - Base), res[i].processed)
    <2>1. PICK i \in Base .. Last : Open(i) /\ res' = Settled(i, GroupStatus(i - Base))
      BY <1>5 DEF GroupSettles, Open
    <2>2. i \in 1 .. Last
      BY <1>0, <1>5, <2>1 DEF GroupSettles, OpenRows, GroupSteps, Base
    <2>3. GroupStatus(i - Base) \in {"RESERVED", "UNKNOWN", "COMMITTED", "RELEASED"}
      BY DEF GroupStatus
    <2>4. ChangesRow(i, GroupStatus(i - Base), res[i].processed)
      BY <2>1, <2>2, <2>3, ChangesOne DEF Settled
    <2> QED
      BY <2>1, <2>4
  <1>6. ASSUME LoopCall
        PROVE  /\ Base + run.calls \in Base .. Last
               /\ ChangesRow(Base + run.calls, res[Base + run.calls].status, TRUE)
    <2>1. Last > Group /\ run.calls \in Nat /\ run.calls < Group
      BY <1>6 DEF LoopCall, WorkerCall, WorkerRows, WatchTypes, RunType
    <2>2. Base + run.calls \in 1 .. Last /\ Base + run.calls \in Base .. Last
      BY <1>0, <2>1 DEF Base
    <2>3. res' = [res EXCEPT ![Base + run.calls].processed = TRUE]
      BY <1>6 DEF LoopCall
    <2> HIDE DEF Base
    <2> QED
      BY <2>2, <2>3, ChangesOne
  <1> QED
    BY <1>2, <1>3, <1>4, <1>5, <1>6
-----------------------------------------------------------------------------
(* Types, of the steps that work on the rows *)

\* The first item of a queue that is changed in place.
LEMMA HeadChanged ==
  ASSUME NEW s \in Seq(ItemType), s # <<>>, NEW item \in ItemType
  PROVE  [s EXCEPT ![1] = item] \in Seq(ItemType) /\ Len([s EXCEPT ![1] = item]) = Len(s)
  OBVIOUS

\* A reservation, a call and its settlement.
LEMMA CallTypes ==
  ASSUME WatchTypes, OpenRows, WorkerRows,
         \/ DrainReserves
         \/ \E c \in Chats : Chat(c)
         \/ ChatRepairs \/ ChatEnds \/ ChatCorrects
         \/ CallStopped \/ CallRefused \/ CallSent
         \/ \E a \in {"VALID", "UNKNOWN", "RATE_LIMITED", "REFUSED"} : CallAnswered(a)
         \/ SettleCall \/ Finish \/ ItemEnds
  PROVE  WatchTypes'
  <1> USE LiteConstants DEF WatchTypes, loopVars, caller, CallSteps, GroupSteps
  <1>1. CASE DrainReserves
    <2>1. res' \in Seq(RowType)
      BY <1>1, ReservationsAppend DEF AppendsRows
    <2>2. watch.queue \in Seq(ItemType) /\ watch.queue # <<>>
      BY <1>1 DEF WatchType, DrainReserves
    <2> DEFINE q == [watch.queue EXCEPT ![1].attempts = watch.queue[1].attempts + 1]
    <2>3. q \in Seq(ItemType) /\ q # <<>>
      <3> DEFINE item == [watch.queue[1] EXCEPT !.attempts = watch.queue[1].attempts + 1]
      <3>1. watch.queue[1] \in ItemType /\ Len(watch.queue) > 0
        BY <2>2
      <3>2. item \in ItemType
        <4>1. watch.queue[1].attempts + 1 \in Nat
          BY <3>1 DEF ItemType
        <4> QED
          BY <3>1, <4>1 DEF ItemType
      <3>3. q = [watch.queue EXCEPT ![1] = item]
        OBVIOUS
      <3> HIDE DEF item
      <3> HIDE DEF q, WatchTypes
      <3>4. q \in Seq(ItemType) /\ Len(q) = Len(watch.queue)
        BY <2>2, <3>2, <3>3, HeadChanged
      <3> QED
        BY <3>1, <3>4
    <2>4. watch' = [watch EXCEPT !.queue = q, !.busy = TRUE]
      BY <1>1 DEF DrainReserves, WatchType
    <2> HIDE DEF q
    <2>5. watch' \in WatchType /\ watch'.queue # <<>>
      BY <2>3, <2>4 DEF WatchType
    <2> QED
      BY <1>1, <2>1, <2>5 DEF DrainReserves
  <1>2. ASSUME NEW c \in Chats, Chat(c)
        PROVE  WatchTypes'
    <2>1. res' \in Seq(RowType)
      BY <1>2, ReservationsAppend DEF AppendsRows
    <2> QED
      BY <1>2, <2>1 DEF Chat, Free
  <1>3. CASE ChatRepairs
    <2>1. res' \in Seq(RowType)
      BY <1>3, ReservationsAppend DEF AppendsRows
    <2> QED
      BY <1>3, <2>1 DEF ChatRepairs
  <1>4. CASE ChatEnds
    <2>1. watch' \in WatchType
      BY <1>4 DEF ChatEnds, WatchType
    <2> QED
      BY <1>4, <2>1 DEF ChatEnds, Return
  <1>5. CASE ChatCorrects \/ ItemEnds
    BY <1>5 DEF ChatCorrects, ItemEnds, Go, Return
  <1>6. CASE CallStopped
    <2>1. res' \in Seq(RowType)
      BY <1>6, CallsChange DEF ChangesRow
    <2> QED
      BY <1>6, <2>1 DEF CallStopped, Return
  <1>7. CASE CallRefused
    BY <1>7 DEF CallRefused
  <1>8. CASE CallSent
    <2>1. res' \in Seq(RowType)
      BY <1>8, CallsChange DEF ChangesRow
    <2> QED
      BY <1>8, <2>1 DEF CallSent, Go
  <1>9. ASSUME NEW a \in {"VALID", "UNKNOWN", "RATE_LIMITED", "REFUSED"}, CallAnswered(a)
        PROVE  WatchTypes'
    BY <1>9 DEF CallAnswered
  <1>10. CASE SettleCall
    <2>1. res' \in Seq(RowType)
      BY <1>10, CallsChange DEF ChangesRow
    <2> QED
      BY <1>10, <2>1 DEF SettleCall, Go, Return
  <1>11. CASE Finish
    <2>1. watch.queue \in Seq(ItemType) /\ watch.queue # <<>> /\ watch.queue[1] \in ItemType
      BY <1>11 DEF WatchType, Finish
    <2>2. Tail(watch.queue) \in Seq(ItemType)
      BY <2>1
    <2>3. now + RetryDelay \in Nat
      OBVIOUS
    <2> DEFINE item == [watch.queue[1] EXCEPT !.retry_at = now + RetryDelay]
               q == [watch.queue EXCEPT ![1] = item]
    <2>4. item \in ItemType
      BY <2>1, <2>3 DEF ItemType
    <2>5. q \in Seq(ItemType)
      BY <2>1, <2>4
    <2>6. \/ watch' = [watch EXCEPT !.queue = q, !.busy = FALSE]
          \/ watch' = [watch EXCEPT !.queue = Tail(watch.queue), !.busy = FALSE]
      BY <1>11 DEF Finish, Popped, WatchType
    <2> HIDE DEF item, q
    <2>7. watch' \in WatchType
      BY <2>2, <2>5, <2>6 DEF WatchType
    <2> QED
      BY <1>11, <2>7 DEF Finish, Go, Return
  <1> QED
    BY <1>1, <1>2, <1>3, <1>4, <1>5, <1>6, <1>7, <1>8, <1>9, <1>10, <1>11

\* The critical loop and its settlement.
LEMMA GroupTypes ==
  ASSUME WatchTypes, OpenRows, WorkerRows,
         \/ GroupReserves \/ GroupStarts \/ GroupNotStarted
         \/ GroupWaited \/ GroupTimesOut \/ GroupSettles \/ GroupEnds
         \/ LoopCall \/ LoopStep
  PROVE  WatchTypes'
  <1> USE LiteConstants DEF WatchTypes, caller, CallSteps, GroupSteps
  <1>0. LoopTypes
    BY DEF LoopTypes
  <1>1. CASE GroupReserves
    <2>1. res' \in Seq(RowType)
      BY <1>1, ReservationsAppend DEF AppendsRows
    <2>2. LoopTypes'
      BY <1>0, <1>1, LoopKeepsTypes DEF GroupReserves
    <2> QED
      BY <1>1, <2>1, <2>2 DEF GroupReserves, Go, LoopTypes
  <1>2. CASE GroupStarts
    <2>1. LoopTypes'
      BY <1>0, <1>2, LoopKeepsTypes DEF GroupStarts
    <2> QED
      BY <1>2, <2>1 DEF GroupStarts, Go, LoopTypes
  <1>3. CASE GroupNotStarted
    <2>1. LoopTypes'
      BY <1>0, <1>3, LoopKeepsTypes DEF GroupNotStarted
    <2>2. verdict' \in VerdictType /\ pc' = "group" /\ UNCHANGED <<now, job, answer>>
      BY <1>3 DEF GroupNotStarted, Judge, VerdictType
    <2> QED
      BY <1>3, <2>1, <2>2 DEF GroupNotStarted, LoopTypes
  <1>4. CASE GroupWaited
    <2>1. verdict' \in VerdictType /\ pc' = "group" /\ UNCHANGED <<now, job, answer>>
      <3>1. run.results \in Nat /\ run.calls \in Nat
        BY DEF RunType
      <3> QED
        BY <1>4, <3>1 DEF GroupWaited, Judge, VerdictType
    <2> QED
      BY <1>4, <2>1 DEF GroupWaited, loopVars
  <1>5. CASE GroupTimesOut
    <2>1. verdict' \in VerdictType /\ pc' = "group" /\ UNCHANGED <<now, job, answer>>
      BY <1>5 DEF GroupTimesOut, Judge, VerdictType
    <2> QED
      BY <1>5, <2>1 DEF GroupTimesOut, loopVars
  <1>6. CASE GroupSettles
    <2>1. res' \in Seq(RowType)
      BY <1>6, CallsChange DEF ChangesRow
    <2> QED
      BY <1>6, <2>1 DEF GroupSettles, loopVars
  <1>7. CASE GroupEnds
    <2>1. watch' \in WatchType
      <3>1. PICK unknown \in BOOLEAN :
              watch' = [watch EXCEPT !.recon = watch.recon \/ unknown
                                               \/ (job = "item" /\ HasUncertain)]
        BY <1>7 DEF GroupEnds
      <3>2. (watch.recon \/ unknown \/ (job = "item" /\ HasUncertain)) \in BOOLEAN
        OBVIOUS
      <3> QED
        BY <3>1, <3>2 DEF WatchType
    <2> QED
      BY <1>7, <2>1 DEF GroupEnds, Go, Return, loopVars
  <1>8. CASE LoopCall
    <2>1. res' \in Seq(RowType)
      BY <1>8, CallsChange DEF ChangesRow
    <2>2. LoopTypes'
      BY <1>0, <1>8, LoopKeepsTypes DEF LoopCall
    <2> QED
      BY <1>8, <2>1, <2>2 DEF LoopCall, LoopTypes
  <1>9. CASE LoopStep
    <2>1. LoopTypes'
      BY <1>0, <1>9, LoopKeepsTypes DEF LoopStep
    <2> QED
      BY <1>9, <2>1 DEF LoopStep, LoopTypes, liteVars
  <1> QED
    BY <1>1, <1>2, <1>3, <1>4, <1>5, <1>6, <1>7, <1>8, <1>9

\* Stop, crash and the clock.
LEMMA HostTypes ==
  ASSUME WatchTypes, RequestStop \/ Close \/ Crash \/ ClockMoves
  PROVE  WatchTypes'
  <1> USE LiteConstants DEF WatchTypes, caller, CallSteps, GroupSteps
  <1>1. CASE RequestStop
    BY <1>1 DEF RequestStop, loopVars
  <1>2. CASE Close
    <2>1. LoopTypes'
      BY <1>2, LoopKeepsTypes DEF LoopTypes, Close
    <2>2. watch' \in WatchType
      BY <1>2 DEF Close, WatchType
    <2> QED
      BY <1>2, <2>1, <2>2 DEF Close, Free, LoopTypes, LoopCrash
  <1>3. CASE Crash
    <2>1. LoopTypes'
      BY <1>3, LoopKeepsTypes DEF LoopTypes, Crash
    <2> QED
      BY <1>3, <2>1 DEF Crash, LoopTypes, LoopCrash, Return
  <1>4. CASE ClockMoves
    BY <1>4 DEF ClockMoves, loopVars
  <1> QED
    BY <1>1, <1>2, <1>3, <1>4
-----------------------------------------------------------------------------
(* The hourly budget *)

\* The rows of the hour that ends at u.
Hour(u) == {i \in DOMAIN res : u - Window < res[i].created /\ res[i].created <= u}

\* Rows and hours are sets of positions of the journal.
LEMMA RowsFinite ==
  ASSUME WatchTypes, NEW S \in SUBSET (1 .. Last)
  PROVE  IsFiniteSet(S) /\ Cardinality(S) \in Nat
  <1>1. Last \in Int
    BY DEF WatchTypes, Last
  <1>2. IsFiniteSet(1 .. Last)
    BY <1>1, 1 \in Int, FS_Interval
  <1> QED
    BY <1>2, FS_Subset, FS_CardinalityType

\* A reservation within the budget of its time keeps every hour within it: an hour that
\* holds the new rows holds, of the earlier ones, only some that the budget counted.
LEMMA ReservedWithinHour ==
  ASSUME WatchTypes, RequestsWithinHour, NEW n, NEW trace, NEW kind, NEW t,
         AppendsRows(n, trace, kind, t)
  PROVE  RequestsWithinHour'
  <1> SUFFICES ASSUME NEW u \in 0 .. MaxClock PROVE Cardinality(Hour(u)') <= MaxRequests
    BY LiteConstants DEF RequestsWithinHour, Hour
  <1>0. /\ res \in Seq(RowType) /\ Last \in Nat /\ Len(res) = Last /\ n \in Nat /\ t \in Nat
        /\ res' \in Seq(RowType) /\ Len(res') = Last + n
    BY DEF WatchTypes, AppendsRows, Last
  <1>1. Hour(u) \in SUBSET (1 .. Last) /\ Recent(t) \in SUBSET (1 .. Last)
    BY <1>0 DEF Hour, Recent
  <1>2. /\ IsFiniteSet(Hour(u)) /\ Cardinality(Hour(u)) \in Nat
        /\ IsFiniteSet(Recent(t)) /\ Cardinality(Recent(t)) \in Nat
    BY <1>1, RowsFinite
  <1>3. Cardinality(Hour(u)) <= MaxRequests
    BY DEF RequestsWithinHour, Hour
  <1>4. \A i \in 1 .. Last : res[i].created \in Nat
    <2>1. \A i \in 1 .. Last : res[i] \in RowType
      BY <1>0
    <2> QED
      BY <2>1 DEF RowType
  <1>5. \A i \in 1 .. Last : res'[i] = res[i]
    BY DEF AppendsRows
  <1>6. \A i \in (Last + 1) .. (Last + n) : res'[i].created = t
    BY DEF AppendsRows, Row
  <1>7. CASE u - Window < t /\ t <= u
    <2> DEFINE new == (Last + 1) .. (Last + n)
    <2>1. IsFiniteSet(new) /\ Cardinality(new) = n
      BY <1>0, FS_Interval
    <2>2. Hour(u)' = Hour(u) \cup new
      BY <1>0, <1>4, <1>5, <1>6, <1>7 DEF Hour
    <2>3. Hour(u) \in SUBSET Recent(t)
      BY <1>0, <1>4, <1>7, LiteConstants DEF Hour, Recent
    <2>4. Cardinality(Hour(u)) <= Cardinality(Recent(t))
      BY <1>2, <2>3, FS_Subset
    <2>5. Hour(u) \cap new = {}
      BY <1>0, <1>1
    <2>6. Cardinality(Recent(t)) + n <= MaxRequests
      BY DEF AppendsRows, Budgeted
    <2>7. Cardinality(Hour(u) \cup new) = Cardinality(Hour(u)) + n
      <3>1. Cardinality({}) = 0
        BY FS_EmptySet
      <3>2. Cardinality(Hour(u) \cup new)
              = Cardinality(Hour(u)) + Cardinality(new) - Cardinality(Hour(u) \cap new)
        BY <1>2, <2>1, FS_Union
      <3>3. Cardinality(Hour(u) \cap new) = 0
        BY <2>5, <3>1, Zenon
      <3> HIDE DEF new
      <3> QED
        BY <1>0, <1>2, <2>1, <3>2, <3>3
    <2> QED
      BY <1>0, <1>2, <2>2, <2>4, <2>6, <2>7, LiteConstants
  <1>8. CASE ~(u - Window < t /\ t <= u)
    <2>1. Hour(u)' = Hour(u)
      BY <1>0, <1>4, <1>5, <1>6, <1>8 DEF Hour
    <2> QED
      BY <1>3, <2>1
  <1> QED
    BY <1>7, <1>8

-----------------------------------------------------------------------------
(* Changes in place *)

\* No row is added, none changes whose it is or when it was made, and one that is committed
\* stays committed.
KeepsRows ==
  /\ res' \in Seq(RowType) /\ Len(res') = Len(res)
  /\ \A i \in 1 .. Last :
       /\ res'[i].trace = res[i].trace /\ res'[i].kind = res[i].kind
       /\ res'[i].created = res[i].created
       /\ res[i].status = "COMMITTED" => res'[i].status = "COMMITTED"

\* Such a change moves nothing from one hour to another.
LEMMA KeptWithinHour == WatchTypes /\ RequestsWithinHour /\ KeepsRows => RequestsWithinHour'
  <1> SUFFICES ASSUME WatchTypes, RequestsWithinHour, KeepsRows,
                      NEW u \in 0 .. MaxClock
               PROVE  Cardinality(Hour(u)') <= MaxRequests
    BY LiteConstants DEF RequestsWithinHour, Hour
  <1>1. Hour(u)' = Hour(u)
    BY DEF Hour, KeepsRows, WatchTypes, Last
  <1> QED
    BY <1>1 DEF RequestsWithinHour, Hour

\* Nor does it give a chat another row.
LEMMA KeptChatRows ==
  WatchTypes /\ ChatRows /\ KeepsRows /\ UNCHANGED repairs => ChatRows'
  <1> SUFFICES ASSUME WatchTypes, ChatRows, KeepsRows, UNCHANGED repairs
               PROVE  ChatRows'
    OBVIOUS
  <1>0. /\ res \in Seq(RowType) /\ Len(res) \in Nat
        /\ DOMAIN res = 1 .. Len(res) /\ DOMAIN res' = 1 .. Len(res) /\ Last = Len(res)
    BY DEF WatchTypes, KeepsRows, Last
  <1>1. \A i, j \in DOMAIN res' :
          res'[i].trace = res'[j].trace /\ res'[i].kind = res'[j].kind
            /\ res'[i].kind \in {"chat", "repair"} => i = j
    BY <1>0 DEF ChatRows, KeepsRows
  <1>2. ASSUME NEW i \in DOMAIN res', res'[i].kind = "repair"
        PROVE  /\ res'[i].trace \in repairs'
               /\ \E j \in 1 .. (i - 1) :
                    /\ res'[j].kind = "chat" /\ res'[j].trace = res'[i].trace
                    /\ res'[j].status = "COMMITTED"
    <2>1. i \in 1 .. Last /\ res[i].kind = "repair" /\ res'[i].trace = res[i].trace
      BY <1>0, <1>2 DEF KeepsRows
    <2>2. PICK j \in 1 .. (i - 1) :
            res[j].kind = "chat" /\ res[j].trace = res[i].trace /\ res[j].status = "COMMITTED"
      BY <1>0, <2>1 DEF ChatRows
    <2>3. j \in 1 .. Last
      BY <1>0, <2>1
    <2> QED
      BY <1>0, <2>1, <2>2, <2>3 DEF ChatRows, KeepsRows
  <1> QED
    BY <1>1, <1>2 DEF ChatRows

\* A row that is not committed may be changed in place.
LEMMA ChangeKeepsRows ==
  ASSUME WatchTypes, NEW i, NEW status, NEW processed, ChangesRow(i, status, processed),
         res[i].status = "COMMITTED" => status = "COMMITTED"
  PROVE  KeepsRows
  BY DEF KeepsRows, ChangesRow, WatchTypes, Last

\* Opening an existing journal changes rows in place.
LEMMA RestartKeepsRows == WatchTypes /\ Restart => KeepsRows
  <1> SUFFICES ASSUME WatchTypes, Restart PROVE KeepsRows
    OBVIOUS
  <1>0. res \in Seq(RowType) /\ res' \in Seq(RowType) /\ Last = Len(res)
    BY RestartTypes DEF WatchTypes, Last
  <1>1. /\ Len(res') = Len(res)
        /\ \A i \in 1 .. Len(res) :
             res'[i] = IF res[i].status = "RESERVED"
                       THEN [res[i] EXCEPT !.status = "UNKNOWN"] ELSE res[i]
    <2>1. DOMAIN res = 1 .. Len(res) /\ Len(res) \in Nat
      BY <1>0
    <2>2. res' = [i \in 1 .. Len(res) |->
                    IF res[i].status = "RESERVED"
                    THEN [res[i] EXCEPT !.status = "UNKNOWN"] ELSE res[i]]
      BY <2>1 DEF Restart
    <2> QED
      BY <1>0, <2>1, <2>2
  <1>2. \A i \in 1 .. Len(res) : res[i] \in RowType
    BY <1>0
  <1>3. ASSUME NEW i \in 1 .. Last
        PROVE  /\ res'[i].trace = res[i].trace /\ res'[i].kind = res[i].kind
               /\ res'[i].created = res[i].created
               /\ res[i].status = "COMMITTED" => res'[i].status = "COMMITTED"
    BY <1>0, <1>1, <1>2 DEF RowType
  <1> QED
    BY <1>0, <1>1, <1>3 DEF KeepsRows
-----------------------------------------------------------------------------
(* Steps between calls *)

\* A worker that still runs has left a row that is not known, unless it is waited for.
LEMMA WorkerIsUncertain ==
  ASSUME WatchTypes, CallInv, worker \in {"ready", "sent"}
  PROVE  HasUncertain
  <1>1. Last > Group /\ \A i \in Base .. Last : res[i].status \in {"RESERVED", "UNKNOWN"}
    BY DEF CallInv, WorkerRows
  <1>2. Last \in Base .. Last /\ Last \in DOMAIN res
    BY <1>1, LiteConstants DEF WatchTypes, Last, Base
  <1> QED
    BY <1>1, <1>2 DEF HasUncertain

\* A step that leaves the rows alone and neither opens nor ends a call.
LEMMA QuietStep ==
  ASSUME WatchTypes, CallInv, UNCHANGED <<run, worker, up, res>>,
         pc \notin CallSteps \cup GroupSteps, pc' \notin CallSteps \cup GroupSteps,
         worker \in {"ready", "sent"} => pc' = "idle",
         pc' \in {"review", "repair", "finish"} =>
           pc \in {"review", "repair", "finish"} /\ job' = job,
         pc' = "finish" => pc = "finish",
         pc' = "repair" => job = "chat" /\ pc # "finish"
  PROVE  CallInv'
  <1>1. OpenRows'
    BY DEF CallInv, OpenRows, CallSteps, GroupSteps, Last, Open
  <1>2. OpenWork'
    BY DEF OpenWork, CallSteps, GroupSteps
  <1>3. WorkerRows'
    BY DEF CallInv, WorkerRows, Last, Base
  <1>4. ChatAnswered'
    <2> SUFFICES ASSUME up', job' = "chat", pc' \in {"review", "repair"}
                 PROVE  \E j \in 1 .. Last' :
                          /\ res'[j].kind = "chat" /\ res'[j].trace = res'[Last'].trace
                          /\ res'[j].status = "COMMITTED"
      BY DEF ChatAnswered, CallSteps, GroupSteps
    <2>1. up /\ job = "chat" /\ pc \in {"review", "repair"}
      BY DEF CallInv, JobOfStep
    <2> QED
      BY <2>1 DEF CallInv, ChatAnswered, Last
  <1>5. JobOfStep'
    BY DEF CallInv, JobOfStep
  <1>6. ReleasedWasUnused'
    BY DEF CallInv, ReleasedWasUnused
  <1> QED
    BY <1>1, <1>2, <1>3, <1>4, <1>5, <1>6 DEF CallInv

\* The steps of the tick, of a chat and of the queue between two calls.
LEMMA BetweenCalls ==
  ASSUME WatchTypes, CallInv,
         \/ TickReconcile \/ TickRegression \/ Tick \/ ProbeFails
         \/ \E d \in Digests : Probe(d)
         \/ DrainDrops \/ DrainWaits
         \/ ChatEnds \/ ChatCorrects \/ Finish \/ ItemEnds
         \/ RequestStop \/ ClockMoves
  PROVE  CallInv' /\ UNCHANGED <<res, repairs>>
  <1>1. CASE RequestStop \/ ClockMoves
    BY <1>1 DEF RequestStop, ClockMoves, loopVars, caller, CallInv, OpenRows, OpenWork, WorkerRows,
       ChatAnswered, JobOfStep, ReleasedWasUnused, Last, Base, Open, Sure
  <1> USE DEF CallSteps, GroupSteps, loopVars, caller
  <1>w. ASSUME worker \in {"ready", "sent"}
        PROVE  HasUncertain /\ (pc = "idle" \/ pc \in GroupSteps)
    BY <1>w, WorkerIsUncertain DEF CallInv, WorkerRows
  <1>2. CASE TickReconcile \/ TickRegression
    BY <1>2, <1>w, QuietStep DEF TickReconcile, TickRegression, Tickable, Free
  <1>3. CASE Tick
    BY <1>3, <1>w, QuietStep DEF Tick, Tickable, Free
  <1>4. CASE ProbeFails \/ DrainDrops \/ DrainWaits
    BY <1>4, <1>w, QuietStep DEF ProbeFails, DrainDrops, DrainWaits, Return
  <1>5. ASSUME NEW d \in Digests, Probe(d)
        PROVE  CallInv' /\ UNCHANGED <<res, repairs>>
    <2>1. /\ pc = "probe" /\ pc' \in {"drain", "idle"}
          /\ UNCHANGED <<run, worker, up, res, repairs>>
      BY <1>5 DEF Probe, Go, Return
    <2> QED
      BY <1>w, <2>1, QuietStep
  <1>6. CASE ChatEnds \/ ItemEnds
    BY <1>6, <1>w, QuietStep DEF ChatEnds, ItemEnds, Return
  <1>7. CASE ChatCorrects
    BY <1>7, <1>w, QuietStep DEF ChatCorrects, Go
  <1>8. CASE Finish
    BY <1>8, <1>w, QuietStep DEF Finish, Go, Return
  <1> QED
    BY <1>1, <1>2, <1>3, <1>4, <1>5, <1>6, <1>7, <1>8

\* The process ends: no thread is left.
LEMMA ProcessEnds ==
  ASSUME WatchTypes, CallInv, Close \/ Crash
  PROVE  CallInv' /\ UNCHANGED <<res, repairs>>
  <1>1. /\ ~up' /\ worker' = "none" /\ UNCHANGED <<res, repairs>>
        /\ pc' = "idle"
    BY DEF Close, Crash, LoopCrash, Return, Free, caller
  <1> QED
    BY <1>1 DEF CallInv, OpenRows, OpenWork, WorkerRows, ChatAnswered, JobOfStep,
       ReleasedWasUnused

\* The journal is opened again: what was open is unknown.
LEMMA ProcessRestarts ==
  ASSUME WatchTypes, CallInv, Restart
  PROVE  CallInv'
  <1>0. /\ res \in Seq(RowType) /\ Len(res) \in Nat /\ DOMAIN res = 1 .. Len(res)
        /\ pc = "idle" /\ worker = "none"
    BY DEF WatchTypes, Restart
  <1>1. res' = [i \in 1 .. Len(res) |-> IF res[i].status = "RESERVED"
                                        THEN [res[i] EXCEPT !.status = "UNKNOWN"] ELSE res[i]]
    BY <1>0 DEF Restart
  <1>2. pc' = "idle" /\ worker' = "none" /\ DOMAIN res' = 1 .. Len(res)
    BY <1>0, <1>1 DEF Restart, caller, loopVars
  <1>3. ASSUME NEW i \in 1 .. Len(res)
        PROVE  res'[i].status # "RESERVED" /\ (res'[i].status = "RELEASED" => ~res'[i].processed)
    <2>1. res[i] \in RowType
      BY <1>0
    <2> QED
      BY <1>0, <1>1, <2>1 DEF RowType, CallInv, ReleasedWasUnused
  <1>4. OpenRows' /\ ReleasedWasUnused'
    BY <1>2, <1>3 DEF OpenRows, ReleasedWasUnused, Open, CallSteps, GroupSteps
  <1> QED
    BY <1>2, <1>4 DEF CallInv, OpenWork, WorkerRows, ChatAnswered, JobOfStep,
       CallSteps, GroupSteps
-----------------------------------------------------------------------------
(* One call *)

\* A call or a group is reserved: before it nothing was uncertain.
LEMMA ReservedIsSure ==
  ASSUME WatchTypes, CallInv, NEW n \in Nat, NEW trace, NEW kind, NEW t,
         AppendsRows(n, trace, kind, t), UNCHANGED worker
  PROVE  /\ \A i \in 1 .. Last : res[i] \in RowType /\ Sure(i) /\ res'[i] = res[i]
         /\ \A i \in (Last + 1) .. (Last + n) : Open(i)' /\ ~res'[i].processed
         /\ Last' = Last + n /\ Last \in Nat /\ DOMAIN res = 1 .. Last /\ DOMAIN res' = 1 .. Last'
         /\ worker' \notin {"ready", "sent"}
         /\ ReleasedWasUnused'
  <1>0. /\ Last \in Nat /\ res \in Seq(RowType) /\ res' \in Seq(RowType)
        /\ DOMAIN res = 1 .. Last /\ Last' = Last + n /\ DOMAIN res' = 1 .. Last'
    BY DEF WatchTypes, Last, AppendsRows
  <1>1. ASSUME NEW i \in 1 .. Last
        PROVE  res[i] \in RowType /\ Sure(i) /\ res'[i] = res[i]
    <2>1. res[i] \in RowType
      BY <1>0
    <2>2. res[i].status \notin {"RESERVED", "UNKNOWN"}
      BY <1>0 DEF AppendsRows, Budgeted, HasUncertain
    <2> QED
      BY <2>1, <2>2 DEF RowType, Sure, AppendsRows
  <1>2. ASSUME NEW i \in (Last + 1) .. (Last + n)
        PROVE  Open(i)' /\ ~res'[i].processed
    <2>1. res'[i] = Row(trace, kind, t)
      BY DEF AppendsRows
    <2> QED
      BY <2>1 DEF Row, Open
  <1>3. worker' \notin {"ready", "sent"}
    BY WorkerIsUncertain DEF AppendsRows, Budgeted
  <1>4. ReleasedWasUnused'
    <2> SUFFICES ASSUME NEW i \in 1 .. Last', res'[i].status = "RELEASED"
                 PROVE  ~res'[i].processed
      BY <1>0 DEF ReleasedWasUnused
    <2>1. CASE i \in 1 .. Last
      BY <1>0, <1>1, <2>1 DEF CallInv, ReleasedWasUnused
    <2>2. CASE i \in (Last + 1) .. (Last + n)
      BY <1>2, <2>2
    <2> QED
      BY <1>0, <2>1, <2>2
  <1> QED
    BY <1>0, <1>1, <1>2, <1>3, <1>4

\* One call is reserved.
LEMMA CallReserved ==
  ASSUME WatchTypes, CallInv, DrainReserves \/ (\E c \in Chats : Chat(c)) \/ ChatRepairs
  PROVE  CallInv'
  <1>1. PICK trace, kind, t : AppendsRows(1, trace, kind, t) /\ (job' = "chat" => kind = "chat")
    BY ReservationsAppend DEF CallInv, DrainReserves, Chat, ChatRepairs
  <1>2. pc' = "call" /\ UNCHANGED <<run, worker>>
    BY DEF DrainReserves, Chat, ChatRepairs, loopVars
  <1>3. /\ \A i \in 1 .. Last : Sure(i) /\ res'[i] = res[i]
        /\ res'[Last + 1].status = "RESERVED" /\ ~res'[Last + 1].processed
        /\ Last' = Last + 1 /\ Last \in Nat
        /\ worker' \notin {"ready", "sent"}
        /\ ReleasedWasUnused'
    <2>1. /\ \A i \in 1 .. Last : Sure(i) /\ res'[i] = res[i]
          /\ \A i \in (Last + 1) .. (Last + 1) : Open(i)' /\ ~res'[i].processed
          /\ Last' = Last + 1 /\ Last \in Nat
          /\ worker' \notin {"ready", "sent"}
          /\ ReleasedWasUnused'
      BY <1>1, <1>2, 1 \in Nat, ReservedIsSure
    <2>2. Last + 1 \in (Last + 1) .. (Last + 1)
      BY <2>1
    <2> QED
      BY <2>1, <2>2 DEF Open
  <1>4. res'[Last'].kind = kind
    BY <1>1, <1>3 DEF AppendsRows, Row
  <1>5. \A i \in 1 .. (Last' - 1) : Sure(i)'
    BY <1>3 DEF Sure
  <1>6. OpenRows'
    BY <1>2, <1>3, <1>5 DEF OpenRows, CallSteps, GroupSteps, Open
  <1>7. OpenWork'
    BY <1>2, <1>3 DEF OpenWork
  <1>8. ChatAnswered'
    BY <1>1, <1>2, <1>4 DEF ChatAnswered, CallSteps, GroupSteps
  <1> QED
    BY <1>2, <1>3, <1>6, <1>7, <1>8 DEF CallInv, WorkerRows, JobOfStep

\* A call is refused, made, answered or settled.
LEMMA CallGoesOn ==
  ASSUME WatchTypes, CallInv,
         \/ CallStopped \/ CallRefused \/ CallSent
         \/ \E a \in {"VALID", "UNKNOWN", "RATE_LIMITED", "REFUSED"} : CallAnswered(a)
         \/ SettleCall
  PROVE  CallInv' /\ KeepsRows
  <1>0. /\ res \in Seq(RowType) /\ Last = Len(res) /\ Last \in Nat
        /\ DOMAIN res = 1 .. Last /\ up /\ pc \in CallSteps
        /\ worker' \notin {"ready", "sent"} /\ UNCHANGED <<run, up>>
    BY DEF WatchTypes, Last, CallInv, WorkerRows, CallStopped, CallRefused, CallSent, CallAnswered,
       SettleCall, CallSteps, loopVars
  <1>1. Last > 0 /\ Open(Last) /\ \A i \in 1 .. (Last - 1) : Sure(i)
    BY <1>0 DEF CallInv, OpenRows
  <1>2. \A i \in 1 .. Last : res[i].status = "RELEASED" => ~res[i].processed
    BY <1>0 DEF CallInv, ReleasedWasUnused
  <1> USE DEF CallSteps, GroupSteps
  <1>3. CASE CallStopped
    <2>1. ChangesRow(Last, "RELEASED", res[Last].processed)
      BY <1>3, CallsChange DEF CallInv
    <2>2. ~res[Last].processed /\ pc' = "idle"
      BY <1>0, <1>3 DEF CallStopped, Return, CallInv, OpenWork
    <2>3. KeepsRows
      BY <1>1, <2>1, ChangeKeepsRows DEF Open
    <2>4. Last' = Last /\ DOMAIN res' = 1 .. Last
      BY <2>1 DEF ChangesRow, Last
    <2>5. OpenRows' /\ ReleasedWasUnused'
      BY <1>0, <1>1, <1>2, <2>1, <2>2, <2>4
      DEF ChangesRow, OpenRows, ReleasedWasUnused, Open, Sure
    <2> QED
      BY <1>0, <2>2, <2>3, <2>5 DEF CallInv, OpenWork, WorkerRows, ChatAnswered, JobOfStep
  <1>4. CASE CallRefused \/ \E a \in {"VALID", "UNKNOWN", "RATE_LIMITED", "REFUSED"} : CallAnswered(a)
    <2>1. pc' = "settle" /\ UNCHANGED <<res, job>>
      BY <1>4 DEF CallRefused, CallAnswered
    <2>2. answer' \notin {"VALID", "UNKNOWN"} => ~res[Last].processed
      <3>1. CASE CallRefused
        BY <1>0, <3>1 DEF CallRefused, CallInv, OpenWork
      <3>2. ASSUME NEW a \in {"VALID", "UNKNOWN", "RATE_LIMITED", "REFUSED"}, CallAnswered(a)
            PROVE  answer' \notin {"VALID", "UNKNOWN"} => ~res[Last].processed
        BY <3>2 DEF CallAnswered, Answers
      <3> QED
        BY <1>4, <3>1, <3>2
    <2>3. KeepsRows
      BY <1>0, <2>1 DEF KeepsRows
    <2>4. Last' = Last
      BY <2>1 DEF Last
    <2>5. OpenRows' /\ OpenWork'
      BY <1>1, <2>1, <2>2, <2>4 DEF OpenRows, OpenWork, Open, Sure
    <2>6. ChatAnswered'
      BY <1>0, <2>1, <2>4 DEF ChatAnswered, CallInv
    <2> QED
      BY <1>0, <2>1, <2>3, <2>5, <2>6 DEF CallInv, WorkerRows, JobOfStep, ReleasedWasUnused
  <1>5. CASE CallSent
    <2>1. PICK p \in BOOLEAN : ChangesRow(Last, res[Last].status, p)
      BY <1>5, CallsChange DEF CallInv
    <2>2. pc' = "sent" /\ UNCHANGED job
      BY <1>5 DEF CallSent, Go
    <2>3. KeepsRows
      BY <2>1, ChangeKeepsRows
    <2>4. Last' = Last /\ DOMAIN res' = 1 .. Last
      BY <2>1 DEF ChangesRow, Last
    <2>5. OpenRows' /\ ReleasedWasUnused' /\ OpenWork'
      BY <1>0, <1>1, <1>2, <2>1, <2>2, <2>4
      DEF ChangesRow, OpenRows, OpenWork, ReleasedWasUnused, Open, Sure
    <2>6. ChatAnswered'
      BY <1>0, <2>1, <2>2, <2>4 DEF ChatAnswered, CallInv, ChangesRow
    <2> QED
      BY <1>0, <2>2, <2>3, <2>5, <2>6 DEF CallInv, WorkerRows, JobOfStep
  <1>6. CASE SettleCall
    <2>1. ChangesRow(Last, StatusOf(answer), res[Last].processed)
      BY <1>6, CallsChange DEF CallInv
    <2>2. /\ pc = "settle"
          /\ \/ job = "item" /\ pc' = "finish" /\ job' = job
             \/ job # "item" /\ answer = "VALID" /\ pc' = "review" /\ job' = job
             \/ pc' = "idle"
      BY <1>6 DEF SettleCall, Go, Return
    <2>3. KeepsRows
      BY <1>1, <2>1, ChangeKeepsRows DEF Open
    <2>4. Last' = Last /\ DOMAIN res' = 1 .. Last
      BY <2>1 DEF ChangesRow, Last
    <2>5. StatusOf(answer) # "RESERVED" /\ (StatusOf(answer) = "RELEASED" => ~res[Last].processed)
      BY <1>0, <2>2 DEF StatusOf, CallInv, OpenWork
    <2>6. OpenRows' /\ ReleasedWasUnused'
      BY <1>0, <1>1, <1>2, <2>1, <2>2, <2>4, <2>5
      DEF ChangesRow, OpenRows, ReleasedWasUnused, Open, Sure
    <2>7. ChatAnswered'
      <3> SUFFICES ASSUME job' = "chat", pc' = "review"
                   PROVE  \E j \in 1 .. Last' :
                            /\ res'[j].kind = "chat" /\ res'[j].trace = res'[Last'].trace
                            /\ res'[j].status = "COMMITTED"
        BY <2>2 DEF ChatAnswered
      <3>1. res[Last].kind = "chat" /\ StatusOf(answer) = "COMMITTED"
        BY <1>0, <2>2 DEF CallInv, ChatAnswered, StatusOf
      <3> QED
        BY <1>0, <1>1, <2>1, <2>4, <3>1 DEF ChangesRow
    <2> QED
      BY <1>0, <2>2, <2>3, <2>6, <2>7 DEF CallInv, WorkerRows, JobOfStep, OpenWork
  <1> QED
    BY <1>3, <1>4, <1>5, <1>6
-----------------------------------------------------------------------------
(* A group of calls *)

\* The whole group is reserved.
LEMMA GroupReserved == WatchTypes /\ CallInv /\ GroupReserves => CallInv'
  <1> SUFFICES ASSUME WatchTypes, CallInv, GroupReserves PROVE CallInv'
    OBVIOUS
  <1>1. AppendsRows(Group, res[Last].trace, "group", clock)
    BY ReservationsAppend DEF CallInv
  <1>2. pc = "review" /\ pc' = "start" /\ up /\ UNCHANGED <<worker, job, up>>
    BY DEF GroupReserves, Go, PlanRun
  <1>3. Group \in Nat /\ Group > 0
    BY LiteConstants
  <1>4. /\ \A i \in 1 .. Last : Sure(i) /\ res'[i] = res[i]
        /\ \A i \in (Last + 1) .. (Last + Group) :
             res'[i].status = "RESERVED" /\ ~res'[i].processed
        /\ Last' = Last + Group /\ Last \in Nat /\ DOMAIN res' = 1 .. Last'
        /\ worker' \notin {"ready", "sent"}
        /\ ReleasedWasUnused'
    BY <1>1, <1>2, <1>3, ReservedIsSure DEF Open
  <1>5. Last > 0
    BY <1>2 DEF CallInv, OpenRows
  <1>6. Base' = Last + 1
    BY <1>3, <1>4 DEF Base
  <1>7. OpenRows' /\ OpenWork'
    BY <1>2, <1>3, <1>4, <1>5, <1>6 DEF OpenRows, OpenWork, CallSteps, GroupSteps, Open, Sure
  <1>8. ChatAnswered'
    <2> SUFFICES ASSUME job = "chat"
                 PROVE  \E j \in 1 .. Last' :
                          /\ res'[j].kind = "chat" /\ res'[j].trace = res'[Last'].trace
                          /\ res'[j].status = "COMMITTED"
      BY <1>2 DEF ChatAnswered, CallSteps
    <2>1. PICK j \in 1 .. Last : /\ res[j].kind = "chat" /\ res[j].trace = res[Last].trace
                                 /\ res[j].status = "COMMITTED"
      BY <1>2 DEF CallInv, ChatAnswered
    <2>2. res'[Last'].trace = res[Last].trace
      <3>1. Last' \in (Last + 1) .. (Last + Group)
        BY <1>3, <1>4
      <3> QED
        BY <1>1, <3>1 DEF AppendsRows, Row
    <2> QED
      BY <1>3, <1>4, <2>1, <2>2
  <1> QED
    BY <1>2, <1>4, <1>7, <1>8 DEF CallInv, WorkerRows, JobOfStep

\* The run starts, does not start, is waited for or given up: the rows stay as they are.
LEMMA GroupRuns ==
  ASSUME WatchTypes, CallInv,
         GroupStarts \/ GroupNotStarted \/ GroupWaited \/ GroupTimesOut
  PROVE  CallInv' /\ UNCHANGED <<res, repairs>>
  <1>0. /\ Group \in Nat /\ Group > 0 /\ Last \in Nat /\ Base \in Int
        /\ UNCHANGED <<res, repairs, up, job>> /\ up /\ Last' = Last /\ Base' = Base
    BY LiteConstants
    DEF WatchTypes, Last, Base, GroupStarts, GroupNotStarted, GroupWaited, GroupTimesOut, Go, Judge
  <1> USE DEF CallSteps, GroupSteps
  <1>1. pc \in {"start", "wait"} /\ pc' \in {"wait", "group"}
    BY DEF GroupStarts, GroupNotStarted, GroupWaited, GroupTimesOut, Go, Judge
  <1>2. /\ Last > Group
        /\ \A i \in DOMAIN res : Open(i) => i >= Base
        /\ \A i \in Base .. Last : Open(i)
    BY <1>0, <1>1 DEF CallInv, OpenRows
  <1>3. OpenRows'
    BY <1>0, <1>1, <1>2 DEF OpenRows, Open
  <1>4. ChatAnswered' /\ JobOfStep' /\ ReleasedWasUnused'
    BY <1>0, <1>1 DEF CallInv, ChatAnswered, JobOfStep, ReleasedWasUnused
  <1>5. CASE GroupStarts
    <2>1. pc = "start" /\ pc' = "wait"
      BY <1>5 DEF GroupStarts, Go
    <2>2. \A i \in Base .. Last : ~res[i].processed
      BY <1>0, <2>1 DEF CallInv, OpenWork
    <2>3. OpenWork' /\ WorkerRows'
      BY <1>0, <1>2, <2>1, <2>2 DEF OpenWork, WorkerRows, Open
    <2> QED
      BY <1>0, <1>3, <1>4, <2>3 DEF CallInv
  <1>6. CASE GroupNotStarted
    <2>1. pc = "start" /\ pc' = "group"
      BY <1>6 DEF GroupNotStarted, Judge
    <2>2. \A i \in Base .. Last : ~res[i].processed
      BY <1>0, <2>1 DEF CallInv, OpenWork
    <2>3. worker' \notin {"ready", "sent"}
      <3>1. worker \notin {"ready", "sent"}
        BY <2>1 DEF CallInv, WorkerRows
      <3> QED
        BY <1>6, <3>1 DEF GroupNotStarted, StartRunFails, loopVars
    <2>4. OpenWork' /\ WorkerRows'
      BY <1>0, <2>1, <2>2, <2>3 DEF OpenWork, WorkerRows
    <2> QED
      BY <1>0, <1>3, <1>4, <2>4 DEF CallInv
  <1>7. CASE GroupWaited
    <2>1. /\ pc = "wait" /\ pc' = "group" /\ worker' = "ended"
          /\ verdict'.calls = run.calls
      BY <1>7 DEF GroupWaited, Judge, Waited, loopVars
    <2>2. \A i \in Base .. Last : res[i].processed => i - Base < run.calls
      BY <1>0, <2>1 DEF CallInv, OpenWork
    <2>3. OpenWork' /\ WorkerRows'
      BY <1>0, <2>1, <2>2 DEF OpenWork, WorkerRows
    <2> QED
      BY <1>0, <1>3, <1>4, <2>3 DEF CallInv
  <1>8. CASE GroupTimesOut
    <2>1. /\ pc' = "group" /\ verdict'.calls = Group /\ verdict'.results = 0
      BY <1>8 DEF GroupTimesOut, Judge
    <2>2. \A i \in Base .. Last : i - Base < Group
      BY <1>0 DEF Base
    <2>3. OpenWork' /\ WorkerRows'
      BY <1>0, <1>2, <2>1, <2>2 DEF OpenWork, WorkerRows, Open
    <2> QED
      BY <1>0, <1>3, <1>4, <2>3 DEF CallInv
  <1> QED
    BY <1>5, <1>6, <1>7, <1>8

\* One row of the group is settled: one that is given back was never worked on.
LEMMA GroupSettled == WatchTypes /\ CallInv /\ GroupSettles => CallInv' /\ KeepsRows
  <1> SUFFICES ASSUME WatchTypes, CallInv, GroupSettles PROVE CallInv' /\ KeepsRows
    OBVIOUS
  <1>0. /\ Group \in Nat /\ Group > 0 /\ res \in Seq(RowType) /\ Last \in Nat
        /\ DOMAIN res = 1 .. Last /\ Base \in Int
        /\ pc = "group" /\ up /\ UNCHANGED <<run, worker, up, pc, job, verdict, repairs>>
    BY LiteConstants DEF WatchTypes, Last, Base, GroupSettles, loopVars, caller
  <1>1. PICK i \in Base .. Last :
          Open(i) /\ ChangesRow(i, GroupStatus(i - Base), res[i].processed)
    BY CallsChange DEF CallInv
  <1>2. Last' = Last /\ DOMAIN res' = 1 .. Last /\ Base' = Base
    BY <1>1 DEF ChangesRow, Last, Base
  <1>3. KeepsRows
    BY <1>1, ChangeKeepsRows DEF Open
  <1>4. /\ Last > Group
        /\ \A j \in DOMAIN res : Open(j) => j >= Base
    BY <1>0 DEF CallInv, OpenRows, GroupSteps
  <1>5. \A j \in Base .. Last : Open(j) /\ res[j].processed => j - Base < verdict.calls
    BY <1>0 DEF CallInv, OpenWork
  <1>6. GroupStatus(i - Base) = "RELEASED" => ~res[i].processed
    <2>1. verdict \in VerdictType
      BY <1>0 DEF WatchTypes
    <2> QED
      BY <1>0, <1>1, <1>5, <2>1 DEF GroupStatus, VerdictType
  <1>s. GroupStatus(i - Base) # "RESERVED"
    BY DEF GroupStatus
  <1>7. OpenRows'
    BY <1>0, <1>1, <1>2, <1>4, <1>s DEF OpenRows, ChangesRow, Open, CallSteps, GroupSteps
  <1>8. OpenWork'
    <2>1. \A j \in Base .. Last : res'[j].status = "RESERVED" => res'[j] = res[j]
      BY <1>0, <1>1, <1>4, <1>s DEF ChangesRow, Base
    <2>2. \A j \in Base .. Last :
            res'[j].status = "RESERVED" /\ res'[j].processed => j - Base < verdict.calls
      BY <1>5, <2>1 DEF Open
    <2> QED
      BY <1>0, <1>2, <2>2 DEF OpenWork, Open
  <1>9. ReleasedWasUnused'
    BY <1>0, <1>1, <1>2, <1>6 DEF CallInv, ReleasedWasUnused, ChangesRow
  <1>10. WorkerRows'
    <2> SUFFICES ASSUME worker \in {"ready", "sent"}, NEW j \in Base .. Last
                 PROVE  /\ verdict.calls = Group /\ verdict.results = 0
                        /\ res'[j].status \in {"RESERVED", "UNKNOWN"}
      BY <1>0, <1>2, <1>4, <1>1 DEF WorkerRows
    <2>1. /\ verdict.calls = Group /\ verdict.results = 0
          /\ res[j].status \in {"RESERVED", "UNKNOWN"}
      BY <1>0 DEF CallInv, WorkerRows
    <2>2. j = i => res'[j].status = "UNKNOWN"
      BY <1>0, <1>1, <2>1 DEF ChangesRow, GroupStatus, Base
    <2>3. j # i => res'[j] = res[j]
      BY <1>0, <1>1, <1>4 DEF ChangesRow, Base
    <2> QED
      BY <2>1, <2>2, <2>3
  <1>11. ChatAnswered'
    <2> SUFFICES ASSUME job = "chat"
                 PROVE  \E j \in 1 .. Last' :
                          /\ res'[j].kind = "chat" /\ res'[j].trace = res'[Last'].trace
                          /\ res'[j].status = "COMMITTED"
      BY <1>0 DEF ChatAnswered, CallSteps
    <2>1. PICK j \in 1 .. Last : /\ res[j].kind = "chat" /\ res[j].trace = res[Last].trace
                                 /\ res[j].status = "COMMITTED"
      BY <1>0 DEF CallInv, ChatAnswered, GroupSteps
    <2> QED
      BY <1>0, <1>2, <1>3, <2>1 DEF KeepsRows
  <1> QED
    BY <1>0, <1>3, <1>7, <1>8, <1>9, <1>10, <1>11 DEF CallInv, JobOfStep

\* The group is settled and its verdict goes to the caller.
LEMMA GroupEnded ==
  WatchTypes /\ CallInv /\ GroupEnds => CallInv' /\ UNCHANGED <<res, repairs>>
  <1> SUFFICES ASSUME WatchTypes, CallInv, GroupEnds
               PROVE  CallInv' /\ UNCHANGED <<res, repairs>>
    OBVIOUS
  <1>0. /\ Group \in Nat /\ Group > 0 /\ Last \in Nat
        /\ UNCHANGED <<run, worker, up, res, repairs>> /\ up /\ pc = "group"
        /\ Last' = Last /\ Base' = Base
    BY LiteConstants DEF GroupEnds, loopVars, WatchTypes, Last, Base
  <1>1. \/ job = "chat" /\ verdict.results = Group /\ pc' = "repair" /\ job' = job
        \/ pc' = "idle"
    BY DEF GroupEnds, Go, Return
  <1>2. \A i \in DOMAIN res : ~Open(i)
    BY DEF GroupEnds, HasReserved, Open
  <1>3. Last > Group
    BY <1>0 DEF CallInv, OpenRows, GroupSteps
  <1>4. OpenRows' /\ OpenWork'
    BY <1>0, <1>1, <1>2, <1>3 DEF OpenRows, OpenWork, Open, CallSteps, GroupSteps
  <1>5. WorkerRows'
    BY <1>0, <1>1 DEF CallInv, WorkerRows
  <1>6. ChatAnswered' /\ JobOfStep' /\ ReleasedWasUnused'
    BY <1>0, <1>1 DEF CallInv, ChatAnswered, JobOfStep, ReleasedWasUnused, CallSteps, GroupSteps
  <1> QED
    BY <1>0, <1>4, <1>5, <1>6 DEF CallInv

\* The worker makes its next call, in a row that is open or unknown for good.
LEMMA WorkerCalls == WatchTypes /\ CallInv /\ LoopCall => CallInv' /\ KeepsRows
  <1> SUFFICES ASSUME WatchTypes, CallInv, LoopCall PROVE CallInv' /\ KeepsRows
    OBVIOUS
  <1>0. /\ Group \in Nat /\ Group > 0 /\ res \in Seq(RowType) /\ Last \in Nat
        /\ DOMAIN res = 1 .. Last /\ Base \in Int
        /\ up /\ UNCHANGED <<up, pc, job, answer, verdict, repairs>>
        /\ worker = "ready" /\ worker' = "sent"
        /\ run.calls \in Nat /\ run.calls < Group /\ run'.calls = run.calls + 1
    BY LiteConstants
    DEF WatchTypes, Last, Base, LoopCall, WorkerCall, caller, RunType
  <1> DEFINE k == Base + run.calls
  <1>1. k \in Base .. Last /\ ChangesRow(k, res[k].status, TRUE)
    BY CallsChange DEF CallInv
  <1>2. Last' = Last /\ DOMAIN res' = 1 .. Last /\ Base' = Base
    BY <1>1 DEF ChangesRow, Last, Base
  <1>3. KeepsRows
    BY <1>1, ChangeKeepsRows
  <1>4. /\ Last > Group
        /\ \A i \in Base .. Last : res[i].status \in {"RESERVED", "UNKNOWN"}
        /\ \/ pc \in {"idle", "wait"}
           \/ pc = "group" /\ verdict.calls = Group /\ verdict.results = 0
    BY <1>0 DEF CallInv, WorkerRows
  <1>5. \A i \in 1 .. Last : res'[i].status = res[i].status
    BY <1>1 DEF ChangesRow
  <1>b. \A i \in Base .. Last : i \in 1 .. Last /\ i - Base < Group
    BY <1>0, <1>4 DEF Base
  <1>6. OpenRows'
    BY <1>0, <1>2, <1>4, <1>5, <1>b
    DEF CallInv, OpenRows, Open, CallSteps, GroupSteps
  <1>7. OpenWork'
    <2>1. CASE pc = "wait"
      <3>1. \A i \in Base .. Last : res[i].processed => i - Base < run.calls
        BY <1>0, <2>1 DEF CallInv, OpenWork
      <3>2. \A i \in Base .. Last : res'[i].processed => i - Base < run.calls + 1
        BY <1>0, <1>1, <1>b, <3>1 DEF ChangesRow
      <3> QED
        BY <1>0, <1>2, <2>1, <3>2 DEF OpenWork
    <2>2. CASE pc = "group" /\ verdict.calls = Group
      BY <1>0, <1>2, <1>b, <2>2 DEF OpenWork
    <2>3. CASE pc = "idle"
      BY <1>0, <2>3 DEF OpenWork
    <2> QED
      BY <1>4, <2>1, <2>2, <2>3
  <1>8. WorkerRows'
    BY <1>0, <1>2, <1>4, <1>5, <1>b DEF WorkerRows
  <1>9. ReleasedWasUnused'
    <2> SUFFICES ASSUME NEW i \in 1 .. Last, res'[i].status = "RELEASED"
                 PROVE  ~res'[i].processed
      BY <1>2 DEF ReleasedWasUnused
    <2>1. res[i].status = "RELEASED" /\ i # k
      BY <1>1, <1>4, <1>5
    <2>2. res'[i] = res[i]
      BY <1>1, <2>1 DEF ChangesRow
    <2> QED
      BY <1>0, <2>1, <2>2 DEF CallInv, ReleasedWasUnused
  <1>10. ChatAnswered'
    <2> SUFFICES ASSUME job = "chat", pc \in GroupSteps
                 PROVE  \E j \in 1 .. Last' :
                          /\ res'[j].kind = "chat" /\ res'[j].trace = res'[Last'].trace
                          /\ res'[j].status = "COMMITTED"
      BY <1>0, <1>4 DEF ChatAnswered, CallSteps
    <2>1. PICK j \in 1 .. Last : /\ res[j].kind = "chat" /\ res[j].trace = res[Last].trace
                                 /\ res[j].status = "COMMITTED"
      BY <1>0 DEF CallInv, ChatAnswered, GroupSteps
    <2>2. Last \in 1 .. Last
      BY <1>0, <1>4
    <2> QED
      BY <1>2, <1>3, <2>1, <2>2 DEF KeepsRows
  <1>11. JobOfStep'
    BY <1>0 DEF CallInv, JobOfStep
  <1> QED
    BY <1>0, <1>3, <1>6, <1>7, <1>8, <1>9, <1>10, <1>11 DEF CallInv

\* The other steps of the loop touch the view only.
LEMMA LoopSteps == WatchTypes /\ CallInv /\ LoopStep => CallInv' /\ UNCHANGED <<res, repairs>>
  <1> SUFFICES ASSUME WatchTypes, CallInv, LoopStep
               PROVE  CallInv' /\ UNCHANGED <<res, repairs>>
    OBVIOUS
  <1>1. UNCHANGED <<up, res, repairs, pc, job, answer, verdict>> /\ Last' = Last /\ Base' = Base
    BY DEF LoopStep, liteVars, Last, Base
  <1>2. run'.calls = run.calls
    BY DEF LoopStep, WorkerResult, WorkerFails, EndRun, WatchTypes, RunType
  <1>3. worker' \in {"ready", "sent"} => worker \in {"ready", "sent"}
    BY DEF LoopStep, WorkerResult, WorkerFails, EndRun
  <1> QED
    BY <1>1, <1>2, <1>3
    DEF CallInv, OpenRows, OpenWork, WorkerRows, ChatAnswered, JobOfStep, ReleasedWasUnused,
        Open, Sure
-----------------------------------------------------------------------------
(* The rows of a chat *)

\* A row that is no chat's and no repair's leaves the chats as they are.
LEMMA OtherRowsAppended ==
  ASSUME WatchTypes, ChatRows, NEW n, NEW trace, NEW kind \in {"item", "group"}, NEW t,
         AppendsRows(n, trace, kind, t), UNCHANGED repairs
  PROVE  ChatRows'
  <1>0. /\ Last \in Nat /\ n \in Nat /\ DOMAIN res = 1 .. Last /\ DOMAIN res' = 1 .. (Last + n)
        /\ \A i \in 1 .. Last : res'[i] = res[i]
        /\ \A i \in (Last + 1) .. (Last + n) : res'[i].kind = kind
    BY DEF WatchTypes, Last, AppendsRows, Row
  <1>1. \A i \in DOMAIN res' : res'[i].kind \in {"chat", "repair"} => i \in 1 .. Last
    BY <1>0
  <1>2. \A i \in 1 .. Last : \A j \in 1 .. (i - 1) : res'[j] = res[j]
    BY <1>0
  <1> QED
    BY <1>0, <1>1, <1>2 DEF ChatRows

\* The first row of a chat.
LEMMA ChatRowAppended ==
  ASSUME WatchTypes, ChatRows, NEW c, ~ChatSeen(c), NEW t,
         AppendsRows(1, c, "chat", t), UNCHANGED repairs
  PROVE  ChatRows'
  <1>0. /\ Last \in Nat /\ DOMAIN res = 1 .. Last /\ DOMAIN res' = 1 .. (Last + 1)
        /\ \A i \in 1 .. Last : res'[i] = res[i]
        /\ res'[Last + 1].kind = "chat" /\ res'[Last + 1].trace = c
    BY DEF WatchTypes, Last, AppendsRows, Row
  <1>1. \A i \in 1 .. Last : res[i].trace # c
    BY <1>0 DEF ChatSeen
  <1>2. \A i \in 1 .. Last : \A j \in 1 .. (i - 1) : res'[j] = res[j]
    BY <1>0
  <1>3. \A i \in DOMAIN res' : i \in 1 .. Last \/ i = Last + 1
    BY <1>0
  <1> QED
    BY <1>0, <1>1, <1>2, <1>3 DEF ChatRows

\* The one row of its repair.
LEMMA RepairRowAppended ==
  ASSUME WatchTypes, ChatRows, NEW c, c \notin repairs, NEW t,
         AppendsRows(1, c, "repair", t), repairs' = repairs \cup {c},
         \E j \in 1 .. Last : /\ res[j].kind = "chat" /\ res[j].trace = c
                              /\ res[j].status = "COMMITTED"
  PROVE  ChatRows'
  <1>0. /\ Last \in Nat /\ DOMAIN res = 1 .. Last /\ DOMAIN res' = 1 .. (Last + 1)
        /\ \A i \in 1 .. Last : res'[i] = res[i]
        /\ res'[Last + 1].kind = "repair" /\ res'[Last + 1].trace = c
    BY DEF WatchTypes, Last, AppendsRows, Row
  <1>1. \A i \in 1 .. Last : res[i].kind = "repair" => res[i].trace # c
    BY <1>0 DEF ChatRows
  <1>2. \A i \in 1 .. Last : \A j \in 1 .. (i - 1) : res'[j] = res[j]
    BY <1>0
  <1>3. \A i \in DOMAIN res' : i \in 1 .. Last \/ i = Last + 1
    BY <1>0
  <1>4. \E j \in 1 .. ((Last + 1) - 1) :
          res'[j].kind = "chat" /\ res'[j].trace = c /\ res'[j].status = "COMMITTED"
    BY <1>0
  <1>5. \A i, j \in DOMAIN res' :
          res'[i].trace = res'[j].trace /\ res'[i].kind = res'[j].kind
            /\ res'[i].kind \in {"chat", "repair"} => i = j
    BY <1>0, <1>1, <1>3 DEF ChatRows
  <1>6. \A i \in DOMAIN res' : res'[i].kind = "repair" =>
          /\ res'[i].trace \in repairs'
          /\ \E j \in 1 .. (i - 1) : /\ res'[j].kind = "chat" /\ res'[j].trace = res'[i].trace
                                     /\ res'[j].status = "COMMITTED"
    <2>1. \A i \in 1 .. Last : res'[i].kind = "repair" =>
            /\ res'[i].trace \in repairs'
            /\ \E j \in 1 .. (i - 1) : /\ res'[j].kind = "chat" /\ res'[j].trace = res'[i].trace
                                       /\ res'[j].status = "COMMITTED"
      BY <1>0, <1>2 DEF ChatRows
    <2>2. res'[Last + 1].trace \in repairs'
      BY <1>0
    <2> QED
      BY <1>0, <1>3, <1>4, <2>1, <2>2
  <1> QED
    BY <1>5, <1>6 DEF ChatRows

-----------------------------------------------------------------------------
(* The watch as a whole *)

\* A new watch has no rows.
LEMMA InitWatch == LiteInit => WatchInv
  <1> SUFFICES ASSUME LiteInit PROVE WatchInv
    OBVIOUS
  <1>1. WatchTypes
    <2>1. run \in RunType /\ worker = "none" /\ active \in BOOLEAN
      <3>1. run = NoRun /\ worker = "none" /\ active = FALSE
        BY DEF LiteInit, LoopInit
      <3>2. NoRun \in RunType
        BY LiteConstants DEF NoRun, RunType
      <3> QED
        BY <3>1, <3>2
    <2>2. watch \in WatchType
      <3>1. <<>> \in Seq(ItemType)
        OBVIOUS
      <3> QED
        BY <3>1 DEF LiteInit, WatchType
    <2>3. res \in Seq(RowType)
      BY DEF LiteInit
    <2>4. /\ clock \in Nat /\ now \in Nat /\ items \in Nat /\ up \in BOOLEAN /\ up
          /\ pc = "idle" /\ job = Nil /\ answer = Nil
      BY DEF LiteInit
    <2> QED
      BY <2>1, <2>2, <2>3, <2>4 DEF WatchTypes, CallSteps, GroupSteps
  <1>2. res = <<>> /\ DOMAIN res = {} /\ pc = "idle" /\ worker = "none"
    BY DEF LiteInit, LoopInit
  <1>3. CallInv
    BY <1>2 DEF CallInv, OpenRows, OpenWork, WorkerRows, ChatAnswered, JobOfStep,
       ReleasedWasUnused, CallSteps, GroupSteps
  <1>4. ChatRows
    BY <1>2 DEF ChatRows
  <1>5. RequestsWithinHour
    <2>1. \A t \in 0 .. MaxClock : {i \in DOMAIN res : t - Window < res[i].created
                                                         /\ res[i].created <= t} = {}
      BY <1>2
    <2>2. Cardinality({}) = 0 /\ 0 <= MaxRequests
      BY FS_EmptySet, LiteConstants
    <2> QED
      BY <2>1, <2>2, Zenon DEF RequestsWithinHour
  <1> QED
    BY <1>1, <1>3, <1>4, <1>5 DEF WatchInv

\* No step of the watch, of its worker or of its host breaks the invariant.
LEMMA StepWatch == WatchInv /\ [LiteNext]_watchVars => WatchInv'
  <1> SUFFICES ASSUME WatchInv, [LiteNext]_watchVars PROVE WatchInv'
    OBVIOUS
  <1>0. WatchTypes /\ CallInv /\ OpenRows /\ WorkerRows /\ ChatRows /\ RequestsWithinHour
    BY DEF WatchInv, CallInv
  <1>k. ASSUME WatchTypes', CallInv', KeepsRows, UNCHANGED repairs
        PROVE  WatchInv'
    BY <1>0, <1>k, KeptWithinHour, KeptChatRows DEF WatchInv
  <1>q. ASSUME WatchTypes', CallInv', UNCHANGED <<res, repairs>>
        PROVE  WatchInv'
    <2>1. KeepsRows
      BY <1>q DEF KeepsRows, WatchTypes, Last
    <2> QED
      BY <1>k, <1>q, <2>1
  <1>1. CASE DrainReserves
    <2>1. PICK trace \in Nat : AppendsRows(1, trace, "item", now)
      BY <1>0, <1>1, ReservationsAppend
    <2>2. ChatRows' /\ RequestsWithinHour'
      BY <1>0, <1>1, <2>1, OtherRowsAppended, ReservedWithinHour DEF DrainReserves
    <2> QED
      BY <1>0, <1>1, <2>2, CallTypes, CallReserved DEF WatchInv
  <1>2. ASSUME NEW c \in Chats, Chat(c)
        PROVE  WatchInv'
    <2>1. AppendsRows(1, c, "chat", clock)
      BY <1>0, <1>2, ReservationsAppend
    <2>2. ChatRows' /\ RequestsWithinHour'
      BY <1>0, <1>2, <2>1, ChatRowAppended, ReservedWithinHour DEF Chat
    <2> QED
      BY <1>0, <1>2, <2>2, CallTypes, CallReserved DEF WatchInv
  <1>3. CASE ChatRepairs
    <2>1. AppendsRows(1, res[Last].trace, "repair", clock)
      BY <1>0, <1>3, ReservationsAppend
    <2>2. \E j \in 1 .. Last : /\ res[j].kind = "chat" /\ res[j].trace = res[Last].trace
                               /\ res[j].status = "COMMITTED"
      BY <1>0, <1>3 DEF ChatRepairs, CallInv, JobOfStep, ChatAnswered
    <2>3. ChatRows' /\ RequestsWithinHour'
      BY <1>0, <1>3, <2>1, <2>2, RepairRowAppended, ReservedWithinHour DEF ChatRepairs
    <2> QED
      BY <1>0, <1>3, <2>3, CallTypes, CallReserved DEF WatchInv
  <1>4. CASE GroupReserves
    <2>1. AppendsRows(Group, res[Last].trace, "group", clock)
      BY <1>0, <1>4, ReservationsAppend
    <2>2. ChatRows' /\ RequestsWithinHour'
      BY <1>0, <1>4, <2>1, OtherRowsAppended, ReservedWithinHour DEF GroupReserves
    <2> QED
      BY <1>0, <1>4, <2>2, GroupTypes, GroupReserved DEF WatchInv
  <1>5. CASE \/ CallStopped \/ CallRefused \/ CallSent
             \/ \E a \in {"VALID", "UNKNOWN", "RATE_LIMITED", "REFUSED"} : CallAnswered(a)
             \/ SettleCall
    <2>1. UNCHANGED repairs
      BY <1>5 DEF CallStopped, CallRefused, CallSent, CallAnswered, SettleCall
    <2> QED
      BY <1>0, <1>5, <1>k, <2>1, CallTypes, CallGoesOn
  <1>6. CASE GroupSettles \/ LoopCall
    <2>1. UNCHANGED repairs
      BY <1>6 DEF GroupSettles, LoopCall
    <2> QED
      BY <1>0, <1>6, <1>k, <2>1, GroupTypes, GroupSettled, WorkerCalls
  <1>7. CASE GroupStarts \/ GroupNotStarted \/ GroupWaited \/ GroupTimesOut \/ GroupEnds \/ LoopStep
    BY <1>0, <1>7, <1>q, GroupTypes, GroupRuns, GroupEnded, LoopSteps
  <1>8. CASE \/ TickReconcile \/ TickRegression \/ Tick \/ ProbeFails
             \/ \E d \in Digests : Probe(d)
             \/ DrainDrops \/ DrainWaits
    BY <1>0, <1>8, <1>q, TickTypes, BetweenCalls
  <1>9. CASE ChatEnds \/ ChatCorrects \/ Finish \/ ItemEnds
    BY <1>0, <1>9, <1>q, CallTypes, BetweenCalls
  <1>10. CASE RequestStop \/ ClockMoves
    BY <1>0, <1>10, <1>q, HostTypes, BetweenCalls
  <1>11. CASE Close \/ Crash
    BY <1>0, <1>11, <1>q, HostTypes, ProcessEnds
  <1>12. CASE Restart
    BY <1>0, <1>12, <1>k, RestartTypes, RestartKeepsRows, ProcessRestarts DEF Restart
  <1>13. CASE UNCHANGED watchVars
    BY <1>0, <1>13
    DEF watchVars, loopVars, liteVars, WatchInv, WatchTypes, CallInv, OpenRows, OpenWork,
        WorkerRows, ChatAnswered, JobOfStep, ReleasedWasUnused, ChatRows, RequestsWithinHour,
        Last, Base, Open, Sure
  <1> QED
    BY <1>1, <1>2, <1>3, <1>4, <1>5, <1>6, <1>7, <1>8, <1>9, <1>10, <1>11, <1>12, <1>13
    DEF LiteNext

\* One row of each kind is what ChatRows says, counted.
LEMMA ChatsCounted == WatchInv => ChatOnce
  <1> SUFFICES ASSUME WatchInv, NEW c \in Chats
               PROVE  LET of(kind) == {i \in DOMAIN res : res[i].trace = c /\ res[i].kind = kind}
                      IN  /\ Cardinality(of("chat")) <= 1 /\ Cardinality(of("repair")) <= 1
                          /\ \A i \in of("repair") :
                               \E j \in of("chat") : j < i /\ res[j].status = "COMMITTED"
    BY DEF ChatOnce
  <1> DEFINE of(kind) == {i \in DOMAIN res : res[i].trace = c /\ res[i].kind = kind}
  <1>0. Last \in Nat /\ DOMAIN res = 1 .. Last /\ ChatRows
    BY DEF WatchInv, WatchTypes, Last
  <1>1. ASSUME NEW kind \in {"chat", "repair"}
        PROVE  Cardinality(of(kind)) <= 1
    <2>1. of(kind) = {} \/ \E i \in of(kind) : of(kind) = {i}
      BY <1>0 DEF ChatRows
    <2>2. Cardinality({}) = 0 /\ \A i : Cardinality({i}) = 1
      BY FS_EmptySet, FS_Singleton
    <2> HIDE DEF of
    <2>3. Cardinality(of(kind)) = 0 \/ Cardinality(of(kind)) = 1
      BY <2>1, <2>2
    <2> QED
      BY <2>3
  <1>2. ASSUME NEW i \in of("repair")
        PROVE  \E j \in of("chat") : j < i /\ res[j].status = "COMMITTED"
    <2>1. PICK j \in 1 .. (i - 1) :
            res[j].kind = "chat" /\ res[j].trace = c /\ res[j].status = "COMMITTED"
      BY <1>0 DEF ChatRows
    <2> QED
      BY <1>0, <2>1
  <1> QED
    BY <1>1, <1>2

\* When a call is sent, what an earlier call was worked on for is known.
LEMMA SendIsSure ==
  ASSUME WatchInv, CallSent
  PROVE  \A i \in 1 .. (Last - 1) : res[i].processed => res[i].status = "COMMITTED"
  BY DEF WatchInv, CallInv, OpenRows, ReleasedWasUnused, CallSent, CallSteps, Sure, WatchTypes, Last

-----------------------------------------------------------------------------
(* Theorems *)

\* The watch keeps its invariant in every reachable state.
LEMMA WatchSafety == LiteSpec => []WatchInv
  BY InitWatch, StepWatch, PTL DEF LiteSpec

\* Budget is given back only for calls the provider never worked on, through lost answers,
\* stops, crashes, retries and a critical loop whose worker outlives its run.
THEOREM WatchReleasesUnused == LiteSpec => []ReleasedWasUnused
  <1>1. WatchInv => ReleasedWasUnused
    BY DEF WatchInv, CallInv
  <1> QED
    BY <1>1, WatchSafety, PTL

\* No hour holds more calls than the policy allows, however the clock is set.
THEOREM WatchWithinHour == LiteSpec => []RequestsWithinHour
  <1>1. WatchInv => RequestsWithinHour
    BY DEF WatchInv
  <1> QED
    BY <1>1, WatchSafety, PTL

\* A chat is asked once and repaired once over all restarts, and only after an answer.
THEOREM WatchAsksOnce == LiteSpec => []ChatOnce
  BY ChatsCounted, WatchSafety, PTL

\* No call is sent while an earlier one may have been worked on without a known answer.
THEOREM WatchStopsWhenUncertain == LiteSpec => NoCallAfterUncertain
  <1>1. WatchInv /\ [LiteNext]_watchVars =>
          [CallSent => \A i \in 1 .. (Last - 1) :
             res[i].processed => res[i].status = "COMMITTED"]_watchVars
    BY SendIsSure
  <1> QED
    BY <1>1, WatchSafety, PTL DEF LiteSpec, NoCallAfterUncertain
=============================================================================
