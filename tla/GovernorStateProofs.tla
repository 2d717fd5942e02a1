------------------------- MODULE GovernorStateProofs -------------------------
(***************************************************************************)
(* Facts about the transitions of GovernorState, for every value of the    *)
(* constants: each of them keeps the snapshot well formed.                 *)
(***************************************************************************)
EXTENDS GovernorState, TLAPS

\* Every request has its id, task and provider among Ids, Tasks and Providers.
LEMMA RequestParts ==
  ASSUME NEW q \in Requests
  PROVE  q.id \in Ids /\ q.provider \in Providers /\ q.task \in Tasks
  BY DEF Ids, Providers, Tasks

\* The snapshot a fresh namespace starts from is well formed.
LEMMA InitialOK == SnapshotOK(Initial)
  BY PolicyAssumption, BoundsAssumption
  DEF SnapshotOK, SnapshotType, Initial, Absent, EntryType, CircuitType, FreshCircuit,
      Ceilings, Reserved, Has, Time

\* The reservations of a well-formed snapshot belong to known providers.
LEMMA ReservedParts ==
  ASSUME NEW g, SnapshotOK(g), NEW i \in Reserved(g)
  PROVE  /\ i \in Ids
         /\ g.reservations[i].request.provider \in Providers
  BY RequestParts DEF SnapshotOK, Reserved

-----------------------------------------------------------------------------
(* Circuits *)

\* Admitting a reservation yields a circuit.
LEMMA AdmittedType ==
  ASSUME NEW c \in CircuitType, NEW id \in Ids
  PROVE  Admitted(c, id) \in CircuitType
  BY DEF CircuitType, Admitted

\* Counting a failure yields a circuit.
LEMMA FailedType ==
  ASSUME NEW c \in CircuitType, NEW now \in Time
  PROVE  Failed(c, now) \in CircuitType
  <1>1. c.failures + 1 \in Nat
    BY DEF CircuitType
  <1>2. [c EXCEPT !.failures = c.failures + 1, !.successes = 0] \in CircuitType
    BY <1>1 DEF CircuitType
  <1>3. [state |-> "OPEN", failures |-> c.failures + 1, successes |-> 0,
         opened_at |-> now, probe |-> None] \in CircuitType
    BY <1>1 DEF CircuitType
  <1> QED
    BY <1>2, <1>3 DEF Failed

\* Counting a success yields a circuit.
LEMMA SucceededType ==
  ASSUME NEW c \in CircuitType, NEW id \in Ids, NEW direct \in BOOLEAN
  PROVE  Succeeded(c, id, direct) \in CircuitType
  <1>1. c.successes + 1 \in Nat
    BY DEF CircuitType
  <1>2. [c EXCEPT !.successes = c.successes + 1, !.probe = None] \in CircuitType
    BY <1>1 DEF CircuitType
  <1>3. [c EXCEPT !.state = "CLOSED", !.failures = 0, !.successes = 0, !.probe = None]
          \in CircuitType
    BY DEF CircuitType
  <1>4. [c EXCEPT !.failures = 0] \in CircuitType
    BY DEF CircuitType
  <1> QED
    BY <1>2, <1>3, <1>4 DEF Succeeded, ProbeSucceeded

\* Reopening yields a circuit.
LEMMA ReopenedType ==
  ASSUME NEW c \in CircuitType, NEW now \in Time
  PROVE  Reopened(c, now) \in CircuitType
  BY DEF CircuitType, Reopened

-----------------------------------------------------------------------------
(* Snapshots *)

\* Recording an outcome and its evidence yields an entry.
LEMMA ResolvedType ==
  ASSUME NEW en \in EntryType, NEW st \in ReservationState, NEW ev \in Evidence
  PROVE  /\ Resolved(en, st, ev) \in EntryType
         /\ Resolved(en, st, ev).request = en.request
         /\ Resolved(en, st, ev).epoch = en.epoch
         /\ Resolved(en, st, ev).state = st
  BY DEF EntryType, Resolved

\* A transition that replaces one entry and one circuit keeps the snapshot well formed.
LEMMA UpdateKeepsOK ==
  ASSUME NEW g, SnapshotOK(g), NEW h \in SnapshotType, NEW id \in Ids,
         h.epoch = g.epoch,
         \A i \in Ids \ {id} : h.reservations[i] = g.reservations[i],
         h.reservations[id].request \in Requests,
         h.reservations[id].request.id = id,
         h.reservations[id].epoch \in 1 .. g.epoch
  PROVE  SnapshotOK(h)
  BY DEF SnapshotOK, Reserved, Has

\* _write keeps a well-formed snapshot well formed.
LEMMA WrittenOK ==
  ASSUME NEW b, NEW g, SnapshotOK(b), SnapshotOK(g), NEW now \in Time
  PROVE  SnapshotOK(Written(b, g, now))
  <1> DEFINE g1 == [g EXCEPT !.version = b.version + 1]
  <1>1. g1 \in SnapshotType /\ g1.reservations = g.reservations /\ g1.epoch = g.epoch
    BY DEF SnapshotOK, SnapshotType
  <1>2. Written(b, g, now) = [g1 EXCEPT !.last_now = now]
    BY Zenon DEF Written
  <1> HIDE DEF g1
  <1>3. /\ [g1 EXCEPT !.last_now = now] \in SnapshotType
        /\ [g1 EXCEPT !.last_now = now].reservations = g.reservations
        /\ [g1 EXCEPT !.last_now = now].epoch = g.epoch
    BY <1>1 DEF SnapshotType
  <1> QED
    BY <1>2, <1>3 DEF SnapshotOK, Reserved, Has

\* _reserve_state files the new entry under its id.
LEMMA ReserveKeepsOK ==
  ASSUME NEW g, SnapshotOK(g), NEW q \in Requests, NEW e \in Nat,
         NEW now \in Time, ReserveOK(g, q, e, now)
  PROVE  SnapshotOK(Reserve(g, q, e))
  <1> DEFINE en == [request |-> q, epoch |-> e, state |-> "RESERVED", evidence |-> None]
  <1>1. q.id \in Ids /\ q.provider \in Providers
    BY RequestParts
  <1>2. Admitted(g.circuits[q.provider], q.id) \in CircuitType
    BY <1>1, AdmittedType DEF SnapshotOK, SnapshotType
  <1>3. en \in EntryType
    BY DEF EntryType, ReservationState
  <1>4. Reserve(g, q, e) \in SnapshotType
    BY <1>1, <1>2, <1>3 DEF Reserve, SnapshotOK, SnapshotType
  <1>5. \A i \in Ids : Reserve(g, q, e).reservations[i] =
                         IF i = q.id THEN en ELSE g.reservations[i]
    BY <1>1 DEF Reserve, SnapshotOK, SnapshotType
  <1>6. Reserve(g, q, e).epoch = g.epoch /\ e \in 1 .. g.epoch
    BY DEF Reserve, ReserveOK, EpochOK, SnapshotOK, SnapshotType
  <1> QED
    BY <1>1, <1>4, <1>5, <1>6, UpdateKeepsOK

\* _dispatch_state changes the state of one reservation only.
LEMMA DispatchKeepsOK ==
  ASSUME NEW g, SnapshotOK(g), NEW id \in Ids, Has(g, id)
  PROVE  SnapshotOK(Dispatch(g, id))
  <1>1. Dispatch(g, id) \in SnapshotType
    <2>1. g \in SnapshotType /\ g.reservations[id] \in EntryType
      BY DEF SnapshotOK, SnapshotType
    <2>2. [g.reservations[id] EXCEPT !.state = "DISPATCHED"] \in EntryType
      BY <2>1 DEF EntryType, ReservationState
    <2> QED
      BY <2>1, <2>2 DEF SnapshotType, Dispatch
  <1>2. /\ Dispatch(g, id).epoch = g.epoch
        /\ \A i \in Ids \ {id} : Dispatch(g, id).reservations[i] = g.reservations[i]
        /\ Dispatch(g, id).reservations[id].request = g.reservations[id].request
        /\ Dispatch(g, id).reservations[id].epoch = g.reservations[id].epoch
    BY DEF SnapshotOK, SnapshotType, Dispatch, EntryType
  <1>3. id \in Reserved(g)
    BY DEF Reserved
  <1> QED
    BY <1>1, <1>2, <1>3, UpdateKeepsOK DEF SnapshotOK

\* release_not_dispatched keeps the snapshot well formed.
LEMMA ReleaseKeepsOK ==
  ASSUME NEW g, SnapshotOK(g), NEW id \in Ids, Has(g, id)
  PROVE  SnapshotOK(Release(g, id))
  <1> DEFINE p == g.reservations[id].request.provider
             c == [g.circuits[p] EXCEPT !.probe = IF @ = id THEN None ELSE @]
             r == [g.reservations[id] EXCEPT !.state = "RELEASED"]
             h == Release(g, id)
  <1>0. /\ id \in Reserved(g) /\ g \in SnapshotType
        /\ g.reservations[id] \in EntryType
    BY DEF Reserved, SnapshotOK, SnapshotType
  <1>1. p \in Providers
    BY <1>0, ReservedParts
  <1>h. /\ h.epoch = g.epoch
        /\ \A i \in Ids \ {id} : h.reservations[i] = g.reservations[i]
        /\ h.reservations[id] = r
    BY <1>0 DEF SnapshotType, Release
  <1>2. h = [g EXCEPT !.reservations[id] = r, !.circuits[p] = c]
    BY <1>0, <1>1 DEF Release, Entry, SnapshotType
  <1> HIDE DEF p, h
  <1>3. c \in CircuitType
    BY <1>0, <1>1 DEF CircuitType, SnapshotType
  <1>4. r \in EntryType /\ r.request = g.reservations[id].request
        /\ r.epoch = g.reservations[id].epoch
    BY <1>0 DEF EntryType, ReservationState
  <1> HIDE DEF c, r
  <1>5. h \in SnapshotType
    BY <1>0, <1>1, <1>2, <1>3, <1>4 DEF SnapshotType
  <1> QED
    BY <1>0, <1>4, <1>5, <1>h, UpdateKeepsOK DEF SnapshotOK, h

\* _unknown_state keeps the snapshot well formed.
LEMMA MarkUnknownKeepsOK ==
  ASSUME NEW g, SnapshotOK(g), NEW id \in Ids, Has(g, id),
         NEW ev \in Evidence, NEW now \in Time
  PROVE  SnapshotOK(MarkUnknown(g, id, ev, now))
  <1> DEFINE p == g.reservations[id].request.provider
             h == MarkUnknown(g, id, ev, now)
  <1>1. p \in Providers /\ id \in Reserved(g)
    BY ReservedParts DEF Reserved
  <1>2. Failed(g.circuits[p], now) \in CircuitType
    BY <1>1, FailedType DEF SnapshotOK, SnapshotType
  <1>3. Resolved(g.reservations[id], "UNKNOWN", ev) \in EntryType
    BY ResolvedType DEF ReservationState, SnapshotOK, SnapshotType
  <1>4. h \in SnapshotType
    BY <1>1, <1>2, <1>3 DEF MarkUnknown, Entry, SnapshotOK, SnapshotType
  <1>5. /\ h.epoch = g.epoch
        /\ \A i \in Ids \ {id} : h.reservations[i] = g.reservations[i]
        /\ h.reservations[id].request = g.reservations[id].request
        /\ h.reservations[id].epoch = g.reservations[id].epoch
    BY ResolvedType DEF SnapshotOK, SnapshotType, MarkUnknown, ReservationState
  <1> QED
    BY <1>1, <1>4, <1>5, UpdateKeepsOK DEF SnapshotOK

\* _settle_state keeps the snapshot well formed.
LEMMA SettleKeepsOK ==
  ASSUME NEW g, SnapshotOK(g), NEW id \in Ids, Has(g, id), NEW ev \in Evidence
  PROVE  SnapshotOK(Settle(g, id, ev))
  <1> DEFINE p == g.reservations[id].request.provider
             d == g.reservations[id].state = "DISPATCHED"
             h == Settle(g, id, ev)
  <1>1. p \in Providers /\ id \in Reserved(g)
    BY ReservedParts DEF Reserved
  <1>2. Succeeded(g.circuits[p], id, d) \in CircuitType
    BY <1>1, SucceededType DEF SnapshotOK, SnapshotType
  <1>3. Resolved(g.reservations[id], "COMMITTED", ev) \in EntryType
    BY ResolvedType DEF ReservationState, SnapshotOK, SnapshotType
  <1>4. h \in SnapshotType
    BY <1>1, <1>2, <1>3 DEF Settle, Entry, SnapshotOK, SnapshotType
  <1>5. /\ h.epoch = g.epoch
        /\ \A i \in Ids \ {id} : h.reservations[i] = g.reservations[i]
        /\ h.reservations[id].request = g.reservations[id].request
        /\ h.reservations[id].epoch = g.reservations[id].epoch
    BY ResolvedType DEF SnapshotOK, SnapshotType, Settle, ReservationState
  <1> QED
    BY <1>1, <1>4, <1>5, UpdateKeepsOK DEF SnapshotOK

\* start_epoch keeps the snapshot well formed.
LEMMA StartEpochKeepsOK ==
  ASSUME NEW g, SnapshotOK(g), NEW now \in Time
  PROVE  SnapshotOK(StartEpoch(g, now))
  <1> DEFINE cs == [p \in Providers |-> Reopened(g.circuits[p], now)]
  <1>1. cs \in [Providers -> CircuitType]
    BY ReopenedType DEF SnapshotOK, SnapshotType
  <1>2. g.epoch + 1 \in Nat
    BY DEF SnapshotOK, SnapshotType
  <1> HIDE DEF cs
  <1>3. [g EXCEPT !.epoch = g.epoch + 1, !.circuits = cs] \in SnapshotType
    BY <1>1, <1>2 DEF SnapshotOK, SnapshotType
  <1>4. StartEpoch(g, now) = [g EXCEPT !.epoch = g.epoch + 1, !.circuits = cs]
    BY DEF StartEpoch, cs
  <1>5. /\ StartEpoch(g, now).reservations = g.reservations
        /\ StartEpoch(g, now).epoch = g.epoch + 1
    BY <1>4 DEF SnapshotOK, SnapshotType
  <1> QED
    BY <1>3, <1>4, <1>5 DEF SnapshotOK, SnapshotType, Reserved, Has
-----------------------------------------------------------------------------
(* What each transition does to the fields of a snapshot *)

\* _write changes the version and the clock.
LEMMA WrittenFields ==
  ASSUME NEW b, NEW g \in SnapshotType, NEW now
  PROVE  LET h == Written(b, g, now)
         IN  /\ h.reservations = g.reservations
             /\ h.circuits = g.circuits
             /\ h.epoch = g.epoch
             /\ h.kill = g.kill
             /\ h.ceiling = g.ceiling
  <1> DEFINE g1 == [g EXCEPT !.version = b.version + 1]
             h  == [g1 EXCEPT !.last_now = now]
  <1>1. Written(b, g, now) = h
    BY Zenon DEF Written
  <1>2. /\ g1 = [g EXCEPT !.version = g1.version]
        /\ g1.reservations = g.reservations /\ g1.circuits = g.circuits
        /\ g1.epoch = g.epoch /\ g1.kill = g.kill /\ g1.ceiling = g.ceiling
    BY DEF SnapshotType
  <1>3. /\ h.reservations = g.reservations /\ h.circuits = g.circuits
        /\ h.epoch = g.epoch /\ h.kill = g.kill /\ h.ceiling = g.ceiling
    BY <1>2 DEF SnapshotType
  <1> QED
    BY <1>1, <1>3

\* _reserve_state adds one entry and lets its provider's circuit admit it.
LEMMA ReserveFields ==
  ASSUME NEW g, SnapshotOK(g), NEW q \in Requests, NEW e
  PROVE  LET h == Reserve(g, q, e)
         IN  /\ h.reservations = [g.reservations EXCEPT ![q.id] =
                    [request |-> q, epoch |-> e, state |-> "RESERVED", evidence |-> None]]
             /\ h.circuits = [g.circuits EXCEPT ![q.provider] =
                                Admitted(g.circuits[q.provider], q.id)]
             /\ h.epoch = g.epoch /\ h.kill = g.kill
  BY RequestParts DEF Reserve, SnapshotOK, SnapshotType

\* _dispatch_state changes one entry and no circuit.
LEMMA DispatchFields ==
  ASSUME NEW g, SnapshotOK(g), NEW id \in Ids
  PROVE  LET h == Dispatch(g, id)
         IN  /\ h.reservations = [g.reservations EXCEPT ![id].state = "DISPATCHED"]
             /\ h.circuits = g.circuits
             /\ h.epoch = g.epoch /\ h.kill = g.kill
  BY DEF Dispatch, SnapshotOK, SnapshotType

\* A circuit whose probe slot is freed if id holds it.
Freed(c, id) == [c EXCEPT !.probe = IF c.probe = id THEN None ELSE c.probe]

\* A reservation entry in the state RELEASED.
AsReleased(entry) == [entry EXCEPT !.state = "RELEASED"]

\* release_not_dispatched changes one entry and may free the probe slot.
LEMMA ReleaseFields ==
  ASSUME NEW g, SnapshotOK(g), NEW id \in Ids, Has(g, id)
  PROVE  LET h == Release(g, id)
             p == g.reservations[id].request.provider
         IN  /\ h.reservations = [g.reservations EXCEPT ![id] = AsReleased(g.reservations[id])]
             /\ h.circuits = [g.circuits EXCEPT ![p] = Freed(g.circuits[p], id)]
             /\ h.epoch = g.epoch /\ h.kill = g.kill
  <1>1. g.reservations[id].request.provider \in Providers
    BY ReservedParts DEF Reserved
  <1> QED
    BY <1>1 DEF Release, AsReleased, Freed, Entry, SnapshotOK, SnapshotType

\* _unknown_state changes one entry and counts a failure.
LEMMA MarkUnknownFields ==
  ASSUME NEW g, SnapshotOK(g), NEW id \in Ids, Has(g, id), NEW ev, NEW now,
         NEW p, p = g.reservations[id].request.provider
  PROVE  LET h == MarkUnknown(g, id, ev, now)
         IN  /\ h.reservations = [g.reservations EXCEPT ![id] =
                  Resolved(g.reservations[id], "UNKNOWN", ev)]
             /\ h.circuits = [g.circuits EXCEPT ![p] = Failed(g.circuits[p], now)]
             /\ h.epoch = g.epoch /\ h.kill = g.kill
  <1>1. g.reservations[id].request.provider \in Providers
    BY ReservedParts DEF Reserved
  <1> QED
    BY <1>1 DEF MarkUnknown, Entry, SnapshotOK, SnapshotType

\* _settle_state changes one entry and may count a success.
LEMMA SettleFields ==
  ASSUME NEW g, SnapshotOK(g), NEW id \in Ids, Has(g, id), NEW ev,
         NEW p, p = g.reservations[id].request.provider
  PROVE  LET h == Settle(g, id, ev)
         IN  /\ h.reservations = [g.reservations EXCEPT ![id] =
                  Resolved(g.reservations[id], "COMMITTED", ev)]
             /\ h.circuits = [g.circuits EXCEPT ![p] =
                  Succeeded(g.circuits[p], id, g.reservations[id].state = "DISPATCHED")]
             /\ h.epoch = g.epoch /\ h.kill = g.kill
  <1>1. g.reservations[id].request.provider \in Providers
    BY ReservedParts DEF Reserved
  <1> QED
    BY <1>1 DEF Settle, Entry, SnapshotOK, SnapshotType

\* start_epoch moves the epoch and reopens half-open circuits.
LEMMA StartEpochFields ==
  ASSUME NEW g, SnapshotOK(g), NEW now
  PROVE  LET h == StartEpoch(g, now)
         IN  /\ h.reservations = g.reservations
             /\ h.circuits = [p \in Providers |-> Reopened(g.circuits[p], now)]
             /\ h.epoch = g.epoch + 1 /\ h.kill = g.kill
  BY DEF StartEpoch, SnapshotOK, SnapshotType
-----------------------------------------------------------------------------
(* What each method stores: the snapshot _write appends after a transition *)

\* The larger of two clock readings is one of them.
LEMMA MaxOfTwo ==
  ASSUME NEW a \in Time, NEW b \in Time \cup {-1}
  PROVE  Max({a, b}) \in Time /\ Max({a, b}) >= b
  <1>1. \E x \in {a, b} : \A y \in {a, b} : x >= y
    BY BoundsAssumption DEF Time
  <1>2. Max({a, b}) \in {a, b} /\ \A y \in {a, b} : Max({a, b}) >= y
    BY <1>1 DEF Max
  <1> QED
    BY <1>2, BoundsAssumption DEF Time

\* A well-formed snapshot is stored as it is, but for its version and clock.
LEMMA Saved ==
  ASSUME NEW g, SnapshotOK(g), NEW g1, SnapshotOK(g1), NEW now \in Time
  PROVE  LET h == Written(g, g1, now)
         IN  /\ SnapshotOK(h)
             /\ h.reservations = g1.reservations
             /\ h.epoch = g1.epoch /\ h.kill = g1.kill
  <1>1. g1 \in SnapshotType
    BY DEF SnapshotOK
  <1>2. SnapshotOK(Written(g, g1, now))
    BY WrittenOK
  <1> QED
    BY <1>1, <1>2, WrittenFields

\* reserve stores a new RESERVED entry.
LEMMA ReserveSaved ==
  ASSUME NEW g, SnapshotOK(g), NEW q \in Requests, NEW e \in Nat, NEW n1 \in Time,
         NEW n2 \in Time, ReserveOK(g, q, e, n1)
  PROVE  LET h == Written(g, Reserve(g, q, e), n2)
         IN  /\ SnapshotOK(h)
             /\ h.reservations = [g.reservations EXCEPT ![q.id] =
                    [request |-> q, epoch |-> e, state |-> "RESERVED", evidence |-> None]]
             /\ h.epoch = g.epoch /\ h.kill = g.kill
  <1>1. SnapshotOK(Reserve(g, q, e))
    BY ReserveKeepsOK
  <1>2. LET h == Written(g, Reserve(g, q, e), n2)
        IN  /\ SnapshotOK(h)
            /\ h.reservations = Reserve(g, q, e).reservations
            /\ h.epoch = Reserve(g, q, e).epoch /\ h.kill = Reserve(g, q, e).kill
    BY <1>1, Saved
  <1>3. LET h == Reserve(g, q, e)
        IN  /\ h.reservations = [g.reservations EXCEPT ![q.id] =
                  [request |-> q, epoch |-> e, state |-> "RESERVED", evidence |-> None]]
            /\ h.epoch = g.epoch /\ h.kill = g.kill
    BY RequestParts DEF Reserve, SnapshotOK, SnapshotType
  <1> QED
    BY <1>2, <1>3

\* dispatch_commit stores the entry as DISPATCHED.
LEMMA DispatchSaved ==
  ASSUME NEW g, SnapshotOK(g), NEW id \in Ids, Has(g, id), NEW now \in Time
  PROVE  LET h == Written(g, Dispatch(g, id), now)
         IN  /\ SnapshotOK(h)
             /\ h.reservations = [g.reservations EXCEPT ![id].state = "DISPATCHED"]
             /\ h.epoch = g.epoch /\ h.kill = g.kill
  <1>1. SnapshotOK(Dispatch(g, id))
    BY DispatchKeepsOK
  <1>2. LET h == Written(g, Dispatch(g, id), now)
        IN  /\ SnapshotOK(h)
            /\ h.reservations = Dispatch(g, id).reservations
            /\ h.epoch = Dispatch(g, id).epoch /\ h.kill = Dispatch(g, id).kill
    BY <1>1, Saved
  <1> QED
    BY <1>2, DispatchFields

\* release_not_dispatched stores the entry as RELEASED.
LEMMA ReleaseSaved ==
  ASSUME NEW g, SnapshotOK(g), NEW id \in Ids, Has(g, id), NEW now \in Time
  PROVE  LET h == Written(g, Release(g, id), now)
         IN  /\ SnapshotOK(h)
             /\ h.reservations = [g.reservations EXCEPT ![id] = AsReleased(g.reservations[id])]
             /\ h.epoch = g.epoch /\ h.kill = g.kill
  <1>1. SnapshotOK(Release(g, id))
    BY ReleaseKeepsOK
  <1>2. LET h == Written(g, Release(g, id), now)
        IN  /\ SnapshotOK(h)
            /\ h.reservations = Release(g, id).reservations
            /\ h.epoch = Release(g, id).epoch /\ h.kill = Release(g, id).kill
    BY <1>1, Saved
  <1> QED
    BY <1>2, ReleaseFields

\* mark_unknown stores the entry as UNKNOWN, with the evidence.
LEMMA MarkUnknownSaved ==
  ASSUME NEW g, SnapshotOK(g), NEW id \in Ids, Has(g, id), NEW ev \in Evidence,
         NEW n1 \in Time, NEW n2 \in Time
  PROVE  LET h == Written(g, MarkUnknown(g, id, ev, n1), n2)
         IN  /\ SnapshotOK(h)
             /\ h.reservations = [g.reservations EXCEPT ![id] =
                    Resolved(g.reservations[id], "UNKNOWN", ev)]
             /\ h.epoch = g.epoch /\ h.kill = g.kill
  <1>1. SnapshotOK(MarkUnknown(g, id, ev, n1))
    BY MarkUnknownKeepsOK
  <1>2. LET h == Written(g, MarkUnknown(g, id, ev, n1), n2)
        IN  /\ SnapshotOK(h)
            /\ h.reservations = MarkUnknown(g, id, ev, n1).reservations
            /\ h.epoch = MarkUnknown(g, id, ev, n1).epoch /\ h.kill = MarkUnknown(g, id, ev, n1).kill
    BY <1>1, Saved
  <1>3. LET h == MarkUnknown(g, id, ev, n1)
        IN  /\ h.reservations = [g.reservations EXCEPT ![id] =
                  Resolved(g.reservations[id], "UNKNOWN", ev)]
            /\ h.epoch = g.epoch /\ h.kill = g.kill
    <2>1. g.reservations[id].request.provider \in Providers
      BY ReservedParts DEF Reserved
    <2> QED
      BY <2>1 DEF MarkUnknown, Entry, SnapshotOK, SnapshotType
  <1> QED
    BY <1>2, <1>3

\* settle stores the entry as COMMITTED, with the evidence.
LEMMA SettleSaved ==
  ASSUME NEW g, SnapshotOK(g), NEW id \in Ids, Has(g, id), NEW ev \in Evidence,
         NEW now \in Time
  PROVE  LET h == Written(g, Settle(g, id, ev), now)
         IN  /\ SnapshotOK(h)
             /\ h.reservations = [g.reservations EXCEPT ![id] =
                    Resolved(g.reservations[id], "COMMITTED", ev)]
             /\ h.epoch = g.epoch /\ h.kill = g.kill
  <1>1. SnapshotOK(Settle(g, id, ev))
    BY SettleKeepsOK
  <1>2. LET h == Written(g, Settle(g, id, ev), now)
        IN  /\ SnapshotOK(h)
            /\ h.reservations = Settle(g, id, ev).reservations
            /\ h.epoch = Settle(g, id, ev).epoch /\ h.kill = Settle(g, id, ev).kill
    BY <1>1, Saved
  <1>3. LET h == Settle(g, id, ev)
        IN  /\ h.reservations = [g.reservations EXCEPT ![id] =
                  Resolved(g.reservations[id], "COMMITTED", ev)]
            /\ h.epoch = g.epoch /\ h.kill = g.kill
    <2>1. g.reservations[id].request.provider \in Providers
      BY ReservedParts DEF Reserved
    <2> QED
      BY <2>1 DEF Settle, Entry, SnapshotOK, SnapshotType
  <1> QED
    BY <1>2, <1>3

\* start_epoch stores the next epoch and no entry.
LEMMA StartEpochSaved ==
  ASSUME NEW g, SnapshotOK(g), NEW n1 \in Time, NEW n2 \in Time
  PROVE  LET h == Written(g, StartEpoch(g, n1), n2)
         IN  /\ SnapshotOK(h)
             /\ h.reservations = g.reservations
             /\ h.epoch = g.epoch + 1 /\ h.kill = g.kill
  <1>1. SnapshotOK(StartEpoch(g, n1))
    BY StartEpochKeepsOK
  <1>2. LET h == Written(g, StartEpoch(g, n1), n2)
        IN  /\ SnapshotOK(h)
            /\ h.reservations = StartEpoch(g, n1).reservations
            /\ h.epoch = StartEpoch(g, n1).epoch /\ h.kill = StartEpoch(g, n1).kill
    BY <1>1, Saved
  <1> QED
    BY <1>2, StartEpochFields

\* set_kill stores the switch and no entry.
LEMMA SetKillSaved ==
  ASSUME NEW g, SnapshotOK(g), NEW active \in BOOLEAN, NEW now \in Time
  PROVE  LET h == Written(g, [g EXCEPT !.kill = active], now)
         IN  /\ SnapshotOK(h)
             /\ h.reservations = g.reservations
             /\ h.epoch = g.epoch /\ h.kill = active
  <1> DEFINE k == [g EXCEPT !.kill = active]
  <1>1. k \in SnapshotType /\ k.reservations = g.reservations /\ k.epoch = g.epoch
        /\ k.kill = active
    BY DEF SnapshotOK, SnapshotType
  <1>2. SnapshotOK(k)
    BY <1>1 DEF SnapshotOK, Reserved, Has
  <1> HIDE DEF k
  <1>3. LET h == Written(g, k, now)
        IN  SnapshotOK(h) /\ h.reservations = k.reservations /\ h.epoch = k.epoch
            /\ h.kill = k.kill
    BY <1>2, Saved
  <1> QED
    BY <1>1, <1>3 DEF k
=============================================================================
