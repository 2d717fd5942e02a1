---------------------------- MODULE GovernorState ----------------------------
(***************************************************************************)
(* The durable state of CoreDualGovernor (runtime/mission/governor.py) and *)
(* the pure transitions on it.  The governor keeps one snapshot per write; *)
(* `g' below is the snapshot that _load returns.  The same transitions are *)
(* run by the governor's own methods (module Governor), by the advisory    *)
(* jobs (module Jobs) and by the effect-intent journal (module             *)
(* IntentJournal), each inside its own transaction, so they are operators  *)
(* on a snapshot and not actions.                                          *)
(*                                                                         *)
(* A transition is split as the code's _deny calls split it: XxxOK is the  *)
(* conjunction of the conditions the code denies on, Xxx is the snapshot   *)
(* the code hands to _write.                                               *)
(***************************************************************************)
EXTENDS Integers, FiniteSets, FiniteSetsExt

CONSTANTS
  Requests,          \* the ReservationRequest values callers may present
  Evidence,          \* the evidence digests callers may present
  LimitMoney,        \* GovernorPolicy money ceilings, by level
  LimitRisk,         \* GovernorPolicy risk ceilings, by level
  Threshold,         \* failure_threshold
  Cooldown,          \* cooldown_seconds
  Recovery,          \* recovery_successes
  MaxStep,           \* max_clock_step_seconds
  MaxAmount,         \* MAX_AMOUNT, 2^63-1 in the code
  HistoryLimit,      \* snapshots _load can read: 1024 in the code
  MaxReservations,   \* 128 in the code
  MaxCircuits,       \* 32 in the code
  MaxTime            \* largest clock sample, 2^53 in the code

\* The value None of the code, for a probe or an evidence digest.
None == "None"

\* A money ceiling of None: no money limit at this level.
Unlimited == -1

Levels == {"task", "owner_provider", "global"}

Ids       == {q.id : q \in Requests}
Tasks     == {q.task : q \in Requests}
Providers == {q.provider : q \in Requests}
Time      == 0 .. MaxTime

Ceilings == [Levels -> Nat \cup {Unlimited}]

ASSUME RequestsAssumption ==
  /\ \A q \in Requests : DOMAIN q = {"id", "task", "provider", "money", "risk"}
  /\ \A q \in Requests : q.money \in Nat /\ q.risk \in Nat
  /\ None \notin Ids
  /\ None \notin Evidence

ASSUME PolicyAssumption ==
  /\ LimitMoney \in [Levels -> Nat]
  /\ LimitRisk \in [Levels -> Nat]
  /\ Threshold \in Nat \ {0}
  /\ Cooldown \in Nat \ {0}
  /\ Recovery \in Nat \ {0}
  /\ MaxStep \in Nat \ {0}
  /\ Cooldown <= MaxStep

ASSUME BoundsAssumption ==
  /\ MaxAmount \in Nat /\ MaxTime \in Nat
  /\ HistoryLimit \in Nat \ {0}
  /\ MaxReservations \in Nat /\ MaxCircuits \in Nat

-----------------------------------------------------------------------------
(* Shape of a snapshot *)

ReservationState == {"RESERVED", "DISPATCHED", "UNKNOWN", "COMMITTED", "RELEASED"}

\* A reservation counts against the budgets for ever once it left RESERVED by
\* being dispatched.
SpentState == {"DISPATCHED", "UNKNOWN", "COMMITTED"}

\* A key the reservations dict does not hold.
NoRequest == [id |-> None, task |-> None, provider |-> None, money |-> 0, risk |-> 0]
Absent    == [request |-> NoRequest, epoch |-> 0, state |-> "ABSENT", evidence |-> None]

EntryType ==
  [request : Requests \cup {NoRequest}, epoch : Nat,
   state : ReservationState \cup {"ABSENT"}, evidence : Evidence \cup {None}]

\* What setdefault files for a provider seen for the first time.
FreshCircuit ==
  [state |-> "CLOSED", failures |-> 0, successes |-> 0, opened_at |-> 0, probe |-> None]

CircuitType ==
  [state : {"CLOSED", "OPEN", "HALF_OPEN"}, failures : Nat, successes : Nat,
   opened_at : Time, probe : Ids \cup {None}]

SnapshotType ==
  [version : Nat, epoch : Nat, kill : BOOLEAN, last_now : Time \cup {-1},
   reservations : [Ids -> EntryType], circuits : [Providers -> CircuitType],
   ceiling : Ceilings]

Initial ==
  [version |-> 0, epoch |-> 0, kill |-> FALSE, last_now |-> -1,
   reservations |-> [i \in Ids |-> Absent],
   circuits |-> [p \in Providers |-> FreshCircuit],
   ceiling |-> LimitMoney]

Entry(g, id)  == g.reservations[id]
Has(g, id)    == g.reservations[id].state # "ABSENT"
Reserved(g)   == {i \in Ids : Has(g, i)}
InState(g, S) == {i \in Ids : g.reservations[i].state \in S}

\* What _validate insists on: every reservation is filed under its own id and was made in
\* an epoch that has begun.
SnapshotOK(g) ==
  /\ g \in SnapshotType
  /\ \A i \in Reserved(g) :
       /\ g.reservations[i].request \in Requests
       /\ g.reservations[i].request.id = i
       /\ g.reservations[i].epoch \in 1 .. g.epoch

\* A circuit exists once its provider has a reservation; none is ever removed.
HasCircuit(g, p) == \E i \in Reserved(g) : g.reservations[i].request.provider = p
Circuits(g)      == {p \in Providers : HasCircuit(g, p)}

-----------------------------------------------------------------------------
(* Exposure and budgets *)

\* The units of money or risk (field) that reservation i binds.
Units(g, field, i) == {i} \X (1 .. g.reservations[i].request[field])

\* Full reserved bound of the reservations in S: the sum, as the number of units bound.
Total(g, S, field) == Cardinality(UNION {Units(g, field, i) : i \in S})

\* Mutant of Charged: an unknown outcome no longer counts.
ChargedKnownOnly(g) == InState(g, ReservationState \ {"RELEASED", "UNKNOWN"})

Charged(g)          == InState(g, ReservationState \ {"RELEASED"})
OfTask(g, S, t)     == {i \in S : g.reservations[i].request.task = t}
OfProvider(g, S, p) == {i \in S : g.reservations[i].request.provider = p}

\* The buckets of _exposure at one level: each a set of reservations.
Buckets(g, S, level) ==
  CASE level = "global"         -> {S}
    [] level = "task"           -> {OfTask(g, S, t) : t \in Tasks}
    [] level = "owner_provider" -> {OfProvider(g, S, p) : p \in Providers}

\* S fits under every ceiling in both dimensions.  An exposure above MAX_AMOUNT is
\* denied by _amount even where the money ceiling is Unlimited.
Fits(g, S) ==
  \A level \in Levels : \A b \in Buckets(g, S, level) :
    /\ Total(g, b, "money") <= MaxAmount
    /\ g.ceiling[level] = Unlimited \/ Total(g, b, "money") <= g.ceiling[level]
    /\ Total(g, b, "risk") <= MaxAmount
    /\ Total(g, b, "risk") <= LimitRisk[level]

Budgets(g) == Fits(g, Charged(g))

-----------------------------------------------------------------------------
(* Reading, checking and writing a snapshot *)

\* _load scans at most HistoryLimit snapshots and refuses to work on a full page.
Loadable(g) == g.version < HistoryLimit

\* _clock: time may stand still or move forward by at most MaxStep.
ClockOK(g, now) == g.last_now = -1 \/ (now >= g.last_now /\ now - g.last_now <= MaxStep)

\* The clock check of the reconciliation paths: a killed Core accepts any pause.
ReconciliationClockOK(g, now) == IF g.kill THEN now >= g.last_now ELSE ClockOK(g, now)

EpochOK(g, e) == e = g.epoch /\ e > 0

\* The part of _validate that a transition can violate.
Valid(g) ==
  /\ g.epoch >= 1 /\ g.epoch <= MaxAmount
  /\ Cardinality(Reserved(g)) <= MaxReservations
  /\ Cardinality(Circuits(g)) <= MaxCircuits
  /\ \A p \in Providers : g.circuits[p].failures <= MaxAmount
  /\ Budgets(g)

\* The snapshot _write appends after `before'.
Written(before, after, now) ==
  [after EXCEPT !.version = before.version + 1, !.last_now = now]

-----------------------------------------------------------------------------
(* _reserve_state *)

\* The circuit lets one more reservation in: closed, cooled down, or half open with no
\* probe under way.
Admits(c, now) ==
  \/ c.state = "CLOSED"
  \/ c.state = "OPEN" /\ now - c.opened_at >= Cooldown
  \/ c.state = "HALF_OPEN" /\ c.probe = None

\* The circuit after it admitted id; anything but CLOSED makes id the probe.
Admitted(c, id) ==
  IF c.state = "CLOSED" THEN c
  ELSE [c EXCEPT !.state = "HALF_OPEN", !.probe = id,
                 !.successes = IF c.state = "OPEN" THEN 0 ELSE @]

\* An id already reserved under the same binding is returned, not reserved again; under
\* another binding it is an IDEMPOTENCY_CONFLICT.
Existing(g, q) == Has(g, q.id) /\ Entry(g, q.id).request = q

\* Mutant of ReserveOK: the kill switch is not looked at.
ReserveOKKilled(g, q, e, now) ==
  /\ EpochOK(g, e)
  /\ ~Has(g, q.id)
  /\ Cardinality(Reserved(g)) < MaxReservations
  /\ HasCircuit(g, q.provider) \/ Cardinality(Circuits(g)) < MaxCircuits
  /\ Admits(g.circuits[q.provider], now)

ReserveOK(g, q, e, now) ==
  /\ EpochOK(g, e)
  /\ ~Has(g, q.id)
  /\ ~g.kill
  /\ Cardinality(Reserved(g)) < MaxReservations
  /\ HasCircuit(g, q.provider) \/ Cardinality(Circuits(g)) < MaxCircuits
  /\ Admits(g.circuits[q.provider], now)

Reserve(g, q, e) ==
  [g EXCEPT
    !.reservations[q.id] =
        [request |-> q, epoch |-> e, state |-> "RESERVED", evidence |-> None],
    !.circuits[q.provider] = Admitted(@, q.id)]

-----------------------------------------------------------------------------
(* _dispatch_state.  dispatch_now is TRUE exactly for a step that satisfies DispatchOK; *)
(* a reservation that is no longer RESERVED is answered reconcile_only.                 *)

\* Mutant of DispatchOK: a reservation of an earlier epoch may still be sent.
DispatchOKAnyEpoch(g, id, e, now) ==
  /\ EpochOK(g, e)
  /\ Has(g, id)
  /\ Entry(g, id).state = "RESERVED"
  /\ ~g.kill
  /\ LET c == g.circuits[Entry(g, id).request.provider]
     IN  c.state = "CLOSED" \/ (c.state = "HALF_OPEN" /\ c.probe = id)
  /\ ClockOK(g, now)
  /\ Budgets(g)

DispatchOK(g, id, e, now) ==
  /\ EpochOK(g, e)
  /\ Has(g, id)
  /\ Entry(g, id).state = "RESERVED"
  /\ Entry(g, id).epoch = e
  /\ ~g.kill
  /\ LET c == g.circuits[Entry(g, id).request.provider]
     IN  c.state = "CLOSED" \/ (c.state = "HALF_OPEN" /\ c.probe = id)
  /\ ClockOK(g, now)
  /\ Budgets(g)

Dispatch(g, id) == [g EXCEPT !.reservations[id].state = "DISPATCHED"]

-----------------------------------------------------------------------------
(* release_not_dispatched *)

\* Mutant of ReleaseOK: a dispatched reservation may be refunded.
ReleaseOKDispatched(g, id, e) ==
  /\ EpochOK(g, e)
  /\ Has(g, id)
  /\ Entry(g, id).state \in {"RESERVED", "DISPATCHED"}

ReleaseOK(g, id, e) ==
  /\ EpochOK(g, e)
  /\ Has(g, id)
  /\ Entry(g, id).state = "RESERVED"

ReleaseKeepsProbe(g, id) == [g EXCEPT !.reservations[id].state = "RELEASED"]

Release(g, id) ==
  [g EXCEPT
    !.reservations[id].state = "RELEASED",
    !.circuits[Entry(g, id).request.provider].probe = IF @ = id THEN None ELSE @]

-----------------------------------------------------------------------------
(* _unknown_state *)

\* entry.update(state=..., evidence_digest=...)
Resolved(entry, state, ev) == [entry EXCEPT !.state = state, !.evidence = ev]

UnknownOK(g, id, e) ==
  /\ EpochOK(g, e)
  /\ Has(g, id)
  /\ Entry(g, id).state = "DISPATCHED"

\* A failure while half open, or the Threshold-th in a row, opens the circuit.
Failed(c, now) ==
  IF c.state = "HALF_OPEN" \/ c.failures + 1 >= Threshold
  THEN [state |-> "OPEN", failures |-> c.failures + 1, successes |-> 0,
        opened_at |-> now, probe |-> None]
  ELSE [c EXCEPT !.failures = @ + 1, !.successes = 0]

MarkUnknown(g, id, ev, now) ==
  [g EXCEPT
    !.reservations[id] = Resolved(@, "UNKNOWN", ev),
    !.circuits[Entry(g, id).request.provider] = Failed(@, now)]

-----------------------------------------------------------------------------
(* _settle_state *)

SettleOK(g, id, e) ==
  /\ EpochOK(g, e)
  /\ Has(g, id)
  /\ Entry(g, id).state \in {"DISPATCHED", "UNKNOWN"}

\* A probe that succeeded: counts towards recovery and frees the probe slot.
ProbeSucceeded(c) ==
  IF c.successes + 1 >= Recovery
  THEN [c EXCEPT !.state = "CLOSED", !.failures = 0, !.successes = 0, !.probe = None]
  ELSE [c EXCEPT !.successes = @ + 1, !.probe = None]

\* Only a reservation settled straight from DISPATCHED counts as a success.
Succeeded(c, id, direct) ==
  CASE direct /\ c.state = "HALF_OPEN" /\ c.probe = id -> ProbeSucceeded(c)
    [] direct /\ c.state = "CLOSED"                    -> [c EXCEPT !.failures = 0]
    [] OTHER                                           -> c

Settle(g, id, ev) ==
  [g EXCEPT
    !.reservations[id] = Resolved(@, "COMMITTED", ev),
    !.circuits[Entry(g, id).request.provider] =
        Succeeded(@, id, Entry(g, id).state = "DISPATCHED")]

-----------------------------------------------------------------------------
(* start_epoch *)

\* A probe left over from the previous epoch is treated as a failure.
Reopened(c, now) ==
  IF c.state = "HALF_OPEN"
  THEN [c EXCEPT !.state = "OPEN", !.opened_at = now, !.probe = None, !.successes = 0]
  ELSE c

StartEpoch(g, now) ==
  [g EXCEPT !.epoch = @ + 1,
            !.circuits = [p \in Providers |-> Reopened(g.circuits[p], now)]]
=============================================================================
