------------------------------ MODULE Governor ------------------------------
(***************************************************************************)
(* CoreDualGovernor as a service: its methods, each one serializable       *)
(* transaction, called in any order by any number of callers with any      *)
(* epoch they remember and any clock reading.                              *)
(*                                                                         *)
(* A method samples the clock before its transaction; reserve, dispatch,   *)
(* mark_unknown and start_epoch sample it twice (once for the transition,  *)
(* once in _change).  The samples are unrelated values here: the host      *)
(* clock is time.time, which may be stepped in either direction, and       *)
(* another transaction may commit between the sample and its use.          *)
(*                                                                         *)
(* A transaction that aborts changes nothing and is a stuttering step.  A  *)
(* transaction whose commit is not acknowledged has changed the state but  *)
(* its caller sees CommitOutcomeUnknown: that is the `acked' parameter of  *)
(* dispatch_commit, the only method whose answer grants anything.          *)
(***************************************************************************)
EXTENDS GovernorState

CONSTANTS
  ReviewIds,       \* request_id of a money-policy review
  ReviewLimits     \* the money ceilings an operator may ask for

ASSUME ReviewAssumption == ReviewLimits \subseteq Ceilings

VARIABLES
  gov,       \* the current snapshot
  reviews,   \* the policy_transition values stored beside the snapshots
  permits,   \* history: acknowledged dispatch_now answers, by request id
  fenced,    \* history: ids that were RESERVED when the epoch moved on
  trial      \* history: per provider, ids dispatched since its circuit last changed state

vars == <<gov, reviews, permits, fenced, trial>>

Init ==
  /\ gov = Initial
  /\ reviews = {}
  /\ permits = [i \in Ids |-> 0]
  /\ fenced = {}
  /\ trial = [p \in Providers |-> {}]

\* The window of each circuit restarts when the circuit changes state.
NextTrial(after, sent) ==
  [p \in Providers |->
     IF gov.circuits[p].state # after.circuits[p].state THEN {}
     ELSE trial[p] \cup {i \in sent : gov.reservations[i].request.provider = p}]

\* _write inside _change: the snapshot is validated and appended.
Write(after, now) ==
  /\ Valid(after)
  /\ gov' = Written(gov, after, now)

-----------------------------------------------------------------------------
(* Operator methods *)

start_epoch(n1, n2) ==
  /\ Loadable(gov)
  /\ n1 >= gov.last_now
  /\ gov.epoch + 1 <= MaxAmount
  /\ Write(StartEpoch(gov, n1), Max({n2, gov.last_now}))
  /\ fenced' = fenced \cup InState(gov, {"RESERVED"})
  /\ trial' = NextTrial(StartEpoch(gov, n1), {})
  /\ UNCHANGED <<reviews, permits>>

\* Setting the switch works at any clock reading; lifting it needs a sane clock.
set_kill(active, now) ==
  /\ Loadable(gov)
  /\ active \/ ClockOK(gov, now)
  /\ gov.kill # active
  /\ Write([gov EXCEPT !.kill = active], Max({now, gov.last_now}))
  /\ UNCHANGED <<reviews, permits, fenced, trial>>

\* A review binds the version and epoch it was made against; it is applied once, and only
\* while neither has moved.  A review whose request_id was applied before is read back.
apply_money_policy(rid, limits, version, epoch, now) ==
  /\ Loadable(gov)
  /\ \A r \in reviews : r.request_id # rid
  /\ version = gov.version /\ epoch = gov.epoch
  /\ now >= gov.last_now
  /\ Write([gov EXCEPT !.epoch = @ + 1, !.ceiling = limits], now)
  /\ reviews' = reviews \cup {[request_id |-> rid, limits |-> limits,
                               version |-> version, epoch |-> epoch]}
  /\ fenced' = fenced \cup InState(gov, {"RESERVED"})
  /\ UNCHANGED <<permits, trial>>

-----------------------------------------------------------------------------
(* Reservation methods *)

reserve(q, e, n1, n2) ==
  /\ Loadable(gov)
  /\ ClockOK(gov, n2)
  /\ ReserveOK(gov, q, e, n1)
  /\ Write(Reserve(gov, q, e), n2)
  /\ trial' = NextTrial(Reserve(gov, q, e), {})
  /\ UNCHANGED <<reviews, permits, fenced>>

dispatch_commit(id, e, n1, n2, acked) ==
  /\ Loadable(gov)
  /\ ClockOK(gov, n2)
  /\ DispatchOK(gov, id, e, n1)
  /\ Write(Dispatch(gov, id), n2)
  /\ permits' = [permits EXCEPT ![id] = @ + (IF acked THEN 1 ELSE 0)]
  /\ trial' = NextTrial(Dispatch(gov, id), {id})
  /\ UNCHANGED <<reviews, fenced>>

\* A second dispatch_commit, as after a lost acknowledgement: reconcile_only.
redispatch(id, e, n) ==
  /\ Loadable(gov)
  /\ ClockOK(gov, n)
  /\ EpochOK(gov, e)
  /\ Has(gov, id) /\ Entry(gov, id).state # "RESERVED"
  /\ UNCHANGED vars

release_not_dispatched(id, e, n) ==
  /\ Loadable(gov)
  /\ ReconciliationClockOK(gov, n)
  /\ ReleaseOK(gov, id, e)
  /\ Write(Release(gov, id), n)
  /\ UNCHANGED <<reviews, permits, fenced, trial>>

mark_unknown(id, e, ev, n1, n2) ==
  /\ Loadable(gov)
  /\ ReconciliationClockOK(gov, n2)
  /\ UnknownOK(gov, id, e)
  /\ Write(MarkUnknown(gov, id, ev, n1), n2)
  /\ trial' = NextTrial(MarkUnknown(gov, id, ev, n1), {})
  /\ UNCHANGED <<reviews, permits, fenced>>

settle(id, e, ev, n) ==
  /\ Loadable(gov)
  /\ ReconciliationClockOK(gov, n)
  /\ SettleOK(gov, id, e)
  /\ Write(Settle(gov, id, ev), n)
  /\ trial' = NextTrial(Settle(gov, id, ev), {})
  /\ UNCHANGED <<reviews, permits, fenced>>

-----------------------------------------------------------------------------

Operator ==
  \/ \E n1, n2 \in Time : start_epoch(n1, n2)
  \/ \E active \in BOOLEAN, n \in Time : set_kill(active, n)
  \/ \E rid \in ReviewIds, limits \in ReviewLimits, n \in Time :
       \E v \in 0 .. gov.version, e \in 0 .. gov.epoch :
         apply_money_policy(rid, limits, v, e, n)

Caller ==
  \E e \in 0 .. gov.epoch :
    \/ \E q \in Requests, n1, n2 \in Time : reserve(q, e, n1, n2)
    \/ \E id \in Ids :
         \/ \E n1, n2 \in Time, acked \in BOOLEAN : dispatch_commit(id, e, n1, n2, acked)
         \/ \E n \in Time : redispatch(id, e, n)
         \/ \E n \in Time : release_not_dispatched(id, e, n)
         \/ \E ev \in Evidence, n1, n2 \in Time : mark_unknown(id, e, ev, n1, n2)
         \/ \E ev \in Evidence, n \in Time : settle(id, e, ev, n)

Next == Operator \/ Caller

Spec == Init /\ [][Next]_vars

-----------------------------------------------------------------------------
(* Properties *)

ReviewType == [request_id : ReviewIds, limits : Ceilings, version : Nat, epoch : Nat]

\* The snapshot has the shape _validate insists on, with every reservation filed under its
\* own id and made in an epoch that has begun.
TypeOK ==
  /\ SnapshotOK(gov)
  /\ reviews \in SUBSET ReviewType
  /\ permits \in [Ids -> Nat]
  /\ fenced \subseteq Ids
  /\ trial \in [Providers -> SUBSET Ids]

\* At most one caller is ever told dispatch_now for a request, whatever was lost, retried,
\* taken over or killed in between; and a request somebody was allowed to send is never
\* released (dispatch_commit, release_not_dispatched).
PermitOnceNeverRefunded ==
  \A i \in Ids :
    /\ permits[i] <= 1
    /\ permits[i] > 0 => i \in InState(gov, SpentState)

\* All the requests callers were ever allowed to send, in every epoch and under every money
\* policy applied since, fit together under the ceilings now in force, at each of the three
\* levels and in both dimensions (_exposure, _budgets).
PermitsWithinBudget ==
  Fits(gov, {i \in Ids : permits[i] > 0})

\* The probe slot of a circuit is taken only while the circuit is half open, and by a
\* reservation of that provider that is not yet resolved; a closed circuit is below the
\* failure threshold and a half-open one below the recovery count.
CircuitIntegrity ==
  \A p \in Providers :
    LET c == gov.circuits[p]
    IN  /\ c.probe # None =>
             /\ c.state = "HALF_OPEN"
             /\ c.probe \in InState(gov, {"RESERVED", "DISPATCHED"})
             /\ gov.reservations[c.probe].request.provider = p
        /\ c.state = "CLOSED" => c.failures < Threshold
        /\ c.state = "HALF_OPEN" => c.successes < Recovery

\* While a circuit is half open at most one request sent in that half-open window is
\* without an outcome, and it is the probe.
HalfOpenSingleFlight ==
  \A p \in Providers :
    gov.circuits[p].state = "HALF_OPEN" =>
      (trial[p] \cap InState(gov, {"DISPATCHED"})) \subseteq {gov.circuits[p].probe}

\* An epoch takeover (start_epoch or a money policy) fences every reservation that was not
\* dispatched yet: it can still be released, and is never dispatched later.
EpochFencing == fenced \subseteq InState(gov, {"RESERVED", "RELEASED"})

SpentStays ==
  /\ InState(gov, SpentState) \subseteq InState(gov', SpentState)
  /\ \A i \in InState(gov, {"COMMITTED", "RELEASED"}) :
       gov'.reservations[i] = gov.reservations[i]

\* Money and risk once spent stay spent, and a reservation that is COMMITTED or RELEASED
\* never changes again, its evidence included.
SpentIsFinal == [][SpentStays]_vars

KillStops ==
  gov.kill /\ gov'.kill =>
    /\ Reserved(gov') = Reserved(gov)
    /\ InState(gov', SpentState) = InState(gov, SpentState)

\* While the kill switch stays on nothing new is reserved or dispatched, though outcomes of
\* earlier dispatches are still recorded.
KillBarrier == [][KillStops]_vars

\* docs/integration/DUAL_GOVERNOR.md: "History is bounded and fails closed: fewer than 1024
\* scoped OPERATION rows".  Every snapshot the governor has written can be loaded again.
WrittenIsLoadable == Loadable(gov)

=============================================================================
