------------------------- MODULE IntentJournalProofs -------------------------
(***************************************************************************)
(* Safety of the warrant ledger, the intent journal and the provider       *)
(* release, for any warrants, callers, sessions and policy, and the        *)
(* refinement of SerialEffects.                                            *)
(***************************************************************************)
EXTENDS IntentJournal, GovernorStateProofs

\* An intent passes through HELD, PENDING and DELIVERED; one that is known says what
\* really happened, and nothing was asked about an operation that was never started.
IntentShape(o) ==
  LET i == intents[o]
  IN  \/ i = NoIntent /\ answers[o] = {}
      \/ /\ i.warrant \in Warrants /\ i.warrant.op = o /\ i.warrant.kind # "call"
         /\ i.outcome = "Unknown" /\ i.resolution = None /\ i.box = "HELD" /\ i.revision = 1
      \/ /\ i.warrant \in Warrants /\ i.warrant.op = o /\ i.warrant.kind # "call"
         /\ i.resolution \in Resolutions /\ i.outcome = VerdictOf[i.resolution]
         /\ i.outcome = target[o]
         /\ \/ i.box = "PENDING" /\ i.revision = 2
            \/ i.box = "DELIVERED" /\ i.revision = 3

IntentInv ==
  /\ \A o \in Ops : IntentShape(o)
  /\ \A o \in Ops : \A r \in answers[o] : target[o] = VerdictOf[r]

\* A use was consumed.  A caller that consumed a decision is alone with it for ever, and
\* before its dispatch the decision is not used yet.
Consumers == {"CONSUMED", "SENT", "LOST"}

UseInv ==
  /\ OneUsePerDecision
  /\ \A n \in Nonces : uses[n] > 0 => ledger[n].consumed

CallInv ==
  /\ \A k \in Callers : calls[k].at # "IDLE" =>
       calls[k].warrant \in Warrants /\ calls[k].warrant.kind = "call"
  /\ \A k \in Callers : calls[k].at \in Consumers =>
       LET w == calls[k].warrant IN ledger[w.nonce].consumed /\ ledger[w.nonce].active = w
  /\ \A k \in Callers : calls[k].at = "CONSUMED" => uses[calls[k].warrant.nonce] = 0
  /\ \A j, k \in Callers :
       calls[j].at \in Consumers /\ calls[k].at \in Consumers
         /\ calls[j].warrant.nonce = calls[k].warrant.nonce => j = k

\* What IntentsStayReadable says of one intent.
IntentIntact(o) ==
  /\ RecordsAgree(o)
  /\ \/ ChargeAgrees(o)
     \/ /\ intents[o].outcome = "Unknown"
        /\ Entry(gov, intents[o].warrant.request.id).state = "COMMITTED"

JournalInv ==
  /\ TypeOK /\ IntentInv /\ IntentsStayReadable /\ UseInv /\ CallInv /\ SentWasConsumed

-----------------------------------------------------------------------------
(* Warrants *)

\* A warrant belongs to a nonce, an operation and a request, and is not the absent one.
LEMMA WarrantParts ==
  ASSUME NEW w \in Warrants
  PROVE  /\ w.nonce \in Nonces /\ w.op \in Ops /\ w.request \in Requests
         /\ w.request.id \in Ids /\ w.epoch \in Nat \ {0}
         /\ w # NoWarrant
  <1>1. w.nonce \in Nonces /\ w.op \in Ops
    BY DEF Nonces, Ops
  <1>2. w.request \in Requests /\ w.epoch \in Nat \ {0}
    BY WarrantsAssumption
  <1>3. w.request.id \in Ids
    BY <1>2, RequestParts
  <1>4. DOMAIN w # DOMAIN NoWarrant
    <2>1. DOMAIN NoWarrant = {"id"}
      BY DEF NoWarrant
    <2>2. "nonce" \in DOMAIN w
      BY WarrantsAssumption
    <2> QED
      BY <2>1, <2>2
  <1> QED
    BY <1>1, <1>2, <1>3, <1>4

\* Different operations have different reservations, and provider calls theirs apart.
LEMMA RequestsApart ==
  ASSUME NEW w \in Warrants
  PROVE  /\ \A v \in Warrants : v.request.id = w.request.id => v.op = w.op
         /\ w.kind # "call" => w.request.id \notin CallIds
         /\ w.kind = "call" => w.request.id \in CallIds
  BY WarrantsAssumption DEF CallIds

\* A provider call's reservation is a reservation.
LEMMA CallIdsAreIds == CallIds \subseteq Ids
  BY WarrantParts DEF CallIds

-----------------------------------------------------------------------------
(* What the governor's methods do to the reservations *)

\* A governor call from outside the journal: it makes or drops a reservation that was not
\* sent, resolves one that was dispatched, or settles one that is UNKNOWN, which may be an
\* intent's own.
Outside(id) ==
  LET before == gov.reservations[id].state
      after  == gov'.reservations[id].state
  IN  /\ \A i \in Ids \ {id} : gov'.reservations[i] = gov.reservations[i]
      /\ \/ before \in {"ABSENT", "RESERVED"} /\ after \in {"RESERVED", "RELEASED"}
         \/ before = "DISPATCHED" /\ after \in SpentState
         \/ /\ before = "UNKNOWN" /\ after = "COMMITTED"
            /\ gov'.reservations[id].request = gov.reservations[id].request
            /\ gov'.reservations[id].epoch = gov.reservations[id].epoch

\* What the methods of the governor leave to the journal.
LEMMA GovernorStep ==
  ASSUME TypeOK, Governor
  PROVE  /\ SnapshotOK(gov')
         /\ UNCHANGED <<ledger, intents, calls, answers, target, uses, starts>>
         /\ gov'.reservations = gov.reservations \/ \E id \in Ids : Outside(id)
  <1> DEFINE Goal == /\ SnapshotOK(gov')
                     /\ UNCHANGED <<ledger, intents, calls, answers, target, uses, starts>>
                     /\ gov'.reservations = gov.reservations \/ \E id \in Ids : Outside(id)
  <1>0. /\ SnapshotOK(gov) /\ gov.last_now \in Time \cup {-1} /\ gov.epoch \in Nat
        /\ gov.reservations \in [Ids -> EntryType]
    BY DEF TypeOK, SnapshotOK, SnapshotType
  <1>1. ASSUME NEW n1 \in Time, NEW n2 \in Time, NEW q \in Requests,
               NEW e \in 0 .. gov.epoch, reserve(q, e, n1, n2)
        PROVE  Goal
    <2>1. n1 \in Time /\ n2 \in Time /\ e \in Nat /\ q.id \in Ids
      BY <1>0, RequestParts
    <2>2. gov' = Written(gov, Reserve(gov, q, e), n2) /\ ReserveOK(gov, q, e, n1)
      BY <1>1 DEF reserve, Govern, Write
    <2>3. /\ SnapshotOK(gov')
          /\ gov'.reservations = [gov.reservations EXCEPT ![q.id] =
                [request |-> q, epoch |-> e, state |-> "RESERVED", evidence |-> None]]
      BY <1>0, <2>1, <2>2, ReserveSaved
    <2>4. Outside(q.id)
      BY <1>0, <2>1, <2>2, <2>3 DEF Outside, ReserveOK, Has
    <2> QED
      BY <1>1, <2>1, <2>3, <2>4 DEF reserve, Govern
  <1>2. ASSUME NEW n1 \in Time, NEW n2 \in Time, NEW id \in Ids,
               NEW e \in 0 .. gov.epoch, NEW ev \in Evidence, mark_unknown(id, e, ev, n1, n2)
        PROVE  Goal
    <2>2. /\ gov' = Written(gov, MarkUnknown(gov, id, ev, n1), n2)
          /\ Has(gov, id) /\ gov.reservations[id].state = "DISPATCHED"
      BY <1>2 DEF mark_unknown, Govern, Write, UnknownOK, Entry
    <2>3. /\ SnapshotOK(gov')
          /\ gov'.reservations = [gov.reservations EXCEPT ![id] =
                Resolved(gov.reservations[id], "UNKNOWN", ev)]
      BY <1>0, <2>2, MarkUnknownSaved
    <2>4. Resolved(gov.reservations[id], "UNKNOWN", ev).state = "UNKNOWN"
      BY <1>0, ResolvedType DEF ReservationState
    <2>5. Outside(id)
      BY <1>0, <2>2, <2>3, <2>4 DEF Outside, SpentState
    <2> QED
      BY <1>2, <2>3, <2>5 DEF mark_unknown, Govern
  <1>3. ASSUME NEW n1 \in Time, NEW n2 \in Time, start_epoch(n1, n2)
        PROVE  Goal
    <2>1. n1 \in Time /\ Max({n2, gov.last_now}) \in Time
      BY <1>0, MaxOfTwo
    <2>2. gov' = Written(gov, StartEpoch(gov, n1), Max({n2, gov.last_now}))
      BY <1>3 DEF start_epoch, Govern, Write
    <2> QED
      BY <1>0, <1>3, <2>1, <2>2, StartEpochSaved DEF start_epoch, Govern
  <1>4. ASSUME NEW now \in Time, NEW id \in Ids, NEW e \in 0 .. gov.epoch,
               release_not_dispatched(id, e, now)
        PROVE  Goal
    <2>2. /\ gov' = Written(gov, Release(gov, id), now)
          /\ Has(gov, id) /\ gov.reservations[id].state = "RESERVED"
      BY <1>4 DEF release_not_dispatched, Govern, Write, ReleaseOK, Entry
    <2>3. /\ SnapshotOK(gov')
          /\ gov'.reservations = [gov.reservations EXCEPT ![id] =
                AsReleased(gov.reservations[id])]
      BY <1>0, <2>2, ReleaseSaved
    <2>4. AsReleased(gov.reservations[id]).state = "RELEASED"
      BY <1>0 DEF AsReleased, EntryType
    <2>5. Outside(id)
      BY <1>0, <2>2, <2>3, <2>4 DEF Outside
    <2> QED
      BY <1>4, <2>3, <2>5 DEF release_not_dispatched, Govern
  <1>5. ASSUME NEW now \in Time, NEW id \in Ids, NEW e \in 0 .. gov.epoch,
               NEW ev \in Evidence, settle(id, e, ev, now)
        PROVE  Goal
    <2>2. /\ gov' = Written(gov, Settle(gov, id, ev), now)
          /\ Has(gov, id) /\ gov.reservations[id].state \in {"DISPATCHED", "UNKNOWN"}
      BY <1>5 DEF settle, Govern, Write, SettleOK, Entry
    <2>3. /\ SnapshotOK(gov')
          /\ gov'.reservations = [gov.reservations EXCEPT ![id] =
                Resolved(gov.reservations[id], "COMMITTED", ev)]
      BY <1>0, <2>2, SettleSaved
    <2>4. /\ Resolved(gov.reservations[id], "COMMITTED", ev).state = "COMMITTED"
          /\ Resolved(gov.reservations[id], "COMMITTED", ev).request =
               gov.reservations[id].request
          /\ Resolved(gov.reservations[id], "COMMITTED", ev).epoch = gov.reservations[id].epoch
      <3>1. gov.reservations[id] \in EntryType /\ "COMMITTED" \in ReservationState
        BY <1>0 DEF ReservationState
      <3> QED
        BY <3>1, ResolvedType
    <2>5. Outside(id)
      BY <1>0, <2>2, <2>3, <2>4 DEF Outside, SpentState
    <2> QED
      BY <1>5, <2>3, <2>5 DEF settle, Govern
  <1>6. ASSUME NEW now \in Time, NEW active \in BOOLEAN, set_kill(active, now)
        PROVE  Goal
    <2>1. Max({now, gov.last_now}) \in Time
      BY <1>0, MaxOfTwo
    <2>2. gov' = Written(gov, [gov EXCEPT !.kill = active], Max({now, gov.last_now}))
      BY <1>6 DEF set_kill, Govern, Write
    <2> QED
      BY <1>0, <1>6, <2>1, <2>2, SetKillSaved DEF set_kill, Govern
  <1> HIDE DEF Goal
  <1>7. Goal
    BY <1>1, <1>2, <1>3, <1>4, <1>5, <1>6 DEF Governor
  <1> QED
    BY <1>7 DEF Goal

-----------------------------------------------------------------------------
(* What the journal and the provider release do to the reservations *)

\* An outcome and its evidence, and the rest of the entry as it was.
LEMMA ResolvedEntry ==
  ASSUME NEW en \in EntryType, NEW st \in ReservationState, NEW ev \in Evidence
  PROVE  Resolved(en, st, ev) =
           [request |-> en.request, epoch |-> en.epoch, state |-> st, evidence |-> ev]
  <1> DEFINE a == Resolved(en, st, ev)
             b == [request |-> en.request, epoch |-> en.epoch, state |-> st, evidence |-> ev]
  <1>1. a \in EntryType /\ a.request = en.request /\ a.epoch = en.epoch /\ a.state = st
    BY ResolvedType
  <1>2. a.evidence = ev
    BY DEF Resolved, EntryType
  <1>3. a = [request |-> a.request, epoch |-> a.epoch, state |-> a.state,
             evidence |-> a.evidence]
    <2> HIDE DEF a
    <2> QED
      BY <1>1 DEF EntryType
  <1> QED
    BY <1>1, <1>2, <1>3

\* START leaves the warrant's reservation UNKNOWN, under the warrant's epoch, and no other
\* touched.
LEMMA StartStep ==
  ASSUME TypeOK, NEW w \in Warrants, NEW s \in Sessions, NEW n1 \in Time,
               NEW n2 \in Time, NEW acked \in BOOLEAN,
         start(w, s, n1, n2, acked)
  PROVE  /\ SnapshotOK(gov')
         /\ gov'.reservations = [gov.reservations EXCEPT ![w.request.id] =
              [request |-> w.request, epoch |-> w.epoch, state |-> "UNKNOWN",
               evidence |-> Liability]]
  <1> DEFINE id == w.request.id
             g1 == Prepared(w)
             g2 == Dispatch(g1, id)
             g3 == MarkUnknown(g2, id, Liability, n1)
             en == g1.reservations[id]
  <1>1. /\ SnapshotOK(gov) /\ w.request \in Requests /\ id \in Ids
        /\ w.epoch \in Nat /\ Liability \in Evidence
    BY WarrantParts, ResolutionsAssumption DEF TypeOK
  <1>2. /\ PrepareOK(w, n1) /\ DispatchOK(g1, id, w.epoch, n1)
        /\ gov' = Written(gov, g3, n1)
    BY DEF start, Write, Started
  <1>3. /\ SnapshotOK(g1) /\ en.request = w.request
        /\ \A i \in Ids \ {id} : g1.reservations[i] = gov.reservations[i]
    <2>1. CASE Has(gov, id)
      BY <1>1, <1>2, <2>1 DEF PrepareOK, ReserveOK, Prepared, Existing, Entry
    <2>2. CASE ~Has(gov, id)
      <3>1. ReserveOK(gov, w.request, w.epoch, n1) /\ g1 = Reserve(gov, w.request, w.epoch)
        BY <1>2, <2>2 DEF PrepareOK, Prepared, Existing
      <3>2. SnapshotOK(g1)
        BY <1>1, <3>1, ReserveKeepsOK
      <3>3. Reserve(gov, w.request, w.epoch).reservations = [gov.reservations EXCEPT ![id] =
              [request |-> w.request, epoch |-> w.epoch, state |-> "RESERVED", evidence |-> None]]
        BY <1>1, RequestParts DEF Reserve, SnapshotOK, SnapshotType
      <3> QED
        BY <1>1, <3>1, <3>2, <3>3 DEF SnapshotOK, SnapshotType
    <2> QED
      BY <2>1, <2>2
  <1>4. Has(g1, id) /\ en.epoch = w.epoch
    BY <1>2 DEF DispatchOK, Entry
  <1> HIDE DEF g1
  <1>5. /\ SnapshotOK(g2)
        /\ g2.reservations = [g1.reservations EXCEPT ![id].state = "DISPATCHED"]
    BY <1>1, <1>3, <1>4, DispatchKeepsOK, DispatchFields
  <1>6. /\ g1.reservations \in [Ids -> EntryType] /\ g2.reservations \in [Ids -> EntryType]
        /\ gov.reservations \in [Ids -> EntryType]
    BY <1>1, <1>3, <1>5 DEF SnapshotOK, SnapshotType
  <1>7. /\ g2.reservations[id].request = w.request /\ g2.reservations[id].epoch = w.epoch
        /\ Has(g2, id)
        /\ \A i \in Ids \ {id} : g2.reservations[i] = gov.reservations[i]
    BY <1>1, <1>3, <1>4, <1>5, <1>6 DEF Has, EntryType
  <1> HIDE DEF g2
  <1>8. /\ SnapshotOK(g3)
        /\ g3.reservations = [g2.reservations EXCEPT ![id] =
             Resolved(g2.reservations[id], "UNKNOWN", Liability)]
    <2>1. MarkUnknown(g2, id, Liability, n1).reservations =
            [g2.reservations EXCEPT ![id] =
               Resolved(g2.reservations[id], "UNKNOWN", Liability)]
      BY <1>1, <1>5, RequestParts DEF MarkUnknown, Entry, SnapshotOK, SnapshotType
    <2>2. SnapshotOK(MarkUnknown(g2, id, Liability, n1))
      BY <1>1, <1>5, <1>7, MarkUnknownKeepsOK
    <2> QED
      BY <2>1, <2>2
  <1>9. Resolved(g2.reservations[id], "UNKNOWN", Liability) =
          [request |-> w.request, epoch |-> w.epoch, state |-> "UNKNOWN", evidence |-> Liability]
    <2>1. g2.reservations[id] \in EntryType
      BY <1>1, <1>6
    <2> QED
      BY <1>1, <1>7, <2>1, ResolvedEntry DEF ReservationState
  <1>10. SnapshotOK(gov') /\ gov'.reservations = g3.reservations
    <2> HIDE DEF g3
    <2>1. SnapshotOK(Written(gov, g3, n1))
      BY <1>1, <1>8, WrittenOK
    <2>2. Written(gov, g3, n1).reservations = g3.reservations
      BY <1>8 DEF Written, SnapshotOK, SnapshotType
    <2> QED
      BY <1>2, <2>1, <2>2
  <1>11. g3.reservations = [gov.reservations EXCEPT ![id] =
           [request |-> w.request, epoch |-> w.epoch, state |-> "UNKNOWN", evidence |-> Liability]]
    BY <1>1, <1>6, <1>7, <1>8, <1>9
  <1> QED
    BY <1>10, <1>11

\* Resolution leaves the intent's reservation COMMITTED with the resolution as evidence.
LEMMA ResolutionStep ==
  ASSUME TypeOK, NEW o \in Ops, NEW e \in 0 .. gov.epoch, NEW r \in Resolutions,
         NEW now \in Time, apply_resolution(o, e, r, now), intents[o].warrant \in Warrants
  PROVE  LET id == intents[o].warrant.request.id
         IN  /\ SnapshotOK(gov')
             /\ gov'.reservations = [gov.reservations EXCEPT ![id] =
                    Resolved(gov.reservations[id], "COMMITTED", r)]
  <1> DEFINE id == intents[o].warrant.request.id
  <1>1. /\ SnapshotOK(gov) /\ id \in Ids /\ r \in Evidence
    BY WarrantParts, ResolutionsAssumption DEF TypeOK
  <1>2. Has(gov, id) /\ gov' = Written(gov, Settle(gov, id, r), now)
    BY DEF apply_resolution, Write, SettleOK
  <1> HIDE DEF id
  <1>3. /\ SnapshotOK(gov')
        /\ gov'.reservations = [gov.reservations EXCEPT ![id] =
              Resolved(gov.reservations[id], "COMMITTED", r)]
    BY <1>1, <1>2, SettleSaved
  <1> QED
    BY <1>3 DEF id

\* The provider release sends a call that was reserved.
LEMMA ReleaseStep ==
  ASSUME TypeOK, NEW k \in Callers, NEW n1 \in Time, NEW n2 \in Time,
         NEW acked \in BOOLEAN, dispatch_commit(k, n1, n2, acked),
         calls[k].warrant \in Warrants
  PROVE  LET id == calls[k].warrant.request.id
         IN  /\ SnapshotOK(gov')
             /\ \A i \in Ids \ {id} : gov'.reservations[i] = gov.reservations[i]
  <1> DEFINE id == calls[k].warrant.request.id
  <1>1. /\ SnapshotOK(gov) /\ n2 \in Time /\ id \in Ids
    BY WarrantParts DEF TypeOK
  <1>2. Has(gov, id) /\ gov' = Written(gov, Dispatch(gov, id), n2)
    BY DEF dispatch_commit, Write, DispatchOK
  <1> HIDE DEF id
  <1>3. /\ SnapshotOK(gov')
        /\ gov'.reservations = [gov.reservations EXCEPT ![id].state = "DISPATCHED"]
    BY <1>1, <1>2, DispatchSaved
  <1>4. \A i \in Ids \ {id} : gov'.reservations[i] = gov.reservations[i]
    BY <1>1, <1>3 DEF SnapshotOK, SnapshotType
  <1> QED
    BY <1>3, <1>4 DEF id

-----------------------------------------------------------------------------
(* The initial state, and the types *)

\* A fresh namespace satisfies the invariant.
LEMMA InitJournal == Init => JournalInv
  <1> SUFFICES ASSUME Init PROVE JournalInv
    OBVIOUS
  <1>1. TypeOK
    <2>1. SnapshotOK(gov)
      BY InitialOK DEF Init
    <2>2. NoApproval \in ApprovalType /\ NoIntent \in IntentType
      BY DEF NoApproval, NoIntent, ApprovalType, IntentType, Verdicts
    <2> QED
      BY <2>1, <2>2, BoundsAssumption DEF Init, TypeOK, NoCall, Time, Verdicts
  <1>2. IntentInv
    BY DEF Init, IntentInv, IntentShape
  <1>3. IntentsStayReadable
    BY DEF Init, IntentsStayReadable
  <1>4. UseInv
    BY DEF Init, UseInv, OneUsePerDecision
  <1>5. CallInv
    BY DEF Init, CallInv, NoCall, Consumers
  <1>6. SentWasConsumed
    BY CallIdsAreIds DEF Init, SentWasConsumed, Initial, Absent, Entry, SpentState
  <1> QED
    BY <1>1, <1>2, <1>3, <1>4, <1>5, <1>6 DEF JournalInv

\* Setting a flag of a ledger entry changes nothing else in it.
LEMMA FlagSet ==
  ASSUME NEW a \in ApprovalType
  PROVE  LET c == [a EXCEPT !.consumed = TRUE]
             r == [a EXCEPT !.revoked = TRUE]
         IN  /\ c \in ApprovalType /\ c.consumed /\ c.active = a.active /\ c.revoked = a.revoked
             /\ r \in ApprovalType /\ r.revoked /\ r.active = a.active /\ r.consumed = a.consumed
  BY DEF ApprovalType

\* The intent after a verdict was applied, and after it was delivered.
Learned(i, r) ==
  [warrant |-> i.warrant, outcome |-> VerdictOf[r], resolution |-> r, box |-> "PENDING",
   revision |-> i.revision + 1]

Delivered(i) ==
  [warrant |-> i.warrant, outcome |-> i.outcome, resolution |-> i.resolution,
   box |-> "DELIVERED", revision |-> i.revision + 1]

\* What apply_resolution stores.
LEMMA LearnedStored ==
  ASSUME TypeOK, NEW o \in Ops, NEW e, NEW r \in Resolutions,
         NEW now, apply_resolution(o, e, r, now)
  PROVE  intents' = [intents EXCEPT ![o] = Learned(intents[o], r)]
  <1> DEFINE i  == intents[o]
             i1 == [i EXCEPT !.outcome = VerdictOf[r]]
             i2 == [i1 EXCEPT !.resolution = r]
             i3 == [i2 EXCEPT !.box = "PENDING"]
             i4 == [i3 EXCEPT !.revision = i.revision + 1]
  <1>1. i \in IntentType /\ intents \in [Ops -> IntentType]
    BY DEF TypeOK
  <1>2. intents' = [intents EXCEPT ![o] = i4]
    BY <1>1 DEF apply_resolution, IntentType
  <1>3. i4 = Learned(i, r)
    <2> HIDE DEF i
    <2>1. i \in [warrant : {i.warrant}, outcome : {i.outcome}, resolution : {i.resolution},
                 box : {i.box}, revision : {i.revision}]
      BY <1>1 DEF IntentType
    <2>2. i1 \in [warrant : {i.warrant}, outcome : {VerdictOf[r]}, resolution : {i.resolution},
                  box : {i.box}, revision : {i.revision}]
      BY <2>1
    <2> HIDE DEF i1
    <2>3. i2 \in [warrant : {i.warrant}, outcome : {VerdictOf[r]}, resolution : {r},
                  box : {i.box}, revision : {i.revision}]
      BY <2>2
    <2> HIDE DEF i2
    <2>4. i3 \in [warrant : {i.warrant}, outcome : {VerdictOf[r]}, resolution : {r},
                  box : {"PENDING"}, revision : {i.revision}]
      BY <2>3
    <2> HIDE DEF i3
    <2>5. i4 \in [warrant : {i.warrant}, outcome : {VerdictOf[r]}, resolution : {r},
                  box : {"PENDING"}, revision : {i.revision + 1}]
      BY <2>4
    <2> HIDE DEF i4
    <2> QED
      BY <2>5 DEF Learned
  <1> QED
    BY <1>2, <1>3

\* What acknowledge_delivery stores.
LEMMA DeliveredStored ==
  ASSUME TypeOK, NEW o \in Ops, NEW e, NEW rev, acknowledge_delivery(o, e, rev)
  PROVE  intents' = [intents EXCEPT ![o] = Delivered(intents[o])]
  <1> DEFINE i  == intents[o]
             i1 == [i EXCEPT !.box = "DELIVERED"]
             i2 == [i1 EXCEPT !.revision = i.revision + 1]
  <1>1. i \in IntentType /\ intents \in [Ops -> IntentType]
    BY DEF TypeOK
  <1>2. intents' = [intents EXCEPT ![o] = i2]
    BY <1>1 DEF acknowledge_delivery, IntentType
  <1>3. i2 = Delivered(i)
    <2> HIDE DEF i
    <2>1. i \in [warrant : {i.warrant}, outcome : {i.outcome}, resolution : {i.resolution},
                 box : {i.box}, revision : {i.revision}]
      BY <1>1 DEF IntentType
    <2>2. i1 \in [warrant : {i.warrant}, outcome : {i.outcome}, resolution : {i.resolution},
                  box : {"DELIVERED"}, revision : {i.revision}]
      BY <2>1
    <2> HIDE DEF i1
    <2>3. i2 \in [warrant : {i.warrant}, outcome : {i.outcome}, resolution : {i.resolution},
                  box : {"DELIVERED"}, revision : {i.revision + 1}]
      BY <2>2
    <2> HIDE DEF i2
    <2> QED
      BY <2>3 DEF Delivered
  <1> QED
    BY <1>2, <1>3

\* What resolution and delivery leave alone.
LEMMA ResolutionFrame ==
  ASSUME NEW o, NEW e, NEW r, NEW now, apply_resolution(o, e, r, now)
  PROVE  UNCHANGED <<ledger, calls, answers, target, uses, starts>>
  BY DEF apply_resolution

LEMMA DeliveryFrame ==
  ASSUME NEW o, NEW e, NEW revision, acknowledge_delivery(o, e, revision)
  PROVE  UNCHANGED <<gov, ledger, calls, answers, target, uses, starts>>
  BY DEF acknowledge_delivery

\* A consumed decision stays consumed, by the warrant that consumed it.
LEMMA ConsumedIsFinal ==
  ASSUME TypeOK, CallInv, Next, NEW n \in Nonces, ledger[n].consumed
  PROVE  ledger'[n].consumed /\ ledger'[n].active = ledger[n].active
  <1>0. ledger \in [Nonces -> ApprovalType] /\ ~NoApproval.consumed
    BY DEF TypeOK, NoApproval
  <1>1. ASSUME NEW w \in Warrants, NEW s \in Sessions, NEW now \in Time,
               approve(w, s, now)
        PROVE  ledger'[n] = ledger[n]
    BY <1>0, <1>1, WarrantParts DEF approve, Registrable
  <1>2. ASSUME NEW w \in Warrants, revoke(w)
        PROVE  ledger'[n].consumed /\ ledger'[n].active = ledger[n].active
    BY <1>0, <1>2, WarrantParts DEF revoke, ApprovalType
  <1>3. ASSUME NEW w \in Warrants, NEW c \in Warrants \ {w},
               NEW n1 \in Time, NEW n2 \in Time, delegate(w, c, n1, n2)
        PROVE  ledger'[n] = ledger[n]
    BY <1>0, <1>3, WarrantParts DEF delegate, Usable
  <1>4. ASSUME NEW w \in Warrants, NEW s \in Sessions, NEW n1 \in Time,
               NEW n2 \in Time, NEW acked \in BOOLEAN,
               start(w, s, n1, n2, acked)
        PROVE  ledger'[n] = ledger[n]
    BY <1>0, <1>4, WarrantParts DEF start, Usable, Consume
  <1>5. ASSUME NEW k \in Callers, NEW now \in Time, consume(k, now)
        PROVE  ledger'[n] = ledger[n]
    BY <1>0, <1>5, WarrantParts DEF consume, Usable, Consume, CallInv
  <1>6. CASE UNCHANGED ledger
    BY <1>6
  <1>7. (\E o \in Ops, r \in Resolutions : verify(o, r)) => UNCHANGED ledger
    BY DEF verify
  <1>8. (\E o \in Ops, e \in 0 .. gov.epoch :
          \/ \E r \in Resolutions, now \in Time : apply_resolution(o, e, r, now)
          \/ \E revision \in 0 .. 3 : acknowledge_delivery(o, e, revision)) => UNCHANGED ledger
    BY ResolutionFrame, DeliveryFrame
  <1>9. Governor \/ World => UNCHANGED ledger
    BY GovernorStep DEF World, act
  <1>10. (\E k \in Callers : \/ \E w \in Warrants, now \in Time : check(k, w, now)
                            \/ \E n1, n2 \in Time, acked \in BOOLEAN :
                                 dispatch_commit(k, n1, n2, acked))
           => UNCHANGED ledger
    BY DEF check, dispatch_commit
  <1> QED
    BY <1>1, <1>2, <1>3, <1>4, <1>5, <1>6, <1>7, <1>8, <1>9, <1>10
    DEF Next, Owner, Journal, Provider

\* Every step keeps the records well formed.
LEMMA TypeStep ==
  ASSUME TypeOK, IntentInv, CallInv, Next
  PROVE  TypeOK'
  <1>0. /\ SnapshotOK(gov) /\ ledger \in [Nonces -> ApprovalType] /\ intents \in [Ops -> IntentType]
        /\ calls \in [Callers -> [warrant : Warrants \cup {NoWarrant},
                            at : {"IDLE", "CHECKED", "CONSUMED", "SENT", "LOST"}]]
        /\ answers \in [Ops -> SUBSET Resolutions]
        /\ target \in [Ops -> Verdicts \cup {"None", "Sent"}]
        /\ uses \in [Nonces -> Nat] /\ starts \in [Ops -> Nat]
    BY DEF TypeOK
  <1>1. ASSUME NEW w \in Warrants, NEW s \in Sessions, NEW now \in Time,
               approve(w, s, now)
        PROVE  TypeOK'
    <2>1. ledger' \in [Nonces -> ApprovalType]
      BY <1>0, <1>1, WarrantParts DEF approve, Registrable, ApprovalType
    <2> QED
      BY <1>0, <1>1, <2>1 DEF approve, TypeOK
  <1>2. ASSUME NEW w \in Warrants, revoke(w)
        PROVE  TypeOK'
    <2>1. ledger' \in [Nonces -> ApprovalType]
      BY <1>0, <1>2, WarrantParts, FlagSet DEF revoke
    <2> QED
      BY <1>0, <1>2, <2>1 DEF revoke, TypeOK
  <1>3. ASSUME NEW w \in Warrants, NEW c \in Warrants \ {w},
               NEW n1 \in Time, NEW n2 \in Time, delegate(w, c, n1, n2)
        PROVE  TypeOK'
    <2>1. ledger' \in [Nonces -> ApprovalType]
      BY <1>0, <1>3, WarrantParts DEF delegate, ApprovalType
    <2> QED
      BY <1>0, <1>3, <2>1 DEF delegate, TypeOK
  <1>4. ASSUME NEW w \in Warrants, NEW s \in Sessions, NEW n1 \in Time,
               NEW n2 \in Time, NEW acked \in BOOLEAN,
               start(w, s, n1, n2, acked)
        PROVE  TypeOK'
    <2>1. ledger' \in [Nonces -> ApprovalType]
      BY <1>0, <1>4, WarrantParts, FlagSet DEF start, Consume
    <2>2. intents' \in [Ops -> IntentType]
      <3>1. [warrant |-> w, outcome |-> "Unknown", resolution |-> None, box |-> "HELD",
             revision |-> 1] \in IntentType
        BY DEF IntentType
      <3> QED
        BY <1>0, <1>4, <3>1, WarrantParts DEF start
    <2>3. uses' \in [Nonces -> Nat] /\ starts' \in [Ops -> Nat]
      BY <1>0, <1>4, WarrantParts DEF start
    <2>4. target' \in [Ops -> Verdicts \cup {"None", "Sent"}]
      BY <1>0, <1>4, WarrantParts DEF start, Verdicts
    <2>5. SnapshotOK(gov')
      BY <1>4, StartStep
    <2> QED
      BY <1>0, <1>4, <2>1, <2>2, <2>3, <2>4, <2>5 DEF start, TypeOK
  <1>5. ASSUME NEW o \in Ops, NEW r \in Resolutions, verify(o, r)
        PROVE  TypeOK'
    <2>1. answers' \in [Ops -> SUBSET Resolutions]
      BY <1>0, <1>5 DEF verify
    <2> QED
      BY <1>0, <1>5, <2>1 DEF verify, TypeOK
  <1>6. ASSUME NEW o \in Ops, NEW e \in 0 .. gov.epoch, NEW r \in Resolutions,
               NEW now \in Time, apply_resolution(o, e, r, now)
        PROVE  TypeOK'
    <2>1. intents[o].warrant \in Warrants /\ intents[o].revision = 1
      BY <1>6, ResolutionsAssumption
      DEF apply_resolution, Readable, IntentInv, IntentShape, Verdicts
    <2>2. SnapshotOK(gov')
      BY <1>6, <2>1, ResolutionStep
    <2>3. VerdictOf[r] \in Verdicts
      BY ResolutionsAssumption
    <2>4. Learned(intents[o], r) \in IntentType
      BY <1>0, <2>1, <2>3 DEF IntentType, Learned
    <2>5. intents' \in [Ops -> IntentType]
      BY <1>0, <1>6, <2>4, LearnedStored
    <2> QED
      BY <1>0, <1>6, <2>2, <2>5 DEF apply_resolution, TypeOK
  <1>7. ASSUME NEW o \in Ops, NEW e \in 0 .. gov.epoch, NEW revision \in 0 .. 3,
               acknowledge_delivery(o, e, revision)
        PROVE  TypeOK'
    <2>1. intents[o].revision = 2
      BY <1>7 DEF acknowledge_delivery, Readable, Deliverable, IntentInv, IntentShape
    <2>2. Delivered(intents[o]) \in IntentType
      BY <1>0, <2>1 DEF IntentType, Delivered
    <2>3. intents' \in [Ops -> IntentType]
      BY <1>0, <1>7, <2>2, DeliveredStored
    <2> QED
      BY <1>0, <1>7, <2>3 DEF acknowledge_delivery, TypeOK
  <1>8. ASSUME NEW k \in Callers, NEW w \in Warrants, NEW now \in Time, check(k, w, now)
        PROVE  TypeOK'
    BY <1>0, <1>8 DEF check, TypeOK
  <1>9. ASSUME NEW k \in Callers, NEW now \in Time, consume(k, now)
        PROVE  TypeOK'
    <2>1. calls[k].warrant \in Warrants
      BY <1>9 DEF consume, CallInv
    <2>2. ledger' \in [Nonces -> ApprovalType]
      BY <1>0, <1>9, <2>1, WarrantParts, FlagSet DEF consume, Consume
    <2> QED
      BY <1>0, <1>9, <2>2 DEF consume, Called, TypeOK
  <1>10. ASSUME NEW k \in Callers, NEW n1 \in Time, NEW n2 \in Time,
                NEW acked \in BOOLEAN, dispatch_commit(k, n1, n2, acked)
         PROVE  TypeOK'
    <2>1. calls[k].warrant \in Warrants
      BY <1>10 DEF dispatch_commit, Released, CallInv
    <2>2. SnapshotOK(gov')
      BY <1>10, <2>1, ReleaseStep
    <2>3. uses' \in [Nonces -> Nat]
      BY <1>0, <1>10, <2>1, WarrantParts DEF dispatch_commit
    <2> QED
      BY <1>0, <1>10, <2>2, <2>3 DEF dispatch_commit, Called, TypeOK
  <1>11. CASE Governor
    BY <1>0, <1>11, GovernorStep DEF TypeOK
  <1>12. CASE World
    BY <1>0, <1>12, BoundsAssumption DEF World, act, TypeOK, Time
  <1> QED
    BY <1>1, <1>2, <1>3, <1>4, <1>5, <1>6, <1>7, <1>8, <1>9, <1>10, <1>11, <1>12
    DEF Next, Owner, Journal, Provider

-----------------------------------------------------------------------------
(* Intents and verdicts *)

\* The journal is changed by START, verification, resolution and delivery only, and what
\* happened at the target by START and the target.
LEMMA JournalFrame ==
  ASSUME TypeOK, Owner \/ Provider \/ Governor
  PROVE  UNCHANGED <<intents, answers, target>>
  BY GovernorStep
  DEF Owner, approve, revoke, delegate, Provider, check, consume, dispatch_commit

\* A verdict is one of two, and neither is "Unknown", "Sent" or "None".
LEMMA VerdictParts ==
  ASSUME NEW r \in Resolutions
  PROVE  /\ VerdictOf[r] \in Verdicts /\ VerdictOf[r] \notin {"Unknown", "Sent", "None"}
         /\ r # None
  BY ResolutionsAssumption, RequestsAssumption DEF Verdicts

\* Intents keep their shape, and say what really happened.
LEMMA IntentStep ==
  ASSUME TypeOK, IntentInv, Next
  PROVE  IntentInv'
  <1>0. /\ intents \in [Ops -> IntentType] /\ answers \in [Ops -> SUBSET Resolutions]
        /\ target \in [Ops -> Verdicts \cup {"None", "Sent"}]
    BY DEF TypeOK
  <1>1. ASSUME UNCHANGED <<intents, answers, target>>
        PROVE  IntentInv'
    BY <1>1 DEF IntentInv, IntentShape
  <1>2. ASSUME NEW w \in Warrants, NEW s \in Sessions, NEW n1 \in Time,
               NEW n2 \in Time, NEW acked \in BOOLEAN,
               start(w, s, n1, n2, acked)
        PROVE  IntentInv'
    <2>1. w.op \in Ops /\ answers[w.op] = {} /\ UNCHANGED answers
      BY <1>2, WarrantParts DEF start, IntentInv, IntentShape, NoIntent
    <2>2. \A o \in Ops : IntentShape(o)'
      <3> SUFFICES ASSUME NEW o \in Ops PROVE IntentShape(o)'
        OBVIOUS
      <3>1. CASE o = w.op
        BY <1>0, <1>2, <2>1, <3>1 DEF start, IntentShape
      <3>2. CASE o # w.op
        BY <1>0, <1>2, <2>1, <3>2 DEF start, IntentInv, IntentShape
      <3> QED
        BY <3>1, <3>2
    <2> QED
      BY <1>0, <1>2, <2>1, <2>2 DEF start, IntentInv
  <1>3. ASSUME NEW o \in Ops, NEW r \in Resolutions, verify(o, r)
        PROVE  IntentInv'
    <2>1. /\ UNCHANGED <<intents, target>> /\ intents[o] # NoIntent
          /\ answers' = [answers EXCEPT ![o] = @ \cup {r}] /\ target[o] = VerdictOf[r]
      BY <1>3 DEF verify, Readable
    <2> QED
      BY <1>0, <2>1 DEF IntentInv, IntentShape
  <1>4. ASSUME NEW o \in Ops, NEW e \in 0 .. gov.epoch, NEW r \in Resolutions,
               NEW now \in Time, apply_resolution(o, e, r, now)
        PROVE  IntentInv'
    <2>1. /\ UNCHANGED <<answers, target>> /\ r \in answers[o] /\ intents[o] # NoIntent
          /\ intents[o].outcome = "Unknown"
          /\ intents' = [intents EXCEPT ![o] = Learned(intents[o], r)]
      BY <1>4, LearnedStored DEF apply_resolution, Readable
    <2>2. /\ intents[o].warrant \in Warrants /\ intents[o].warrant.op = o
          /\ intents[o].warrant.kind # "call" /\ intents[o].revision = 1
      BY <2>1, VerdictParts DEF IntentInv, IntentShape
    <2>3. target[o] = VerdictOf[r]
      BY <2>1 DEF IntentInv
    <2>4. IntentShape(o)'
      BY <1>0, <2>1, <2>2, <2>3 DEF IntentShape, Learned
    <2>5. \A p \in Ops \ {o} : IntentShape(p)'
      BY <1>0, <2>1 DEF IntentInv, IntentShape
    <2> QED
      BY <2>1, <2>4, <2>5 DEF IntentInv
  <1>5. ASSUME NEW o \in Ops, NEW e \in 0 .. gov.epoch, NEW revision \in 0 .. 3,
               acknowledge_delivery(o, e, revision)
        PROVE  IntentInv'
    <2>1. /\ UNCHANGED <<answers, target>> /\ intents[o] # NoIntent
          /\ intents[o].resolution # None /\ intents[o].box # "DELIVERED"
          /\ intents' = [intents EXCEPT ![o] = Delivered(intents[o])]
      BY <1>5, DeliveredStored DEF acknowledge_delivery, Readable, Deliverable
    <2>2. /\ intents[o].warrant \in Warrants /\ intents[o].warrant.op = o
          /\ intents[o].warrant.kind # "call" /\ intents[o].revision = 2
          /\ intents[o].resolution \in Resolutions
          /\ intents[o].outcome = VerdictOf[intents[o].resolution]
          /\ intents[o].outcome = target[o]
      BY <2>1 DEF IntentInv, IntentShape
    <2>3. /\ intents'[o].warrant = intents[o].warrant /\ intents'[o].outcome = intents[o].outcome
          /\ intents'[o].resolution = intents[o].resolution
          /\ intents'[o].box = "DELIVERED" /\ intents'[o].revision = 3
      BY <1>0, <2>1, <2>2 DEF Delivered
    <2>4. IntentShape(o)'
      BY <2>1, <2>2, <2>3 DEF IntentShape
    <2>5. \A p \in Ops \ {o} : IntentShape(p)'
      BY <1>0, <2>1 DEF IntentInv, IntentShape
    <2> QED
      BY <2>1, <2>4, <2>5 DEF IntentInv
  <1>6. ASSUME NEW o \in Ops, NEW v \in Verdicts, act(o, v)
        PROVE  IntentInv'
    <2>1. /\ target[o] = "Sent" /\ target' = [target EXCEPT ![o] = v]
          /\ UNCHANGED <<intents, answers>>
      BY <1>6 DEF act
    <2>2. answers[o] = {}
      BY <1>0, <2>1, VerdictParts DEF IntentInv
    <2>3. IntentShape(o)'
      BY <2>1, <2>2, VerdictParts DEF IntentInv, IntentShape
    <2>4. \A p \in Ops \ {o} : IntentShape(p)'
      BY <1>0, <2>1 DEF IntentInv, IntentShape
    <2> QED
      BY <1>0, <2>1, <2>2, <2>3, <2>4 DEF IntentInv
  <1>7. CASE Owner \/ Provider \/ Governor
    BY <1>1, <1>7, JournalFrame
  <1> QED
    BY <1>2, <1>3, <1>4, <1>5, <1>6, <1>7 DEF Next, Journal, World

-----------------------------------------------------------------------------
(* Decisions and their one use *)

\* A decision is used once, and only when it is consumed.
LEMMA UseStep ==
  ASSUME TypeOK, CallInv, UseInv, Next
  PROVE  UseInv'
  <1>0. uses \in [Nonces -> Nat] /\ ledger \in [Nonces -> ApprovalType]
    BY DEF TypeOK
  <1>1. \A n \in Nonces : ledger[n].consumed => ledger'[n].consumed
    BY ConsumedIsFinal
  <1>2. ASSUME UNCHANGED uses
        PROVE  UseInv'
    BY <1>1, <1>2 DEF UseInv, OneUsePerDecision
  <1>3. ASSUME NEW w \in Warrants, NEW s \in Sessions, NEW n1 \in Time,
               NEW n2 \in Time, NEW acked \in BOOLEAN,
               start(w, s, n1, n2, acked)
        PROVE  UseInv'
    <2>1. /\ w.nonce \in Nonces /\ ~ledger[w.nonce].consumed
          /\ ledger' = [ledger EXCEPT ![w.nonce].consumed = TRUE]
          /\ uses' = [uses EXCEPT ![w.nonce] = @ + (IF acked THEN 1 ELSE 0)]
      BY <1>3, WarrantParts DEF start, Usable, Consume
    <2>2. uses[w.nonce] = 0 /\ ledger'[w.nonce].consumed
      BY <1>0, <2>1, FlagSet DEF UseInv
    <2> QED
      BY <1>0, <1>1, <2>1, <2>2 DEF UseInv, OneUsePerDecision
  <1>4. ASSUME NEW k \in Callers, NEW n1 \in Time, NEW n2 \in Time,
               NEW acked \in BOOLEAN, dispatch_commit(k, n1, n2, acked)
        PROVE  UseInv'
    <2> DEFINE w == calls[k].warrant
    <2>1. /\ w.nonce \in Nonces /\ ledger[w.nonce].consumed /\ uses[w.nonce] = 0
          /\ uses' = [uses EXCEPT ![w.nonce] = @ + (IF acked THEN 1 ELSE 0)]
      BY <1>4, WarrantParts DEF dispatch_commit, Released, CallInv, Consumers
    <2> QED
      BY <1>0, <1>1, <2>1 DEF UseInv, OneUsePerDecision
  <1>5. CASE Owner \/ Governor \/ World
    BY <1>2, <1>5, GovernorStep DEF Owner, approve, revoke, delegate, World, act
  <1>6. (\E o \in Ops, r \in Resolutions : verify(o, r)) => UseInv'
    BY <1>2 DEF verify
  <1>7. (\E o \in Ops, e \in 0 .. gov.epoch :
          \/ \E r \in Resolutions, now \in Time : apply_resolution(o, e, r, now)
          \/ \E revision \in 0 .. 3 : acknowledge_delivery(o, e, revision)) => UseInv'
    BY <1>2, ResolutionFrame, DeliveryFrame
  <1>8. (\E k \in Callers : \/ \E w \in Warrants, now \in Time : check(k, w, now)
                           \/ \E now \in Time : consume(k, now)) => UseInv'
    BY <1>2 DEF check, consume
  <1> QED
    BY <1>3, <1>4, <1>5, <1>6, <1>7, <1>8 DEF Next, Journal, Provider

\* A caller between consume and dispatch stays alone with its unused decision.
LEMMA CallStep ==
  ASSUME TypeOK, UseInv, CallInv, Next
  PROVE  CallInv'
  <1>0. /\ uses \in [Nonces -> Nat] /\ ledger \in [Nonces -> ApprovalType]
        /\ calls \in [Callers -> [warrant : Warrants \cup {NoWarrant},
                            at : {"IDLE", "CHECKED", "CONSUMED", "SENT", "LOST"}]]
    BY DEF TypeOK
  <1>1. \A n \in Nonces : ledger[n].consumed =>
          ledger'[n].consumed /\ ledger'[n].active = ledger[n].active
    BY ConsumedIsFinal
  <1>2. ASSUME UNCHANGED <<calls, uses>>
        PROVE  CallInv'
    BY <1>1, <1>2, WarrantParts DEF CallInv, Consumers
  <1>3. ASSUME NEW w \in Warrants, NEW s \in Sessions, NEW n1 \in Time,
               NEW n2 \in Time, NEW acked \in BOOLEAN,
               start(w, s, n1, n2, acked)
        PROVE  CallInv'
    <2>1. /\ w.nonce \in Nonces /\ ~ledger[w.nonce].consumed /\ UNCHANGED calls
          /\ uses' = [uses EXCEPT ![w.nonce] = @ + (IF acked THEN 1 ELSE 0)]
      BY <1>3, WarrantParts DEF start, Usable
    <2> QED
      BY <1>0, <1>1, <2>1, WarrantParts DEF CallInv, Consumers
  <1>4. ASSUME NEW k \in Callers, NEW w \in Warrants, NEW now \in Time, check(k, w, now)
        PROVE  CallInv'
    <2>1. /\ w.kind = "call" /\ UNCHANGED <<uses, ledger>>
          /\ calls' = [calls EXCEPT ![k] = [warrant |-> w, at |-> "CHECKED"]]
      BY <1>4 DEF check
    <2> QED
      BY <1>0, <2>1 DEF CallInv, Consumers
  <1>5. ASSUME NEW k \in Callers, NEW now \in Time, consume(k, now)
        PROVE  CallInv'
    <2> DEFINE w == calls[k].warrant
    <2>1. /\ w \in Warrants /\ w.kind = "call" /\ w.nonce \in Nonces /\ UNCHANGED uses
          /\ ~ledger[w.nonce].consumed /\ ledger[w.nonce].active = w
          /\ ledger' = [ledger EXCEPT ![w.nonce].consumed = TRUE]
          /\ calls' = [calls EXCEPT ![k].at = "CONSUMED"]
      BY <1>5, WarrantParts DEF consume, CallInv, Usable, Consume, Called
    <2>2. uses[w.nonce] = 0
      BY <1>0, <2>1 DEF UseInv
    <2>3. ledger'[w.nonce].consumed /\ ledger'[w.nonce].active = w
      BY <1>0, <2>1, FlagSet
    <2>4. /\ calls'[k].at = "CONSUMED" /\ calls'[k].warrant = w
          /\ \A j \in Callers \ {k} : calls'[j] = calls[j]
      BY <1>0, <2>1
    <2>5. \A j \in Callers : calls[j].at \in Consumers => calls[j].warrant.nonce # w.nonce
      BY <2>1 DEF CallInv
    <2> HIDE DEF w
    <2> QED
      BY <1>1, <2>1, <2>2, <2>3, <2>4, <2>5, WarrantParts DEF CallInv, Consumers
  <1>6. ASSUME NEW k \in Callers, NEW n1 \in Time, NEW n2 \in Time,
               NEW acked \in BOOLEAN, dispatch_commit(k, n1, n2, acked)
        PROVE  CallInv'
    <2> DEFINE w == calls[k].warrant
    <2>1. /\ w.nonce \in Nonces /\ calls[k].at = "CONSUMED" /\ UNCHANGED ledger
          /\ uses' = [uses EXCEPT ![w.nonce] = @ + (IF acked THEN 1 ELSE 0)]
          /\ calls' = [calls EXCEPT ![k].at = IF acked THEN "SENT" ELSE "LOST"]
      BY <1>6, WarrantParts DEF dispatch_commit, Released, CallInv, Called
    <2>2. /\ calls'[k].at \in {"SENT", "LOST"}
          /\ calls'[k].warrant = w
          /\ \A j \in Callers \ {k} : calls'[j] = calls[j]
      BY <1>0, <2>1
    <2>3. \A j \in Callers \ {k} : calls[j].at \in Consumers => calls[j].warrant.nonce # w.nonce
      BY <2>1 DEF CallInv, Consumers
    <2>4. \A n \in Nonces \ {w.nonce} : uses'[n] = uses[n]
      BY <1>0, <2>1
    <2> HIDE DEF w
    <2> QED
      BY <2>1, <2>2, <2>3, <2>4, WarrantParts DEF CallInv, Consumers
  <1>7. CASE Owner \/ Governor \/ World
    BY <1>2, <1>7, GovernorStep DEF Owner, approve, revoke, delegate, World, act
  <1>8. (\E o \in Ops, r \in Resolutions : verify(o, r)) => CallInv'
    BY <1>2 DEF verify
  <1>9. (\E o \in Ops, e \in 0 .. gov.epoch :
          \/ \E r \in Resolutions, now \in Time : apply_resolution(o, e, r, now)
          \/ \E revision \in 0 .. 3 : acknowledge_delivery(o, e, revision)) => CallInv'
    BY <1>2, ResolutionFrame, DeliveryFrame
  <1> QED
    BY <1>3, <1>4, <1>5, <1>6, <1>7, <1>8, <1>9 DEF Next, Journal, Provider

-----------------------------------------------------------------------------
(* Intents, warrants and reservations agree *)

\* Whatever happens to the ledger, the four records of an intent agree as long as the
\* intent and its reservation are untouched.
LEMMA IntactFrame ==
  ASSUME TypeOK, IntentInv, CallInv, IntentsStayReadable, Next, NEW o \in Ops,
         intents'[o] = intents[o], intents[o] # NoIntent,
         gov'.reservations[intents[o].warrant.request.id] =
           gov.reservations[intents[o].warrant.request.id]
  PROVE  IntentIntact(o)'
  <1>1. intents[o].warrant.nonce \in Nonces
    BY WarrantParts DEF IntentInv, IntentShape
  <1>2. RecordsAgree(o) /\ IntentIntact(o)
    BY DEF IntentsStayReadable, IntentIntact
  <1>3. RecordsAgree(o)'
    <2>1. /\ ledger'[intents[o].warrant.nonce].consumed
          /\ ledger'[intents[o].warrant.nonce].active = intents[o].warrant
      BY <1>1, <1>2, ConsumedIsFinal DEF RecordsAgree
    <2> QED
      BY <1>2, <2>1 DEF RecordsAgree, Entry
  <1> QED
    BY <1>2, <1>3 DEF IntentIntact, ChargeAgrees, Entry

\* An intent of which the operator settled the reservation, while its outcome is unknown.
LEMMA SettledIntent ==
  ASSUME TypeOK, IntentInv, CallInv, IntentsStayReadable, Next, NEW o \in Ops,
         intents'[o] = intents[o], intents[o] # NoIntent,
         LET id == intents[o].warrant.request.id
         IN  /\ gov.reservations[id].state = "UNKNOWN"
             /\ gov'.reservations[id].state = "COMMITTED"
             /\ gov'.reservations[id].request = gov.reservations[id].request
             /\ gov'.reservations[id].epoch = gov.reservations[id].epoch
  PROVE  IntentIntact(o)'
  <1>1. intents[o].warrant.nonce \in Nonces
    BY WarrantParts DEF IntentInv, IntentShape
  <1>2. RecordsAgree(o) /\ intents[o].outcome = "Unknown"
    BY DEF IntentsStayReadable, ChargeAgrees, Entry
  <1>3. RecordsAgree(o)'
    <2>1. /\ ledger'[intents[o].warrant.nonce].consumed
          /\ ledger'[intents[o].warrant.nonce].active = intents[o].warrant
      BY <1>1, <1>2, ConsumedIsFinal DEF RecordsAgree
    <2> QED
      BY <1>2, <2>1 DEF RecordsAgree, Entry
  <1> QED
    BY <1>2, <1>3 DEF IntentIntact, Entry

\* Every intent stays readable.
LEMMA ReadableStep ==
  ASSUME TypeOK, IntentInv, CallInv, IntentsStayReadable, Next
  PROVE  IntentsStayReadable'
  <1> DEFINE id(o) == intents[o].warrant.request.id
  <1>0. /\ intents \in [Ops -> IntentType] /\ ledger \in [Nonces -> ApprovalType]
        /\ gov.reservations \in [Ids -> EntryType]
    BY DEF TypeOK, SnapshotOK, SnapshotType
  <1>1. ASSUME NEW o \in Ops, intents[o] # NoIntent
        PROVE  /\ intents[o].warrant \in Warrants /\ intents[o].warrant.op = o
               /\ intents[o].warrant.kind # "call"
               /\ id(o) \in Ids /\ id(o) \notin CallIds
               /\ gov.reservations[id(o)].state \in {"UNKNOWN", "COMMITTED"}
    <2>1. /\ intents[o].warrant \in Warrants /\ intents[o].warrant.op = o
          /\ intents[o].warrant.kind # "call"
      BY <1>1 DEF IntentInv, IntentShape
    <2>2. IntentIntact(o)
      BY <1>1 DEF IntentsStayReadable, IntentIntact
    <2> QED
      BY <2>1, <2>2, WarrantParts, RequestsApart DEF IntentIntact, ChargeAgrees, Entry
  <1>2. ASSUME UNCHANGED <<intents, gov>>
        PROVE  IntentsStayReadable'
    BY <1>2, IntactFrame DEF IntentsStayReadable, IntentIntact
  <1>3. ASSUME NEW w \in Warrants, NEW s \in Sessions, NEW n1 \in Time,
               NEW n2 \in Time, NEW acked \in BOOLEAN,
               start(w, s, n1, n2, acked)
        PROVE  IntentsStayReadable'
    <2> DEFINE i == [warrant |-> w, outcome |-> "Unknown", resolution |-> None,
                     box |-> "HELD", revision |-> 1]
               r == [request |-> w.request, epoch |-> w.epoch, state |-> "UNKNOWN",
                     evidence |-> Liability]
    <2>1. /\ w.op \in Ops /\ w.nonce \in Nonces /\ w.request.id \in Ids
          /\ ledger[w.nonce].active = w
          /\ ledger' = [ledger EXCEPT ![w.nonce].consumed = TRUE]
          /\ intents' = [intents EXCEPT ![w.op] = i] /\ intents[w.op] = NoIntent
      BY <1>3, WarrantParts DEF start, Usable, Consume
    <2>2. gov'.reservations = [gov.reservations EXCEPT ![w.request.id] = r]
      BY <1>3, StartStep
    <2>3. IntentIntact(w.op)'
      <3>1. ledger'[w.nonce].active = w /\ ledger'[w.nonce].consumed
        BY <1>0, <2>1, FlagSet
      <3>2. intents'[w.op] = i /\ gov'.reservations[w.request.id] = r
        BY <1>0, <2>1, <2>2
      <3> QED
        BY <3>1, <3>2 DEF IntentIntact, RecordsAgree, ChargeAgrees, Entry
    <2>4. ASSUME NEW o \in Ops, intents'[o] # NoIntent, o # w.op
          PROVE  IntentIntact(o)'
      <3>1. intents'[o] = intents[o]
        BY <1>0, <2>1, <2>4
      <3>2. id(o) # w.request.id
        BY <1>1, <2>4, <3>1, RequestsApart
      <3>3. gov'.reservations[id(o)] = gov.reservations[id(o)]
        BY <1>0, <1>1, <2>2, <2>4, <3>1, <3>2
      <3> QED
        BY <2>4, <3>1, <3>3, IntactFrame
    <2> QED
      BY <2>3, <2>4 DEF IntentsStayReadable, IntentIntact
  <1>4. ASSUME NEW o \in Ops, NEW e \in 0 .. gov.epoch, NEW r \in Resolutions,
               NEW now \in Time, apply_resolution(o, e, r, now)
        PROVE  IntentsStayReadable'
    <2>1. /\ intents' = [intents EXCEPT ![o] = Learned(intents[o], r)]
          /\ intents[o] # NoIntent /\ intents[o].outcome = "Unknown" /\ UNCHANGED ledger
          /\ RecordsAgree(o)
      BY <1>4, LearnedStored DEF apply_resolution, Readable
    <2>2. gov'.reservations = [gov.reservations EXCEPT ![id(o)] =
             Resolved(gov.reservations[id(o)], "COMMITTED", r)]
      BY <1>1, <1>4, <2>1, ResolutionStep
    <2>3. IntentIntact(o)'
      <3>1. /\ intents'[o].warrant = intents[o].warrant /\ intents'[o].outcome = VerdictOf[r]
            /\ intents'[o].resolution = r /\ intents'[o].box = "PENDING"
        BY <1>0, <2>1 DEF Learned
      <3>2. gov.reservations[id(o)] \in EntryType /\ id(o) \in Ids
        BY <1>0, <1>1, <2>1
      <3>3. gov'.reservations[id(o)] = Resolved(gov.reservations[id(o)], "COMMITTED", r)
        BY <1>0, <2>2, <3>2
      <3>4. /\ gov'.reservations[id(o)].request = gov.reservations[id(o)].request
            /\ gov'.reservations[id(o)].epoch = gov.reservations[id(o)].epoch
            /\ gov'.reservations[id(o)].state = "COMMITTED"
            /\ gov'.reservations[id(o)].evidence = r
        BY <3>2, <3>3 DEF Resolved, EntryType
      <3> QED
        BY <2>1, <3>1, <3>4, VerdictParts DEF IntentIntact, RecordsAgree, ChargeAgrees, Entry
    <2>4. ASSUME NEW p \in Ops, intents'[p] # NoIntent, p # o
          PROVE  IntentIntact(p)'
      <3>1. intents'[p] = intents[p]
        BY <1>0, <2>1, <2>4
      <3>2. id(p) # id(o)
        BY <1>1, <2>1, <2>4, <3>1, RequestsApart
      <3>3. gov'.reservations[id(p)] = gov.reservations[id(p)]
        BY <1>0, <1>1, <2>2, <2>4, <3>1, <3>2
      <3> QED
        BY <2>4, <3>1, <3>3, IntactFrame
    <2> QED
      BY <2>3, <2>4 DEF IntentsStayReadable, IntentIntact
  <1>5. ASSUME NEW o \in Ops, NEW e \in 0 .. gov.epoch, NEW revision \in 0 .. 3,
               acknowledge_delivery(o, e, revision)
        PROVE  IntentsStayReadable'
    <2>1. /\ intents' = [intents EXCEPT ![o] = Delivered(intents[o])]
          /\ intents[o].resolution # None /\ UNCHANGED <<ledger, gov>>
          /\ RecordsAgree(o) /\ ChargeAgrees(o)
          /\ intents[o] # NoIntent
      BY <1>5, DeliveredStored DEF acknowledge_delivery, Readable, Deliverable
    <2>2. intents[o].outcome # "Unknown"
      BY <2>1, VerdictParts DEF IntentInv, IntentShape
    <2>3. /\ intents'[o].warrant = intents[o].warrant /\ intents'[o].outcome = intents[o].outcome
          /\ intents'[o].resolution = intents[o].resolution /\ intents'[o].box = "DELIVERED"
      BY <1>0, <2>1 DEF Delivered
    <2>4. IntentIntact(o)'
      BY <2>1, <2>2, <2>3 DEF IntentIntact, RecordsAgree, ChargeAgrees, Entry
    <2>5. ASSUME NEW p \in Ops, intents'[p] # NoIntent, p # o
          PROVE  IntentIntact(p)'
      <3>1. intents'[p] = intents[p]
        BY <1>0, <2>1, <2>5
      <3> QED
        BY <2>1, <2>5, <3>1, IntactFrame
    <2> QED
      BY <2>4, <2>5 DEF IntentsStayReadable, IntentIntact
  <1>6. ASSUME NEW k \in Callers, NEW n1 \in Time, NEW n2 \in Time,
               NEW acked \in BOOLEAN, dispatch_commit(k, n1, n2, acked)
        PROVE  IntentsStayReadable'
    <2> DEFINE c == calls[k].warrant.request.id
    <2>1. /\ calls[k].warrant \in Warrants /\ calls[k].warrant.kind = "call"
          /\ UNCHANGED intents
      BY <1>6 DEF dispatch_commit, Released, CallInv
    <2>2. c \in CallIds /\ c \in Ids
      BY <2>1, WarrantParts, RequestsApart
    <2>3. \A i \in Ids \ {c} : gov'.reservations[i] = gov.reservations[i]
      BY <1>6, <2>1, ReleaseStep
    <2>4. ASSUME NEW o \in Ops, intents'[o] # NoIntent
          PROVE  IntentIntact(o)'
      <3>1. id(o) \in Ids /\ id(o) # c
        BY <1>1, <2>1, <2>2, <2>4
      <3>2. gov'.reservations[id(o)] = gov.reservations[id(o)]
        BY <1>0, <2>3, <3>1
      <3> QED
        BY <2>1, <2>4, <3>2, IntactFrame
    <2> QED
      BY <2>4 DEF IntentsStayReadable, IntentIntact
  <1>7. CASE Governor
    <2>1. UNCHANGED intents
      BY <1>7, GovernorStep
    <2>2. ASSUME NEW o \in Ops, intents'[o] # NoIntent
          PROVE  IntentIntact(o)'
      <3>1. CASE gov'.reservations[id(o)] = gov.reservations[id(o)]
        BY <2>1, <2>2, <3>1, IntactFrame
      <3>2. ASSUME NEW i \in Ids, Outside(i), i = id(o)
            PROVE  IntentIntact(o)'
        <4>1. /\ gov.reservations[i].state = "UNKNOWN" /\ gov'.reservations[i].state = "COMMITTED"
              /\ gov'.reservations[i].request = gov.reservations[i].request
              /\ gov'.reservations[i].epoch = gov.reservations[i].epoch
          BY <1>1, <2>1, <2>2, <3>2 DEF Outside
        <4> QED
          BY <2>1, <2>2, <3>2, <4>1, SettledIntent
      <3>3. ASSUME NEW i \in Ids, Outside(i), i # id(o)
            PROVE  gov'.reservations[id(o)] = gov.reservations[id(o)]
        BY <1>1, <2>1, <2>2, <3>3 DEF Outside
      <3> QED
        BY <1>7, <3>1, <3>2, <3>3, GovernorStep
    <2> QED
      BY <2>2 DEF IntentsStayReadable, IntentIntact
  <1>8. CASE Owner \/ World
    BY <1>2, <1>8 DEF Owner, approve, revoke, delegate, World, act
  <1>9. (\E o \in Ops, r \in Resolutions : verify(o, r)) => IntentsStayReadable'
    BY <1>2 DEF verify
  <1>10. (\E k \in Callers : \/ \E w \in Warrants, now \in Time : check(k, w, now)
                            \/ \E now \in Time : consume(k, now))
           => IntentsStayReadable'
    BY <1>2 DEF check, consume
  <1> QED
    BY <1>3, <1>4, <1>5, <1>6, <1>7, <1>8, <1>9, <1>10 DEF Next, Journal, Provider

\* The caller that used up the decision about a call, alone, and sent it.
Sender(k, id) ==
  LET w == calls[k].warrant
  IN  /\ calls[k].at \in {"SENT", "LOST"} /\ w.request.id = id
      /\ ledger[w.nonce].consumed /\ ledger[w.nonce].active = w
      /\ \A j \in Callers \ {k} :
           calls[j].at \in Consumers => calls[j].warrant.nonce # w.nonce

\* A caller that was through stays the sender of its call.
LEMMA SenderStays ==
  ASSUME TypeOK, CallInv, CallInv', Next, NEW k \in Callers, NEW id, Sender(k, id),
         calls'[k] = calls[k]
  PROVE  Sender(k, id)'
  <1>1. calls[k].warrant.nonce \in Nonces
    BY WarrantParts DEF Sender, CallInv
  <1>2. /\ ledger'[calls[k].warrant.nonce].consumed
        /\ ledger'[calls[k].warrant.nonce].active = calls[k].warrant
    BY <1>1, ConsumedIsFinal DEF Sender
  <1>3. \A j \in Callers \ {k} :
          calls'[j].at \in Consumers => calls'[j].warrant.nonce # calls'[k].warrant.nonce
    BY DEF CallInv, Sender, Consumers
  <1> QED
    BY <1>2, <1>3 DEF Sender

\* No step changes what a caller that is through has done.
LEMMA ThroughIsFinal ==
  ASSUME TypeOK, Next, NEW k \in Callers, calls[k].at \in {"SENT", "LOST"}
  PROVE  calls'[k] = calls[k]
  <1>0. calls \in [Callers -> [warrant : Warrants \cup {NoWarrant},
                            at : {"IDLE", "CHECKED", "CONSUMED", "SENT", "LOST"}]]
    BY DEF TypeOK
  <1>1. CASE Owner \/ Journal \/ World
    <2>1. (\E w \in Warrants, s \in Sessions, n1, n2 \in Time, acked \in BOOLEAN :
             start(w, s, n1, n2, acked)) => UNCHANGED calls
      BY DEF start
    <2>2. CASE Journal
      BY <2>1, <2>2, ResolutionFrame, DeliveryFrame DEF Journal, verify
    <2> QED
      BY <1>1, <2>2 DEF Owner, approve, revoke, delegate, World, act
  <1>2. CASE Governor
    BY <1>2, GovernorStep
  <1>3. ASSUME NEW j \in Callers, NEW w \in Warrants, NEW now \in Time, check(j, w, now)
        PROVE  calls'[k] = calls[k]
    <2>1. j # k
      BY <1>3 DEF check, NoCall
    <2> QED
      BY <1>0, <1>3, <2>1 DEF check
  <1>4. ASSUME NEW j \in Callers, NEW now \in Time, consume(j, now)
        PROVE  calls'[k] = calls[k]
    <2>1. j # k
      BY <1>4 DEF consume
    <2> QED
      BY <1>0, <1>4, <2>1 DEF consume, Called
  <1>5. ASSUME NEW j \in Callers, NEW n1 \in Time, NEW n2 \in Time, NEW acked \in BOOLEAN,
               dispatch_commit(j, n1, n2, acked)
        PROVE  calls'[k] = calls[k]
    <2>1. j # k
      BY <1>5 DEF dispatch_commit, Released
    <2> QED
      BY <1>0, <1>5, <2>1 DEF dispatch_commit, Called
  <1> QED
    BY <1>1, <1>2, <1>3, <1>4, <1>5 DEF Next, Provider

\* A provider call that was sent was sent by the one caller that used up its decision.
LEMMA SentStep ==
  ASSUME TypeOK, IntentInv, CallInv, CallInv', SentWasConsumed, Next
  PROVE  SentWasConsumed'
  <1>0. gov.reservations \in [Ids -> EntryType]
    BY DEF TypeOK, SnapshotOK, SnapshotType
  <1>1. ASSUME NEW id \in CallIds, gov'.reservations[id].state \in SpentState,
               gov.reservations[id].state \in SpentState
        PROVE  \E k \in Callers : Sender(k, id)'
    <2>1. PICK k \in Callers : Sender(k, id)
      BY <1>1 DEF SentWasConsumed, Entry, Sender, Consumers
    <2>2. calls'[k] = calls[k]
      BY <2>1, ThroughIsFinal DEF Sender
    <2> QED
      BY <2>1, <2>2, SenderStays
  <1>2. ASSUME \A id \in CallIds :
                 gov'.reservations[id].state \in SpentState => gov.reservations[id].state \in SpentState
        PROVE  SentWasConsumed'
    BY <1>1, <1>2 DEF SentWasConsumed, Entry, Sender, Consumers
  <1>3. ASSUME UNCHANGED gov
        PROVE  SentWasConsumed'
    BY <1>2, <1>3
  <1>4. ASSUME NEW w \in Warrants, NEW s \in Sessions, NEW n1 \in Time,
               NEW n2 \in Time, NEW acked \in BOOLEAN,
               start(w, s, n1, n2, acked)
        PROVE  SentWasConsumed'
    <2>1. w.request.id \notin CallIds
      BY <1>4, RequestsApart DEF start
    <2>2. \A id \in CallIds : gov'.reservations[id] = gov.reservations[id]
      <3>1. gov'.reservations = [gov.reservations EXCEPT ![w.request.id] =
              [request |-> w.request, epoch |-> w.epoch, state |-> "UNKNOWN",
               evidence |-> Liability]]
        BY <1>4, StartStep
      <3> QED
        BY <1>0, <2>1, <3>1, CallIdsAreIds
    <2> QED
      BY <1>2, <2>2
  <1>5. ASSUME NEW o \in Ops, NEW e \in 0 .. gov.epoch, NEW r \in Resolutions,
               NEW now \in Time, apply_resolution(o, e, r, now)
        PROVE  SentWasConsumed'
    <2> DEFINE id == intents[o].warrant.request.id
    <2>1. intents[o].warrant \in Warrants /\ intents[o].warrant.kind # "call"
      BY <1>5 DEF apply_resolution, Readable, IntentInv, IntentShape
    <2>2. id \notin CallIds
      BY <2>1, RequestsApart
    <2>3. gov'.reservations = [gov.reservations EXCEPT ![id] =
             Resolved(gov.reservations[id], "COMMITTED", r)]
      BY <1>5, <2>1, ResolutionStep
    <2>4. \A i \in CallIds : gov'.reservations[i] = gov.reservations[i]
      BY <1>0, <2>2, <2>3, CallIdsAreIds
    <2> QED
      BY <1>2, <2>4
  <1>6. ASSUME NEW k \in Callers, NEW n1 \in Time, NEW n2 \in Time,
               NEW acked \in BOOLEAN, dispatch_commit(k, n1, n2, acked)
        PROVE  SentWasConsumed'
    <2> DEFINE w == calls[k].warrant
    <2>1. /\ w \in Warrants /\ w.nonce \in Nonces /\ UNCHANGED ledger
          /\ ledger[w.nonce].consumed /\ ledger[w.nonce].active = w
          /\ calls' = [calls EXCEPT ![k].at = IF acked THEN "SENT" ELSE "LOST"]
      BY <1>6, WarrantParts DEF dispatch_commit, Released, CallInv, Consumers, Called
    <2>2. \A i \in Ids \ {w.request.id} : gov'.reservations[i] = gov.reservations[i]
      BY <1>6, <2>1, ReleaseStep
    <2>3. calls'[k].at \in {"SENT", "LOST"} /\ calls'[k].warrant = w
      BY <2>1 DEF TypeOK
    <2>4. ASSUME NEW id \in CallIds, id = w.request.id
          PROVE  Sender(k, id)'
      <3>1. \A l \in Callers \ {k} :
              calls'[l].at \in Consumers => calls'[l].warrant.nonce # calls'[k].warrant.nonce
        BY <2>3 DEF CallInv, Consumers
      <3> QED
        BY <2>1, <2>3, <2>4, <3>1 DEF Sender
    <2>5. ASSUME NEW id \in CallIds, gov'.reservations[id].state \in SpentState
          PROVE  \E l \in Callers : Sender(l, id)'
      <3>1. CASE id = w.request.id
        BY <2>4, <3>1
      <3>2. CASE id # w.request.id
        <4>1. gov'.reservations[id] = gov.reservations[id]
          BY <1>0, <2>2, <3>2, CallIdsAreIds
        <4> QED
          BY <1>1, <2>5, <4>1
      <3> QED
        BY <3>1, <3>2
    <2> QED
      BY <2>5 DEF SentWasConsumed, Entry, Sender, Consumers
  <1>7. CASE Governor
    <2>1. CASE gov'.reservations = gov.reservations
      BY <1>2, <2>1
    <2>2. ASSUME NEW i \in Ids, Outside(i)
          PROVE  SentWasConsumed'
      <3>1. \A id \in CallIds : gov'.reservations[id].state \in SpentState =>
                                gov.reservations[id].state \in SpentState
        BY <2>2, CallIdsAreIds DEF Outside, SpentState
      <3> QED
        BY <1>2, <3>1
    <2> QED
      BY <1>7, <2>1, <2>2, GovernorStep
  <1>8. CASE Owner \/ World
    BY <1>3, <1>8 DEF Owner, approve, revoke, delegate, World, act
  <1>9. (\E o \in Ops, r \in Resolutions : verify(o, r)) => SentWasConsumed'
    BY <1>3 DEF verify
  <1>10. (\E o \in Ops, e \in 0 .. gov.epoch, revision \in 0 .. 3 :
            acknowledge_delivery(o, e, revision)) => SentWasConsumed'
    BY <1>3 DEF acknowledge_delivery
  <1>11. (\E k \in Callers : \/ \E w \in Warrants, now \in Time : check(k, w, now)
                            \/ \E now \in Time : consume(k, now))
           => SentWasConsumed'
    BY <1>3 DEF check, consume
  <1> QED
    BY <1>4, <1>5, <1>6, <1>7, <1>8, <1>9, <1>10, <1>11 DEF Next, Journal, Provider

-----------------------------------------------------------------------------
(* Theorems *)

\* The inductive invariant.
THEOREM JournalIsInvariant == Spec => []JournalInv
  <1>1. JournalInv /\ [Next]_vars => JournalInv'
    <2> SUFFICES ASSUME JournalInv, [Next]_vars PROVE JournalInv'
      OBVIOUS
    <2>1. CASE Next
      BY <2>1, TypeStep, IntentStep, ReadableStep, UseStep, CallStep, SentStep DEF JournalInv
    <2>2. CASE UNCHANGED vars
      <3>1. TypeOK'
        BY <2>2 DEF vars, JournalInv, TypeOK
      <3>2. IntentInv'
        BY <2>2 DEF vars, JournalInv, IntentInv, IntentShape
      <3>3. IntentsStayReadable'
        BY <2>2 DEF vars, JournalInv, IntentsStayReadable, RecordsAgree, ChargeAgrees, Entry
      <3>4. UseInv' /\ CallInv'
        BY <2>2 DEF vars, JournalInv, UseInv, OneUsePerDecision, CallInv
      <3>5. SentWasConsumed'
        BY <2>2 DEF vars, JournalInv, SentWasConsumed, Entry
      <3> QED
        BY <3>1, <3>2, <3>3, <3>4, <3>5 DEF JournalInv
    <2> QED
      BY <2>1, <2>2
  <1> QED
    BY <1>1, InitJournal, PTL DEF Spec

\* Type correctness of the ledger, the journal, the provider release and their governor.
THEOREM JournalTypeCorrect == Spec => []TypeOK
  <1>1. JournalInv => TypeOK
    BY DEF JournalInv
  <1> QED
    BY <1>1, JournalIsInvariant, PTL

\* One human decision is one permission, whichever of START and a provider call it admits,
\* however often it was delegated, and whichever commits were lost.
THEOREM DecisionsAreUsedOnce == Spec => []OneUsePerDecision
  <1>1. JournalInv => OneUsePerDecision
    BY DEF JournalInv, UseInv
  <1> QED
    BY <1>1, JournalIsInvariant, PTL

\* Intent, outbox, warrant and reservation of every started operation agree for ever, but
\* for an intent whose reservation the operator settled while its outcome was unknown.
THEOREM IntentsReadable == Spec => []IntentsStayReadable
  <1>1. JournalInv => IntentsStayReadable
    BY DEF JournalInv
  <1> QED
    BY <1>1, JournalIsInvariant, PTL

\* What is delivered is what happened.
THEOREM DeliveryIsTrue == Spec => []DeliveredIsTrue
  <1>1. JournalInv => DeliveredIsTrue
    BY DEF JournalInv, IntentInv, IntentShape, DeliveredIsTrue, NoIntent
  <1> QED
    BY <1>1, JournalIsInvariant, PTL

\* A provider call that may have been sent was sent by the one caller that had used up the
\* decision about it.
THEOREM SentCallsConsumed == Spec => []SentWasConsumed
  <1>1. JournalInv => SentWasConsumed
    BY DEF JournalInv
  <1> QED
    BY <1>1, JournalIsInvariant, PTL

\* After revocation nothing is consumed, delegated or permitted but the dispatch of a
\* caller that had consumed the decision before.
THEOREM RevocationHolds == Spec => RevokedGrantsNothing
  <1>1. JournalInv /\ [Next]_vars =>
          [\A n \in Nonces : ledger[n].revoked =>
             /\ ledger'[n].consumed = ledger[n].consumed
             /\ ledger'[n].active = ledger[n].active
             /\ uses'[n] # uses[n] =>
                  \E k \in Callers : /\ calls[k].warrant.nonce = n /\ calls[k].at = "CONSUMED"
                                     /\ calls'[k].at = "SENT"]_vars
    <2> SUFFICES ASSUME JournalInv, Next, NEW n \in Nonces, ledger[n].revoked
                 PROVE  /\ ledger'[n].consumed = ledger[n].consumed
                        /\ ledger'[n].active = ledger[n].active
                        /\ uses'[n] # uses[n] =>
                             \E k \in Callers : /\ calls[k].warrant.nonce = n
                                                /\ calls[k].at = "CONSUMED"
                                                /\ calls'[k].at = "SENT"
      OBVIOUS
    <2> DEFINE Kept == /\ ledger'[n].consumed = ledger[n].consumed
                       /\ ledger'[n].active = ledger[n].active
                       /\ uses'[n] = uses[n]
    <2>0. /\ TypeOK /\ CallInv /\ uses \in [Nonces -> Nat]
          /\ ledger \in [Nonces -> ApprovalType] /\ ~NoApproval.revoked
          /\ calls \in [Callers -> [warrant : Warrants \cup {NoWarrant},
                            at : {"IDLE", "CHECKED", "CONSUMED", "SENT", "LOST"}]]
      BY DEF JournalInv, TypeOK, NoApproval
    <2>1. ASSUME UNCHANGED <<ledger, uses>>
          PROVE  Kept
      BY <2>1
    <2>2. ASSUME NEW w \in Warrants, NEW s \in Sessions, NEW now \in Time, approve(w, s, now)
          PROVE  Kept
      BY <2>0, <2>2, WarrantParts DEF approve, Registrable
    <2>3. ASSUME NEW w \in Warrants, revoke(w)
          PROVE  Kept
      BY <2>0, <2>3, WarrantParts, FlagSet DEF revoke
    <2>4. ASSUME NEW w \in Warrants, NEW c \in Warrants \ {w}, NEW n1 \in Time, NEW n2 \in Time,
                 delegate(w, c, n1, n2)
          PROVE  Kept
      BY <2>0, <2>4, WarrantParts DEF delegate, Usable
    <2>5. ASSUME NEW w \in Warrants, NEW s \in Sessions, NEW n1 \in Time, NEW n2 \in Time,
                 NEW acked \in BOOLEAN, start(w, s, n1, n2, acked)
          PROVE  Kept
      BY <2>0, <2>5, WarrantParts DEF start, Usable, Consume
    <2>6. ASSUME NEW k \in Callers, NEW now \in Time, consume(k, now)
          PROVE  Kept
      BY <2>0, <2>6, WarrantParts DEF consume, Usable, Consume, CallInv
    <2>7. ASSUME NEW k \in Callers, NEW n1 \in Time, NEW n2 \in Time,
                 NEW acked \in BOOLEAN, dispatch_commit(k, n1, n2, acked)
          PROVE  /\ UNCHANGED ledger
                 /\ uses'[n] # uses[n] => /\ calls[k].warrant.nonce = n
                                          /\ calls[k].at = "CONSUMED"
                                          /\ calls'[k].at = "SENT"
      <3>1. /\ UNCHANGED ledger /\ calls[k].at = "CONSUMED"
            /\ calls' = [calls EXCEPT ![k].at = IF acked THEN "SENT" ELSE "LOST"]
            /\ uses' = [uses EXCEPT ![calls[k].warrant.nonce] = @ + (IF acked THEN 1 ELSE 0)]
        BY <2>7 DEF dispatch_commit, Released, Called
      <3>2. CASE acked
        BY <2>0, <3>1, <3>2
      <3>3. CASE ~acked
        BY <2>0, <3>1, <3>3
      <3> QED
        BY <3>1, <3>2, <3>3
    <2>8. (\E k \in Callers, w \in Warrants, now \in Time : check(k, w, now))
            => UNCHANGED <<ledger, uses>>
      BY DEF check
    <2>9. (\E o \in Ops, r \in Resolutions : verify(o, r)) => UNCHANGED <<ledger, uses>>
      BY DEF verify
    <2>10. (\E o \in Ops, e \in 0 .. gov.epoch :
             \/ \E r \in Resolutions, now \in Time : apply_resolution(o, e, r, now)
             \/ \E revision \in 0 .. 3 : acknowledge_delivery(o, e, revision))
             => UNCHANGED <<ledger, uses>>
      BY ResolutionFrame, DeliveryFrame
    <2>11. Governor \/ World => UNCHANGED <<ledger, uses>>
      BY <2>0, GovernorStep DEF World, act
    <2> QED
      BY <2>1, <2>2, <2>3, <2>4, <2>5, <2>6, <2>7, <2>8, <2>9, <2>10, <2>11
      DEF Next, Owner, Journal, Provider
  <1> QED
    BY <1>1, JournalIsInvariant, PTL DEF Spec, RevokedGrantsNothing

\* The journal implements SerialEffects: START sends, resolution learns, acknowledgement
\* delivers, and nothing else is visible to the owner.
THEOREM JournalImplementsSerialEffects == Spec => ImplementsSerialEffects
  <1> DEFINE outcome == [o \in Ops |-> intents[o].outcome]
             delivered == {o \in Ops : intents[o].box = "DELIVERED"}
  <1>1. Init => Effects!Init
    BY DEF Init, Effects!Init, NoIntent
  <1>2. JournalInv /\ [Next]_vars => [Effects!Next]_<<outcome, delivered>>
    <2> SUFFICES ASSUME JournalInv, [Next]_vars
                 PROVE  Effects!Next \/ UNCHANGED <<outcome, delivered>>
      OBVIOUS
    <2>0. TypeOK /\ IntentInv /\ intents \in [Ops -> IntentType]
      BY DEF JournalInv, TypeOK
    <2>1. ASSUME UNCHANGED intents
          PROVE  UNCHANGED <<outcome, delivered>>
      BY <2>1
    <2>2. ASSUME NEW w \in Warrants, NEW s \in Sessions, NEW n1 \in Time,
               NEW n2 \in Time, NEW acked \in BOOLEAN,
                 start(w, s, n1, n2, acked)
          PROVE  Effects!Send(w.op)
      <3>1. /\ w.op \in Ops /\ intents[w.op] = NoIntent
            /\ \A p \in Ops : intents[p].outcome # "Unknown"
            /\ intents' = [intents EXCEPT ![w.op] =
                 [warrant |-> w, outcome |-> "Unknown", resolution |-> None, box |-> "HELD",
                  revision |-> 1]]
        BY <2>2, WarrantParts DEF start, Barrier, Unresolved
      <3>2. /\ intents[w.op].outcome = "None" /\ intents[w.op].box # "DELIVERED"
            /\ intents'[w.op].outcome = "Unknown" /\ intents'[w.op].box # "DELIVERED"
            /\ \A p \in Ops \ {w.op} : intents'[p] = intents[p]
        BY <2>0, <3>1 DEF NoIntent
      <3> QED
        BY <3>1, <3>2 DEF Effects!Send
    <2>3. ASSUME NEW o \in Ops, NEW e \in 0 .. gov.epoch, NEW r \in Resolutions,
                 NEW now \in Time, apply_resolution(o, e, r, now)
          PROVE  Effects!Learn(o, VerdictOf[r])
      <3>1. /\ intents[o].outcome = "Unknown" /\ intents[o] # NoIntent
            /\ intents' = [intents EXCEPT ![o] = Learned(intents[o], r)]
        <4>1. intents' = [intents EXCEPT ![o] = Learned(intents[o], r)]
          BY <2>0, <2>3, LearnedStored
        <4> QED
          BY <2>3, <4>1 DEF apply_resolution, Readable
      <3>2. intents[o].box = "HELD"
        BY <2>0, <3>1, VerdictParts DEF IntentInv, IntentShape
      <3>3. /\ intents'[o].outcome = VerdictOf[r] /\ intents'[o].box = "PENDING"
            /\ \A p \in Ops \ {o} : intents'[p] = intents[p]
        BY <2>0, <3>1 DEF Learned
      <3>4. delivered' = delivered
        BY <3>2, <3>3
      <3>5. outcome' = [outcome EXCEPT ![o] = VerdictOf[r]]
        BY <3>3
      <3> QED
        BY <3>1, <3>4, <3>5 DEF Effects!Learn
    <2>4. ASSUME NEW o \in Ops, NEW e \in 0 .. gov.epoch, NEW revision \in 0 .. 3,
                 acknowledge_delivery(o, e, revision)
          PROVE  Effects!Deliver(o)
      <3>1. /\ intents[o].resolution # None /\ intents[o].box # "DELIVERED"
            /\ intents[o] # NoIntent
            /\ intents' = [intents EXCEPT ![o] = Delivered(intents[o])]
        BY <2>0, <2>4, DeliveredStored DEF acknowledge_delivery, Readable, Deliverable
      <3>2. intents[o].outcome \in Verdicts
        BY <2>0, <3>1, VerdictParts DEF IntentInv, IntentShape
      <3>3. /\ intents'[o].outcome = intents[o].outcome /\ intents'[o].box = "DELIVERED"
            /\ \A p \in Ops \ {o} : intents'[p] = intents[p]
        BY <2>0, <3>1 DEF Delivered
      <3> QED
        BY <3>1, <3>2, <3>3 DEF Effects!Deliver, Effects!Verdicts, Verdicts
    <2>5. CASE Owner \/ Provider \/ Governor
      BY <2>0, <2>1, <2>5, JournalFrame
    <2>6. (\E o \in Ops, r \in Resolutions : verify(o, r)) => UNCHANGED intents
      BY DEF verify
    <2>7. (\E o \in Ops, v \in Verdicts : act(o, v)) => UNCHANGED intents
      BY DEF act
    <2>8. CASE UNCHANGED vars
      BY <2>1, <2>8 DEF vars
    <2>9. \A r \in Resolutions : VerdictOf[r] \in Effects!Verdicts
      BY VerdictParts DEF Effects!Verdicts, Verdicts
    <2>10. CASE Journal
      BY <2>1, <2>2, <2>3, <2>4, <2>6, <2>9, <2>10, WarrantParts DEF Journal, Effects!Next
    <2> QED
      BY <2>1, <2>5, <2>7, <2>8, <2>10 DEF Next, World
  <1> QED
    BY <1>1, <1>2, JournalIsInvariant, PTL
    DEF Spec, ImplementsSerialEffects, Effects!Spec
=============================================================================
