----------------------------- MODULE JobsProofs -----------------------------
(***************************************************************************)
(* Safety of the advisory jobs, for any tasks, workers, leases, deadlines, *)
(* dependencies and policy.                                                *)
(***************************************************************************)
EXTENDS Jobs, GovernorStateProofs, FiniteSetTheorems

\* A begin call on its way back is the only one its task ever had, and its claim is still
\* on record unless its lease has run out by the reading the record holds.
CallOK(t) ==
  pending[t] # NoCall =>
    /\ pending[t].claim \in Claims
    /\ steps[t] = {}
    /\ job[t].claim = pending[t].claim \/ job[t].last_now >= pending[t].claim.lease

\* Whoever was or will be told to step has started the job.
StepOK(t) ==
  /\ steps[t] # {} \/ pending[t] # NoCall => job[t].state \in {"STARTED", "UNKNOWN", "DONE"}
  /\ \A c, d \in steps[t] : c = d

StepInv == \A t \in Tasks : CallOK(t) /\ StepOK(t)

JobsInv == TypeOK /\ JobMatchesReservation /\ StepInv /\ RequiredTasksFirst

-----------------------------------------------------------------------------
(* Tasks and claims *)

\* A task has one envelope, and its reservation is its own.
LEMMA TaskParts ==
  ASSUME NEW t \in Tasks
  PROVE  /\ Envelope(t) \in Requests /\ IdOf(t) \in Ids
         /\ \A u \in Tasks : IdOf(u) = IdOf(t) => u = t
  <1>1. \A u \in Tasks : Envelope(u) \in Requests /\ Envelope(u).task = u
    BY DEF Envelope, Tasks
  <1>2. \A u \in Tasks : IdOf(u) = IdOf(t) => u = t
    BY <1>1, JobsAssumption DEF IdOf
  <1> QED
    BY <1>1, <1>2, RequestParts DEF IdOf

\* A lease runs to a time.
LEMMA LeaseType ==
  ASSUME NEW t \in Tasks, NEW lease \in Leases, NEW now \in Time
  PROVE  LeaseUntil(t, lease, now) \in Nat
  <1>1. now + lease \in Nat /\ Deadline[t] \in Nat
    BY JobsAssumption DEF Time
  <1>2. \E x \in {now + lease, Deadline[t]} : \A y \in {now + lease, Deadline[t]} : x <= y
    BY <1>1
  <1>3. Min({now + lease, Deadline[t]}) \in {now + lease, Deadline[t]}
    BY <1>2 DEF Min
  <1> QED
    BY <1>1, <1>3 DEF LeaseUntil

\* The absent claim is no claim.
LEMMA ClaimParts ==
  /\ NoClaim \notin Claims
  /\ \A c \in Claims : c.lease \in Nat /\ c.epoch \in Nat \ {0}
  BY JobsAssumption DEF NoClaim, Claims

\* A new claim is a claim.
LEMMA NewClaimType ==
  ASSUME TypeOK, NEW t \in Tasks, NEW w \in Workers, NEW e \in Nat \ {0},
         NEW lease \in Leases, NEW now \in Time
  PROVE  NewClaim(t, w, e, lease, now) \in Claims
  <1>1. job[t].claim.fence \in Nat
    BY DEF TypeOK, JobType, Claims, NoClaim
  <1> QED
    BY <1>1, LeaseType DEF NewClaim, Claims

-----------------------------------------------------------------------------
(* What a transaction stores *)

\* A step that may change the job and the reservation of t, and no other.
Frame(t) ==
  /\ SnapshotOK(gov')
  /\ \A i \in Ids \ {IdOf(t)} : gov'.reservations[i] = gov.reservations[i]
  /\ job' \in [Tasks -> JobType]
  /\ \A u \in Tasks \ {t} : job'[u] = job[u]
  /\ job'[t].last_now >= job[t].last_now
  /\ job[t].state # "NONE" => job'[t].requires = job[t].requires

\* gov._write and write_job store what they are given, and a new version.
LEMMA SaveStep ==
  ASSUME TypeOK, NEW t \in Tasks, NEW g, SnapshotOK(g), NEW j \in JobType, NEW now \in Time,
         Save(t, g, j, now), now >= job[t].last_now,
         job[t].state # "NONE" => j.requires = job[t].requires,
         \A i \in Ids \ {IdOf(t)} : g.reservations[i] = gov.reservations[i]
  PROVE  /\ Frame(t)
         /\ gov'.reservations = g.reservations
         /\ job'[t].state = j.state /\ job'[t].claim = j.claim /\ job'[t].result = j.result
         /\ job'[t].last_now = now
  <1> DEFINE v  == job[t].version + 1
             j1 == [j EXCEPT !.version = v]
             j2 == [j1 EXCEPT !.last_now = now]
  <1>0. SnapshotOK(gov) /\ job \in [Tasks -> JobType] /\ v \in Nat
    BY DEF TypeOK, JobType
  <1>1. gov' = Written(gov, g, now) /\ job' = [job EXCEPT ![t] = j2]
    BY DEF Save
  <1>2. SnapshotOK(Written(gov, g, now))
    BY <1>0, WrittenOK
  <1>3. Written(gov, g, now).reservations = g.reservations
    BY DEF Written, SnapshotOK, SnapshotType
  <1> HIDE DEF v
  <1>4. j1 \in JobType /\ j1.state = j.state /\ j1.claim = j.claim /\ j1.result = j.result
        /\ j1.requires = j.requires
    BY <1>0 DEF JobType
  <1> HIDE DEF j1
  <1>5. j2 \in JobType /\ j2.state = j1.state /\ j2.claim = j1.claim /\ j2.result = j1.result
        /\ j2.requires = j1.requires /\ j2.last_now = now
    BY <1>4 DEF JobType
  <1> HIDE DEF j2
  <1>6. job' \in [Tasks -> JobType] /\ job'[t] = j2 /\ \A u \in Tasks \ {t} : job'[u] = job[u]
    BY <1>0, <1>1, <1>5
  <1> QED
    BY <1>1, <1>2, <1>3, <1>4, <1>5, <1>6 DEF Frame

\* A job record with some fields replaced.
LEMMA JobFields ==
  ASSUME NEW j \in JobType
  PROVE  /\ \A s \in JobState :
              LET k == [j EXCEPT !.state = s]
              IN  /\ k \in JobType /\ k.state = s /\ k.claim = j.claim /\ k.result = j.result
                  /\ k.requires = j.requires
         /\ \A c \in Claims :
              LET k == [j EXCEPT !.claim = c]
              IN  /\ k \in JobType /\ k.state = j.state /\ k.claim = c /\ k.result = j.result
                  /\ k.requires = j.requires
         /\ \A ev \in Evidence :
              LET k == [j EXCEPT !.result = ev]
              IN  /\ k \in JobType /\ k.state = j.state /\ k.claim = j.claim /\ k.result = ev
                  /\ k.requires = j.requires
  BY DEF JobType

\* The same with two fields replaced, as claim and finish do.
LEMMA JobFieldPairs ==
  ASSUME NEW j \in JobType, NEW s \in JobState
  PROVE  /\ \A c \in Claims :
              LET k == [j EXCEPT !.state = s, !.claim = c]
              IN  /\ k \in JobType /\ k.state = s /\ k.claim = c /\ k.result = j.result
                  /\ k.requires = j.requires
         /\ \A ev \in Evidence :
              LET k == [j EXCEPT !.state = s, !.result = ev]
              IN  /\ k \in JobType /\ k.state = s /\ k.claim = j.claim /\ k.result = ev
                  /\ k.requires = j.requires
  <1> DEFINE h == [j EXCEPT !.state = s]
  <1>1. h \in JobType /\ h.state = s /\ h.claim = j.claim /\ h.result = j.result
        /\ h.requires = j.requires
    BY DEF JobType
  <1>2. \A c : [j EXCEPT !.state = s, !.claim = c] = [h EXCEPT !.claim = c]
    OBVIOUS
  <1>3. \A ev : [j EXCEPT !.state = s, !.result = ev] = [h EXCEPT !.result = ev]
    OBVIOUS
  <1> HIDE DEF h
  <1> QED
    BY <1>1, <1>2, <1>3 DEF JobType

-----------------------------------------------------------------------------
(* What each method does to a job and its reservation *)

Reservation(t) == gov.reservations[IdOf(t)]

\* A well-formed snapshot replaced in one entry: what the transitions give to Save.
OnlyEntry(t, g) ==
  /\ SnapshotOK(g)
  /\ \A i \in Ids \ {IdOf(t)} : g.reservations[i] = gov.reservations[i]

\* submit files a QUEUED job.
LEMMA SubmitStep ==
  ASSUME TypeOK, NEW t \in Tasks, NEW R \in Dependencies[t], NEW now \in Time, submit(t, R, now)
  PROVE  /\ Frame(t) /\ UNCHANGED <<issued, pending, steps>>
         /\ job[t].state = "NONE" /\ job'[t].state = "QUEUED"
         /\ job'[t].claim = job[t].claim /\ job'[t].result = job[t].result
         /\ Reservation(t)' = Reservation(t)
  <1> DEFINE j == [job[t] EXCEPT !.state = "QUEUED", !.requires = R]
  <1>0. SnapshotOK(gov) /\ job[t] \in JobType /\ now \in Time /\ R \subseteq Tasks
    BY JobsAssumption DEF TypeOK
  <1>1. j \in JobType /\ j.state = "QUEUED" /\ j.claim = job[t].claim /\ j.result = job[t].result
    BY <1>0 DEF JobType, JobState
  <1>2. Save(t, gov, j, now) /\ now >= job[t].last_now /\ job[t].state = "NONE"
    BY DEF submit, Callable
  <1> HIDE DEF j
  <1>3. /\ Frame(t) /\ gov'.reservations = gov.reservations
        /\ job'[t].state = j.state /\ job'[t].claim = j.claim /\ job'[t].result = j.result
    BY <1>0, <1>1, <1>2, SaveStep
  <1> QED
    BY <1>1, <1>3 DEF submit, Reservation

\* claim makes the reservation.
LEMMA ClaimStep ==
  ASSUME TypeOK, NEW t \in Tasks, NEW w \in Workers, NEW e \in 0 .. gov.epoch,
         NEW lease \in Leases, NEW now \in Time, claim(t, w, e, lease, now)
  PROVE  /\ Frame(t) /\ UNCHANGED <<pending, steps>>
         /\ issued' \in [Tasks -> SUBSET Claims]
         /\ job[t].state = "QUEUED" /\ job'[t].state = "CLAIMED"
         /\ job'[t].claim \in Claims /\ job'[t].result = job[t].result
         /\ Reservation(t)'.state = "RESERVED"
  <1> DEFINE c == NewClaim(t, w, e, lease, now)
             j == [job[t] EXCEPT !.state = "CLAIMED", !.claim = c]
             q == Envelope(t)
             g == Reserve(gov, q, e)
  <1>0. /\ SnapshotOK(gov) /\ job[t] \in JobType /\ now \in Time /\ q \in Requests
        /\ gov.epoch \in Nat /\ q.id = IdOf(t) /\ IdOf(t) \in Ids
        /\ gov.reservations \in [Ids -> EntryType]
        /\ issued \in [Tasks -> SUBSET Claims]
    BY TaskParts DEF TypeOK, SnapshotOK, SnapshotType, IdOf
  <1>1. /\ e \in Nat \ {0} /\ ReserveOK(gov, q, e, now) /\ Save(t, g, j, now)
        /\ issued' = [issued EXCEPT ![t] = @ \cup {c}] /\ now >= job[t].last_now
    BY <1>0 DEF claim, EpochOK, Issue, Callable
  <1>2. c \in Claims
    BY <1>0, <1>1, NewClaimType
  <1>3. SnapshotOK(g)
    BY <1>0, <1>1, ReserveKeepsOK
  <1>4. g.reservations = [gov.reservations EXCEPT ![IdOf(t)] =
          [request |-> q, epoch |-> e, state |-> "RESERVED", evidence |-> None]]
    BY <1>0, RequestParts DEF Reserve, SnapshotOK, SnapshotType
  <1>5. OnlyEntry(t, g) /\ g.reservations[IdOf(t)].state = "RESERVED"
    BY <1>0, <1>3, <1>4 DEF OnlyEntry
  <1> HIDE DEF c
  <1>6. j \in JobType /\ j.state = "CLAIMED" /\ j.claim = c /\ j.result = job[t].result
        /\ j.requires = job[t].requires
    <2> DEFINE h == [job[t] EXCEPT !.state = "CLAIMED"]
    <2>1. /\ h \in JobType /\ h.state = "CLAIMED" /\ h.result = job[t].result
          /\ h.requires = job[t].requires
      BY <1>0 DEF JobType, JobState
    <2>2. j = [h EXCEPT !.claim = c]
      OBVIOUS
    <2> HIDE DEF h, j
    <2> QED
      BY <1>2, <2>1, <2>2, JobFields
  <1> HIDE DEF g, j
  <1>7. /\ Frame(t) /\ gov'.reservations = g.reservations
        /\ job'[t].state = j.state /\ job'[t].claim = j.claim /\ job'[t].result = j.result
    BY <1>0, <1>1, <1>5, <1>6, SaveStep DEF OnlyEntry
  <1>8. issued' \in [Tasks -> SUBSET Claims]
    BY <1>0, <1>1, <1>2
  <1> QED
    BY <1>2, <1>5, <1>6, <1>7, <1>8 DEF claim, Reservation

\* A takeover keeps an unsent job CLAIMED and leaves a started one UNKNOWN; it happens
\* when the lease on record has run out.
LEMMA TakeoverStep ==
  ASSUME TypeOK, JobMatchesReservation, NEW t \in Tasks, NEW w \in Workers,
         NEW e \in 0 .. gov.epoch, NEW lease \in Leases, NEW now \in Time,
         takeover(t, w, e, lease, now)
  PROVE  /\ Frame(t) /\ UNCHANGED <<pending, steps>>
         /\ issued' \in [Tasks -> SUBSET Claims]
         /\ job'[t].claim \in Claims /\ job'[t].result = job[t].result
         /\ job'[t].last_now >= job[t].claim.lease
         /\ \/ /\ job[t].state = "CLAIMED" /\ job'[t].state = "CLAIMED"
               /\ Reservation(t)'.state = Reservation(t).state
            \/ /\ job[t].state \in {"STARTED", "UNKNOWN"} /\ job'[t].state = "UNKNOWN"
               /\ Reservation(t)'.state \in {"UNKNOWN", "COMMITTED"}
  <1> DEFINE c == NewClaim(t, w, e, lease, now)
             s == AfterTakeover(job[t].state)
             j == [job[t] EXCEPT !.state = s, !.claim = c]
             g == TakenOver(t, e, now)
             id == IdOf(t)
  <1>0. /\ SnapshotOK(gov) /\ job[t] \in JobType /\ now \in Time /\ id \in Ids
        /\ gov.epoch \in Nat /\ gov.reservations \in [Ids -> EntryType]
        /\ issued \in [Tasks -> SUBSET Claims]
    BY TaskParts DEF TypeOK, SnapshotOK, SnapshotType
  <1>1. /\ e \in Nat \ {0} /\ e = gov.epoch /\ now >= job[t].claim.lease
        /\ job[t].state \in {"CLAIMED", "STARTED", "UNKNOWN"}
        /\ Has(gov, id) /\ now >= job[t].last_now
        /\ issued' = [issued EXCEPT ![t] = @ \cup {c}]
    BY <1>0 DEF takeover, EpochOK, Issue, Existing, IdOf, Callable
  <1>2. Save(t, g, j, now)
    <2>1. j = [job[t] EXCEPT !.state = AfterTakeover(@), !.claim = c]
      BY <1>0 DEF JobType
    <2> QED
      BY <2>1 DEF takeover
  <1>3. c \in Claims
    BY <1>0, <1>1, NewClaimType
  <1>4. s \in JobState /\ s = IF job[t].state = "CLAIMED" THEN "CLAIMED" ELSE "UNKNOWN"
    BY DEF AfterTakeover, JobState
  <1>5. /\ OnlyEntry(t, g)
        /\ \/ job[t].state = "CLAIMED" /\ g.reservations[id].state = gov.reservations[id].state
           \/ /\ job[t].state \in {"STARTED", "UNKNOWN"}
              /\ g.reservations[id].state \in {"UNKNOWN", "COMMITTED"}
    <2>1. CASE job[t].state = "CLAIMED"
      <3> DEFINE en == [gov.reservations[id] EXCEPT !.epoch = e]
                 rs == [gov.reservations EXCEPT ![id] = en]
      <3>1. g = [gov EXCEPT !.reservations[id].epoch = e]
        BY <2>1 DEF TakenOver
      <3>2. /\ g \in SnapshotType /\ g.epoch = gov.epoch /\ g.reservations = rs
        <4>1. en \in EntryType
          BY <1>0, <1>1 DEF EntryType
        <4>2. rs \in [Ids -> EntryType]
          BY <1>0, <4>1
        <4>3. g = [gov EXCEPT !.reservations = rs]
          BY <1>0, <3>1 DEF SnapshotOK, SnapshotType
        <4> HIDE DEF en, rs, g
        <4> QED
          BY <1>0, <4>2, <4>3 DEF SnapshotOK, SnapshotType
      <3>3. /\ en.epoch = e /\ en.state = gov.reservations[id].state
            /\ en.request = gov.reservations[id].request
        BY <1>0, <1>1 DEF EntryType
      <3>4. gov.reservations[id].request \in Requests /\ gov.reservations[id].request.id = id
        BY <1>0, <1>1 DEF SnapshotOK, Reserved
      <3>5. /\ g.reservations[id] = en
            /\ \A i \in Ids \ {id} : g.reservations[i] = gov.reservations[i]
        BY <1>0, <3>2
      <3> HIDE DEF g, en
      <3>6. SnapshotOK(g)
        BY <1>0, <1>1, <3>2, <3>3, <3>4, <3>5, UpdateKeepsOK
      <3> QED
        BY <2>1, <3>3, <3>5, <3>6 DEF OnlyEntry
    <2>2. CASE job[t].state = "STARTED" /\ gov.reservations[id].state = "DISPATCHED"
      <3>1. g = MarkUnknown(gov, id, LeaseLost, now) /\ LeaseLost \in Evidence
        BY <2>2, JobsAssumption DEF TakenOver, Entry
      <3>2. SnapshotOK(MarkUnknown(gov, id, LeaseLost, now))
        BY <1>0, <1>1, <3>1, MarkUnknownKeepsOK
      <3>3. MarkUnknown(gov, id, LeaseLost, now).reservations = [gov.reservations EXCEPT
              ![id] = Resolved(gov.reservations[id], "UNKNOWN", LeaseLost)]
        BY <1>0, <1>1, RequestParts DEF MarkUnknown, Entry, SnapshotOK, SnapshotType, Reserved
      <3>4. Resolved(gov.reservations[id], "UNKNOWN", LeaseLost).state = "UNKNOWN"
        BY <1>0, <3>1, ResolvedType DEF ReservationState
      <3> HIDE DEF g
      <3> QED
        BY <1>0, <2>2, <3>1, <3>2, <3>3, <3>4 DEF OnlyEntry
    <2>3. CASE job[t].state = "STARTED" /\ gov.reservations[id].state # "DISPATCHED"
      <3>1. g = gov
        BY <2>3 DEF TakenOver, Entry
      <3>2. gov.reservations[id].state \in SpentState
        BY <2>3 DEF JobMatchesReservation, Entry
      <3> QED
        BY <1>0, <2>3, <3>1, <3>2 DEF OnlyEntry, SpentState
    <2>4. CASE job[t].state = "UNKNOWN"
      <3>1. g = gov
        BY <2>4 DEF TakenOver
      <3>2. gov.reservations[id].state \in {"UNKNOWN", "COMMITTED"}
        BY <2>4 DEF JobMatchesReservation, Entry
      <3> QED
        BY <1>0, <2>4, <3>1, <3>2 DEF OnlyEntry
    <2> QED
      BY <1>1, <2>1, <2>2, <2>3, <2>4
  <1> HIDE DEF c, s
  <1>6. /\ j \in JobType /\ j.state = s /\ j.claim = c /\ j.result = job[t].result
        /\ j.requires = job[t].requires
    <2>1. s \in JobState
      BY <1>4
    <2>2. \A d \in Claims :
            LET k == [job[t] EXCEPT !.state = s, !.claim = d]
            IN  /\ k \in JobType /\ k.state = s /\ k.claim = d /\ k.result = job[t].result
                /\ k.requires = job[t].requires
      BY <1>0, <2>1, JobFieldPairs
    <2> QED
      BY <1>3, <2>2
  <1> HIDE DEF g, j
  <1>7. /\ Frame(t) /\ gov'.reservations = g.reservations
        /\ job'[t].state = j.state /\ job'[t].claim = j.claim /\ job'[t].result = j.result
        /\ job'[t].last_now = now
    BY <1>0, <1>1, <1>2, <1>5, <1>6, SaveStep DEF OnlyEntry
  <1>8. issued' \in [Tasks -> SUBSET Claims]
    BY <1>0, <1>1, <1>3
  <1> QED
    BY <1>1, <1>3, <1>4, <1>5, <1>6, <1>7, <1>8 DEF takeover, Reservation

\* renew prolongs the lease of the claim on record.
LEMMA RenewStep ==
  ASSUME TypeOK, NEW t \in Tasks, NEW c \in issued[t], NEW lease \in Leases,
         NEW now \in Time, renew(t, c, lease, now)
  PROVE  /\ Frame(t) /\ UNCHANGED <<pending, steps>>
         /\ issued' \in [Tasks -> SUBSET Claims]
         /\ job[t].state = "CLAIMED" /\ job'[t].state = "CLAIMED"
         /\ job'[t].claim \in Claims /\ job'[t].result = job[t].result
         /\ Reservation(t)' = Reservation(t)
  <1> DEFINE l == LeaseUntil(t, lease, now)
             r == [c EXCEPT !.lease = l]
             j == [job[t] EXCEPT !.claim = r]
  <1>0. /\ SnapshotOK(gov) /\ job[t] \in JobType /\ now \in Time /\ c \in Claims
        /\ issued \in [Tasks -> SUBSET Claims] /\ l \in Nat
    BY LeaseType DEF TypeOK
  <1>1. /\ job[t].state = "CLAIMED" /\ Save(t, gov, j, now)
        /\ issued' = [issued EXCEPT ![t] = @ \cup {r}] /\ now >= job[t].last_now
    BY DEF renew, Issue, Callable
  <1> HIDE DEF l
  <1>2. r \in Claims
    BY <1>0 DEF Claims
  <1> HIDE DEF r
  <1>3. j \in JobType /\ j.state = job[t].state /\ j.claim = r /\ j.result = job[t].result
        /\ j.requires = job[t].requires
    BY <1>0, <1>2, JobFields
  <1> HIDE DEF j
  <1>4. /\ Frame(t) /\ gov'.reservations = gov.reservations
        /\ job'[t].state = j.state /\ job'[t].claim = j.claim /\ job'[t].result = j.result
    BY <1>0, <1>1, <1>3, SaveStep
  <1>5. issued' \in [Tasks -> SUBSET Claims]
    BY <1>0, <1>1, <1>2
  <1> QED
    BY <1>1, <1>2, <1>3, <1>4, <1>5 DEF renew, Reservation

\* begin is the durable START of the claim on record.
LEMMA BeginStep ==
  ASSUME TypeOK, NEW t \in Tasks, NEW c \in issued[t], NEW now \in Time, begin(t, c, now)
  PROVE  /\ Frame(t) /\ UNCHANGED <<issued, steps>>
         /\ pending' = [pending EXCEPT ![t] = [claim |-> c, now |-> now]]
         /\ job[t].state = "CLAIMED" /\ job'[t].state = "STARTED" /\ c \in Claims
         /\ job'[t].claim = job[t].claim /\ job[t].claim = c /\ job'[t].result = job[t].result
         /\ Reservation(t)'.state = "DISPATCHED"
  <1> DEFINE j == [job[t] EXCEPT !.state = "STARTED"]
             id == IdOf(t)
             g == Dispatch(gov, id)
             rs == [gov.reservations EXCEPT ![id].state = "DISPATCHED"]
  <1>0. /\ SnapshotOK(gov) /\ job[t] \in JobType /\ now \in Time /\ id \in Ids
        /\ gov.reservations \in [Ids -> EntryType] /\ c \in Claims
    BY TaskParts DEF TypeOK, SnapshotOK, SnapshotType
  <1>1. /\ job[t].state = "CLAIMED" /\ Has(gov, id) /\ Save(t, g, j, now) /\ c = job[t].claim
        /\ now >= job[t].last_now
    BY DEF begin, Holds, DispatchOK, Callable
  <1>2. SnapshotOK(g)
    BY <1>0, <1>1, DispatchKeepsOK
  <1>3. g.reservations = rs
    BY <1>0 DEF Dispatch, SnapshotOK, SnapshotType
  <1>4. OnlyEntry(t, g) /\ g.reservations[id].state = "DISPATCHED"
    BY <1>0, <1>2, <1>3 DEF OnlyEntry, EntryType
  <1>5. /\ j \in JobType /\ j.state = "STARTED" /\ j.claim = job[t].claim
        /\ j.result = job[t].result /\ j.requires = job[t].requires
    BY <1>0, JobFields DEF JobState
  <1> HIDE DEF g, j
  <1>6. /\ Frame(t) /\ gov'.reservations = g.reservations
        /\ job'[t].state = j.state /\ job'[t].claim = j.claim /\ job'[t].result = j.result
    BY <1>0, <1>1, <1>4, <1>5, SaveStep DEF OnlyEntry
  <1> QED
    BY <1>0, <1>1, <1>4, <1>5, <1>6 DEF begin, Reservation

\* settle stores COMMITTED and the evidence.
LEMMA SettleEffect ==
  ASSUME SnapshotOK(gov), NEW id \in Ids, Has(gov, id), NEW ev \in Evidence
  PROVE  LET g == Settle(gov, id, ev)
         IN  /\ SnapshotOK(g)
             /\ \A i \in Ids \ {id} : g.reservations[i] = gov.reservations[i]
             /\ g.reservations[id].state = "COMMITTED" /\ g.reservations[id].evidence = ev
  <1> DEFINE g == Settle(gov, id, ev)
             en == Resolved(gov.reservations[id], "COMMITTED", ev)
  <1>0. gov.reservations \in [Ids -> EntryType] /\ gov.reservations[id] \in EntryType
    BY DEF SnapshotOK, SnapshotType
  <1>1. SnapshotOK(g)
    BY SettleKeepsOK
  <1>2. g.reservations = [gov.reservations EXCEPT ![id] = en]
    <2>1. gov.reservations[id].request.provider \in Providers
      BY ReservedParts DEF Reserved
    <2> QED
      BY <2>1 DEF Settle, Entry, SnapshotOK, SnapshotType
  <1>3. en.state = "COMMITTED" /\ en.evidence = ev
    BY <1>0 DEF Resolved, EntryType
  <1> HIDE DEF g, en
  <1>4. /\ \A i \in Ids \ {id} : g.reservations[i] = gov.reservations[i]
        /\ g.reservations[id] = en
    BY <1>0, <1>2
  <1>5. g.reservations[id].state = "COMMITTED" /\ g.reservations[id].evidence = ev
    BY <1>3, <1>4
  <1> QED
    BY <1>1, <1>4, <1>5 DEF g

\* finish settles the reservation, or finds it settled with the same evidence.
LEMMA FinishStep ==
  ASSUME TypeOK, NEW t \in Tasks, NEW c \in issued[t], NEW ev \in Evidence,
         NEW now \in Time, NEW applied \in SUBSET Tasks, finish(t, c, ev, now, applied)
  PROVE  /\ Frame(t) /\ UNCHANGED <<issued, pending, steps>>
         /\ job[t].state = "STARTED" /\ job'[t].state = "DONE"
         /\ job'[t].claim = job[t].claim /\ job'[t].result = ev
         /\ Reservation(t)'.state = "COMMITTED" /\ Reservation(t)'.evidence = ev
         /\ t \in Bound => Completed(t, applied)
  <1> DEFINE j == [job[t] EXCEPT !.state = "DONE", !.result = ev]
             id == IdOf(t)
             g == IF SettledAs(gov, id, ev) THEN gov ELSE Settle(gov, id, ev)
  <1>0. /\ SnapshotOK(gov) /\ job[t] \in JobType /\ now \in Time /\ id \in Ids
    BY TaskParts DEF TypeOK
  <1>1. /\ job[t].state = "STARTED" /\ Save(t, g, j, now) /\ now >= job[t].last_now
        /\ SettledAs(gov, id, ev) \/ Has(gov, id)
        /\ t \in Bound => Completed(t, applied)
    BY DEF finish, SettleOK, Callable
  <1>2. /\ OnlyEntry(t, g)
        /\ g.reservations[id].state = "COMMITTED" /\ g.reservations[id].evidence = ev
    <2>1. CASE SettledAs(gov, id, ev)
      BY <1>0, <2>1 DEF OnlyEntry, SettledAs, Entry
    <2>2. CASE ~SettledAs(gov, id, ev)
      <3>1. g = Settle(gov, id, ev)
        BY <2>2
      <3>2. LET h == Settle(gov, id, ev)
            IN  /\ SnapshotOK(h)
                /\ \A i \in Ids \ {id} : h.reservations[i] = gov.reservations[i]
                /\ h.reservations[id].state = "COMMITTED" /\ h.reservations[id].evidence = ev
        BY <1>0, <1>1, <2>2, SettleEffect
      <3> HIDE DEF g
      <3> QED
        BY <3>1, <3>2 DEF OnlyEntry
    <2> QED
      BY <2>1, <2>2
  <1>3. j \in JobType /\ j.state = "DONE" /\ j.claim = job[t].claim /\ j.result = ev
        /\ j.requires = job[t].requires
    <2> DEFINE h == [job[t] EXCEPT !.state = "DONE"]
    <2>1. /\ h \in JobType /\ h.state = "DONE" /\ h.claim = job[t].claim
          /\ h.requires = job[t].requires
      BY <1>0 DEF JobType, JobState
    <2>2. j = [h EXCEPT !.result = ev]
      OBVIOUS
    <2> HIDE DEF h, j
    <2> QED
      BY <2>1, <2>2, JobFields
  <1> HIDE DEF g, j
  <1>4. /\ Frame(t) /\ gov'.reservations = g.reservations
        /\ job'[t].state = j.state /\ job'[t].claim = j.claim /\ job'[t].result = j.result
    BY <1>0, <1>1, <1>2, <1>3, SaveStep DEF OnlyEntry
  <1> QED
    BY <1>1, <1>2, <1>3, <1>4 DEF finish, Reservation

\* The operator writes no job; he drops a reservation that was not sent, or resolves one
\* that was.
LEMMA OperatorStep ==
  ASSUME TypeOK, Operator
  PROVE  /\ SnapshotOK(gov') /\ UNCHANGED <<job, issued, pending, steps>>
         /\ \/ gov'.reservations = gov.reservations
            \/ \E t \in Tasks :
                 /\ \A i \in Ids \ {IdOf(t)} : gov'.reservations[i] = gov.reservations[i]
                 /\ \/ Reservation(t).state = "RESERVED" /\ Reservation(t)'.state = "RELEASED"
                    \/ /\ Reservation(t).state = "DISPATCHED"
                       /\ Reservation(t)'.state \in {"UNKNOWN", "COMMITTED"}
                    \/ /\ Reservation(t).state = "UNKNOWN"
                       /\ Reservation(t)'.state = "COMMITTED"
  <1> DEFINE Moved(t) ==
        /\ \A i \in Ids \ {IdOf(t)} : gov'.reservations[i] = gov.reservations[i]
        /\ \/ Reservation(t).state = "RESERVED" /\ Reservation(t)'.state = "RELEASED"
           \/ /\ Reservation(t).state = "DISPATCHED"
              /\ Reservation(t)'.state \in {"UNKNOWN", "COMMITTED"}
           \/ /\ Reservation(t).state = "UNKNOWN"
              /\ Reservation(t)'.state = "COMMITTED"
  <1> DEFINE Goal == /\ SnapshotOK(gov') /\ UNCHANGED <<job, issued, pending, steps>>
                     /\ gov'.reservations = gov.reservations \/ \E t \in Tasks : Moved(t)
  <1>0. /\ SnapshotOK(gov) /\ gov.last_now \in Time \cup {-1} /\ gov.epoch \in Nat
        /\ gov.reservations \in [Ids -> EntryType]
    BY DEF TypeOK, SnapshotOK, SnapshotType
  <1>1. ASSUME NEW n1 \in Time, NEW n2 \in Time, start_epoch(n1, n2)
        PROVE  Goal
    <2>1. n1 \in Time /\ Max({n2, gov.last_now}) \in Time
      BY <1>0, MaxOfTwo
    <2>2. gov' = Written(gov, StartEpoch(gov, n1), Max({n2, gov.last_now}))
      BY <1>1 DEF start_epoch, Operate
    <2>3. SnapshotOK(gov') /\ gov'.reservations = gov.reservations
      BY <1>0, <2>1, <2>2, StartEpochSaved
    <2> QED
      BY <1>1, <2>3 DEF start_epoch, Operate
  <1>2. ASSUME NEW active \in BOOLEAN, NEW now \in Time, set_kill(active, now)
        PROVE  Goal
    <2>1. Max({now, gov.last_now}) \in Time
      BY <1>0, MaxOfTwo
    <2>2. gov' = Written(gov, [gov EXCEPT !.kill = active], Max({now, gov.last_now}))
      BY <1>2 DEF set_kill, Operate
    <2> QED
      BY <1>0, <1>2, <2>1, <2>2, SetKillSaved DEF set_kill, Operate
  <1>3. ASSUME NEW t \in Tasks, NEW e \in 0 .. gov.epoch, NEW now \in Time,
               release_not_dispatched(t, e, now)
        PROVE  Goal
    <2> DEFINE id == IdOf(t)
    <2>1. now \in Time /\ id \in Ids
      BY <1>0, TaskParts
    <2>2. /\ gov' = Written(gov, Release(gov, id), now)
          /\ Has(gov, id) /\ gov.reservations[id].state = "RESERVED"
      BY <1>3 DEF release_not_dispatched, Operate, ReleaseOK, Entry
    <2> HIDE DEF id
    <2>3. /\ SnapshotOK(gov')
          /\ gov'.reservations = [gov.reservations EXCEPT ![id] =
                AsReleased(gov.reservations[id])]
      BY <1>0, <2>1, <2>2, ReleaseSaved
    <2>4. AsReleased(gov.reservations[id]).state = "RELEASED"
      BY <1>0, <2>1 DEF AsReleased, EntryType
    <2>5. Moved(t)
      BY <1>0, <2>1, <2>2, <2>3, <2>4 DEF Reservation, id
    <2> QED
      BY <1>3, <2>3, <2>5 DEF release_not_dispatched, Operate
  <1>4. ASSUME NEW t \in Tasks, NEW e \in 0 .. gov.epoch, NEW ev \in Evidence,
               NEW now \in Time, settle(t, e, ev, now)
        PROVE  Goal
    <2> DEFINE id == IdOf(t)
    <2>1. now \in Time /\ id \in Ids
      BY <1>0, TaskParts
    <2>2. /\ gov' = Written(gov, Settle(gov, id, ev), now)
          /\ Has(gov, id) /\ gov.reservations[id].state \in {"DISPATCHED", "UNKNOWN"}
      BY <1>4 DEF settle, Operate, SettleOK, Entry
    <2> HIDE DEF id
    <2>3. /\ SnapshotOK(gov')
          /\ gov'.reservations = [gov.reservations EXCEPT ![id] =
                Resolved(gov.reservations[id], "COMMITTED", ev)]
      BY <1>0, <2>1, <2>2, SettleSaved
    <2>4. Resolved(gov.reservations[id], "COMMITTED", ev).state = "COMMITTED"
      BY <1>0, <2>1, ResolvedType DEF ReservationState
    <2>5. Moved(t)
      BY <1>0, <2>1, <2>2, <2>3, <2>4 DEF Reservation, id
    <2> QED
      BY <1>4, <2>3, <2>5 DEF settle, Operate
  <1>5. ASSUME NEW t \in Tasks, NEW e \in 0 .. gov.epoch, NEW ev \in Evidence,
               NEW now \in Time, NEW n2 \in Time, mark_unknown(t, e, ev, now, n2)
        PROVE  Goal
    <2> DEFINE id == IdOf(t)
    <2>1. now \in Time /\ n2 \in Time /\ id \in Ids
      BY <1>0, TaskParts
    <2>2. /\ gov' = Written(gov, MarkUnknown(gov, id, ev, now), n2)
          /\ Has(gov, id) /\ gov.reservations[id].state = "DISPATCHED"
      BY <1>5 DEF mark_unknown, Operate, UnknownOK, Entry
    <2> HIDE DEF id
    <2>3. /\ SnapshotOK(gov')
          /\ gov'.reservations = [gov.reservations EXCEPT ![id] =
                Resolved(gov.reservations[id], "UNKNOWN", ev)]
      BY <1>0, <2>1, <2>2, MarkUnknownSaved
    <2>4. Resolved(gov.reservations[id], "UNKNOWN", ev).state = "UNKNOWN"
      BY <1>0, <2>1, ResolvedType DEF ReservationState
    <2>5. Moved(t)
      BY <1>0, <2>1, <2>2, <2>3, <2>4 DEF Reservation, id
    <2> QED
      BY <1>5, <2>3, <2>5 DEF mark_unknown, Operate
  <1> HIDE DEF Goal
  <1>6. Goal
    BY <1>1, <1>2, <1>3, <1>4, <1>5 DEF Operator
  <1> QED
    BY <1>6 DEF Goal

-----------------------------------------------------------------------------
(* The invariant *)

\* A fresh namespace satisfies it.
LEMMA InitJobs == Init => JobsInv
  <1> SUFFICES ASSUME Init PROVE JobsInv
    OBVIOUS
  <1>1. TypeOK
    <2>1. SnapshotOK(gov)
      BY InitialOK DEF Init
    <2>2. NoJob \in JobType
      BY DEF NoJob, JobType, JobState
    <2> QED
      BY <2>1, <2>2, BoundsAssumption DEF Init, TypeOK, NoCall, NoJob, Time
  <1>2. JobMatchesReservation
    BY TaskParts DEF Init, JobMatchesReservation, NoJob, Initial, Entry
  <1>3. StepInv
    BY DEF Init, StepInv, CallOK, StepOK
  <1>4. RequiredTasksFirst
    BY JobsAssumption DEF Init, RequiredTasksFirst, NoJob
  <1> QED
    BY <1>1, <1>2, <1>3, <1>4 DEF JobsInv

\* A claim on record once the job left QUEUED, a result exactly when it is DONE.
RecordOK(t) ==
  /\ job[t].claim = NoClaim <=> job[t].state \in {"NONE", "QUEUED"}
  /\ job[t].result # None <=> job[t].state = "DONE"

\* The types, from what a step does to one job.
LEMMA TypeFrame ==
  ASSUME TypeOK, NEW t \in Tasks, Frame(t), RecordOK(t)',
         issued' \in [Tasks -> SUBSET Claims],
         pending' \in [Tasks -> [claim : Claims \cup {NoClaim}, now : Time]],
         steps' \in [Tasks -> SUBSET [claim : Claims, at : Time]]
  PROVE  TypeOK'
  BY DEF TypeOK, Frame, RecordOK

\* Every step keeps the records well formed.
LEMMA TypeStep ==
  ASSUME JobsInv, Next
  PROVE  TypeOK'
  <1>0. /\ TypeOK /\ JobMatchesReservation /\ StepInv
        /\ SnapshotOK(gov) /\ job \in [Tasks -> JobType]
        /\ issued \in [Tasks -> SUBSET Claims]
        /\ pending \in [Tasks -> [claim : Claims \cup {NoClaim}, now : Time]]
        /\ steps \in [Tasks -> SUBSET [claim : Claims, at : Time]]
        /\ \A t \in Tasks : RecordOK(t)
    BY DEF JobsInv, TypeOK, RecordOK
  <1>1. ASSUME NEW t \in Tasks, NEW R \in Dependencies[t], NEW now \in Time, submit(t, R, now)
        PROVE  TypeOK'
    <2>1. RecordOK(t)'
      BY <1>0, <1>1, SubmitStep DEF RecordOK
    <2> QED
      BY <1>0, <1>1, <2>1, SubmitStep, TypeFrame
  <1>2. ASSUME NEW t \in Tasks, NEW w \in Workers, NEW e \in 0 .. gov.epoch,
               NEW lease \in Leases, NEW now \in Time, claim(t, w, e, lease, now)
        PROVE  TypeOK'
    <2>1. RecordOK(t)'
      BY <1>0, <1>2, ClaimStep, ClaimParts DEF RecordOK
    <2> QED
      BY <1>0, <1>2, <2>1, ClaimStep, TypeFrame
  <1>3. ASSUME NEW t \in Tasks, NEW w \in Workers, NEW e \in 0 .. gov.epoch,
               NEW lease \in Leases, NEW now \in Time, takeover(t, w, e, lease, now)
        PROVE  TypeOK'
    <2>1. RecordOK(t)'
      BY <1>0, <1>3, TakeoverStep, ClaimParts DEF RecordOK
    <2> QED
      BY <1>0, <1>3, <2>1, TakeoverStep, TypeFrame
  <1>4. ASSUME NEW t \in Tasks, NEW c \in issued[t], NEW lease \in Leases,
               NEW now \in Time, renew(t, c, lease, now)
        PROVE  TypeOK'
    <2>1. RecordOK(t)'
      BY <1>0, <1>4, RenewStep, ClaimParts DEF RecordOK
    <2> QED
      BY <1>0, <1>4, <2>1, RenewStep, TypeFrame
  <1>5. ASSUME NEW t \in Tasks, NEW c \in issued[t], NEW now \in Time, begin(t, c, now)
        PROVE  TypeOK'
    <2>1. RecordOK(t)'
      BY <1>0, <1>5, BeginStep DEF RecordOK
    <2>2. pending' \in [Tasks -> [claim : Claims \cup {NoClaim}, now : Time]]
      BY <1>0, <1>5, BeginStep
    <2> QED
      BY <1>0, <1>5, <2>1, <2>2, BeginStep, TypeFrame
  <1>6. ASSUME NEW t \in Tasks, NEW c \in issued[t], NEW ev \in Evidence,
               NEW now \in Time, NEW applied \in SUBSET Tasks,
               finish(t, c, ev, now, applied)
        PROVE  TypeOK'
    <2>1. RecordOK(t)'
      BY <1>0, <1>6, FinishStep, RequestsAssumption DEF RecordOK
    <2> QED
      BY <1>0, <1>6, <2>1, FinishStep, TypeFrame
  <1>7. ASSUME NEW t \in Tasks, NEW after \in Time, begin_return(t, after)
        PROVE  TypeOK'
    <2>1. pending[t].claim \in Claims
      BY <1>0, <1>7 DEF begin_return, StepInv, CallOK
    <2>2. NoCall \in [claim : Claims \cup {NoClaim}, now : Time]
      BY BoundsAssumption DEF NoCall, Time
    <2>3. steps' \in [Tasks -> SUBSET [claim : Claims, at : Time]]
      BY <1>0, <1>7, <2>1 DEF begin_return
    <2>4. pending' \in [Tasks -> [claim : Claims \cup {NoClaim}, now : Time]]
      BY <1>0, <1>7, <2>2 DEF begin_return
    <2> QED
      BY <1>0, <1>7, <2>3, <2>4 DEF begin_return, TypeOK
  <1>8. ASSUME NEW t \in Tasks, begin_lost(t)
        PROVE  TypeOK'
    <2>2. NoCall \in [claim : Claims \cup {NoClaim}, now : Time]
      BY BoundsAssumption DEF NoCall, Time
    <2>4. pending' \in [Tasks -> [claim : Claims \cup {NoClaim}, now : Time]]
      BY <1>0, <1>8, <2>2 DEF begin_lost
    <2> QED
      BY <1>0, <1>8, <2>4 DEF begin_lost, TypeOK
  <1>9. CASE Operator
    BY <1>0, <1>9, OperatorStep DEF TypeOK
  <1> QED
    BY <1>1, <1>2, <1>3, <1>4, <1>5, <1>6, <1>7, <1>8, <1>9 DEF Next, Worker

\* A job and its reservation agree.
Agree(t) ==
  LET r == Reservation(t)
  IN  /\ job[t].state \in {"NONE", "QUEUED"} => r = Absent
      /\ job[t].state = "CLAIMED" => r.state \in {"RESERVED", "RELEASED"}
      /\ job[t].state = "STARTED" => r.state \in SpentState
      /\ job[t].state = "UNKNOWN" => r.state \in {"UNKNOWN", "COMMITTED"}
      /\ job[t].state = "DONE" => r.state = "COMMITTED" /\ r.evidence = job[t].result

\* The invariant says so of every task.
LEMMA MatchIsAgree == TypeOK => (JobMatchesReservation <=> \A t \in Tasks : Agree(t))
  <1> SUFFICES ASSUME TypeOK, NEW t \in Tasks
               PROVE  LET r == Entry(gov, IdOf(t))
                      IN  (CASE job[t].state \in {"NONE", "QUEUED"} -> r = Absent
                             [] job[t].state = "CLAIMED" -> r.state \in {"RESERVED", "RELEASED"}
                             [] job[t].state = "STARTED" -> r.state \in SpentState
                             [] job[t].state = "UNKNOWN" -> r.state \in {"UNKNOWN", "COMMITTED"}
                             [] job[t].state = "DONE"    ->
                                  r.state = "COMMITTED" /\ r.evidence = job[t].result)
                          <=> Agree(t)
    BY DEF JobMatchesReservation
  <1>1. job[t].state \in JobState
    BY DEF TypeOK, JobType
  <1> QED
    BY <1>1 DEF Agree, Reservation, Entry, JobState

\* A step on one job leaves the others in agreement with their reservations.
LEMMA AgreeFrame ==
  ASSUME NEW t \in Tasks, Frame(t), \A u \in Tasks : Agree(u), Agree(t)'
  PROVE  \A u \in Tasks : Agree(u)'
  <1> SUFFICES ASSUME NEW u \in Tasks, u # t PROVE Agree(u)'
    OBVIOUS
  <1>1. IdOf(u) \in Ids \ {IdOf(t)}
    BY TaskParts
  <1>2. Reservation(u)' = Reservation(u) /\ job'[u] = job[u]
    BY <1>1 DEF Frame, Reservation
  <1> QED
    BY <1>2 DEF Agree

\* Every job goes on agreeing with its reservation.
LEMMA MatchStep ==
  ASSUME JobsInv, Next
  PROVE  \A t \in Tasks : Agree(t)'
  <1>0. TypeOK /\ JobMatchesReservation /\ \A t \in Tasks : Agree(t)
    BY MatchIsAgree DEF JobsInv
  <1>1. ASSUME NEW t \in Tasks, NEW R \in Dependencies[t], NEW now \in Time, submit(t, R, now)
        PROVE  \A u \in Tasks : Agree(u)'
    <2>1. Agree(t)'
      BY <1>0, <1>1, SubmitStep DEF Agree
    <2> QED
      BY <1>0, <1>1, <2>1, SubmitStep, AgreeFrame
  <1>2. ASSUME NEW t \in Tasks, NEW w \in Workers, NEW e \in 0 .. gov.epoch,
               NEW lease \in Leases, NEW now \in Time, claim(t, w, e, lease, now)
        PROVE  \A u \in Tasks : Agree(u)'
    <2>1. Agree(t)'
      BY <1>0, <1>2, ClaimStep DEF Agree
    <2> QED
      BY <1>0, <1>2, <2>1, ClaimStep, AgreeFrame
  <1>3. ASSUME NEW t \in Tasks, NEW w \in Workers, NEW e \in 0 .. gov.epoch,
               NEW lease \in Leases, NEW now \in Time, takeover(t, w, e, lease, now)
        PROVE  \A u \in Tasks : Agree(u)'
    <2>1. Agree(t)'
      BY <1>0, <1>3, TakeoverStep DEF Agree
    <2> QED
      BY <1>0, <1>3, <2>1, TakeoverStep, AgreeFrame
  <1>4. ASSUME NEW t \in Tasks, NEW c \in issued[t], NEW lease \in Leases,
               NEW now \in Time, renew(t, c, lease, now)
        PROVE  \A u \in Tasks : Agree(u)'
    <2>1. Agree(t)'
      BY <1>0, <1>4, RenewStep DEF Agree
    <2> QED
      BY <1>0, <1>4, <2>1, RenewStep, AgreeFrame
  <1>5. ASSUME NEW t \in Tasks, NEW c \in issued[t], NEW now \in Time, begin(t, c, now)
        PROVE  \A u \in Tasks : Agree(u)'
    <2>1. Agree(t)'
      BY <1>0, <1>5, BeginStep DEF Agree, SpentState
    <2> QED
      BY <1>0, <1>5, <2>1, BeginStep, AgreeFrame
  <1>6. ASSUME NEW t \in Tasks, NEW c \in issued[t], NEW ev \in Evidence,
               NEW now \in Time, NEW applied \in SUBSET Tasks,
               finish(t, c, ev, now, applied)
        PROVE  \A u \in Tasks : Agree(u)'
    <2>1. Agree(t)'
      BY <1>0, <1>6, FinishStep DEF Agree
    <2> QED
      BY <1>0, <1>6, <2>1, FinishStep, AgreeFrame
  <1>7. CASE Operator
    <2>1. UNCHANGED job
      BY <1>0, <1>7, OperatorStep
    <2>2. CASE gov'.reservations = gov.reservations
      BY <1>0, <2>1, <2>2 DEF Agree, Reservation
    <2>3. ASSUME NEW t \in Tasks,
                 \A i \in Ids \ {IdOf(t)} : gov'.reservations[i] = gov.reservations[i],
                 \/ Reservation(t).state = "RESERVED" /\ Reservation(t)'.state = "RELEASED"
                 \/ /\ Reservation(t).state = "DISPATCHED"
                    /\ Reservation(t)'.state \in {"UNKNOWN", "COMMITTED"}
                 \/ Reservation(t).state = "UNKNOWN" /\ Reservation(t)'.state = "COMMITTED"
          PROVE  \A u \in Tasks : Agree(u)'
      <3> SUFFICES ASSUME NEW u \in Tasks PROVE Agree(u)'
        OBVIOUS
      <3>1. CASE u = t
        <4>1. job[t].state \in {"CLAIMED", "STARTED", "UNKNOWN"}
          <5>1. Absent.state = "ABSENT" /\ job[t].state \in JobState
            BY <1>0 DEF Absent, TypeOK, JobType
          <5> QED
            BY <1>0, <2>3, <5>1 DEF Agree, JobState
        <4> QED
          BY <1>0, <2>1, <2>3, <3>1, <4>1 DEF Agree, SpentState
      <3>2. CASE u # t
        <4>1. IdOf(u) \in Ids \ {IdOf(t)}
          BY <3>2, TaskParts
        <4>2. Reservation(u)' = Reservation(u)
          BY <2>3, <4>1 DEF Reservation
        <4> QED
          BY <1>0, <2>1, <4>2 DEF Agree
      <3> QED
        BY <3>1, <3>2
    <2> QED
      BY <1>0, <1>7, <2>2, <2>3, OperatorStep
  <1>8. ASSUME UNCHANGED <<gov, job>>
        PROVE  \A u \in Tasks : Agree(u)'
    BY <1>0, <1>8 DEF Agree, Reservation
  <1>9. (\E t \in Tasks : (\E after \in Time : begin_return(t, after)) \/ begin_lost(t)) => UNCHANGED <<gov, job>>
    BY DEF begin_return, begin_lost
  <1> QED
    BY <1>1, <1>2, <1>3, <1>4, <1>5, <1>6, <1>7, <1>8, <1>9 DEF Next, Worker

\* A step on t that leaves its call and its steps alone.
LEMMA StepFrame ==
  ASSUME TypeOK, StepInv, NEW t \in Tasks, Frame(t), UNCHANGED <<pending, steps>>,
         CallOK(t)', StepOK(t)'
  PROVE  StepInv'
  <1> SUFFICES ASSUME NEW u \in Tasks, u # t PROVE CallOK(u)' /\ StepOK(u)'
    BY DEF StepInv
  <1>1. job'[u] = job[u]
    BY DEF Frame
  <1> QED
    BY <1>1 DEF StepInv, CallOK, StepOK

\* A call on its way stays so while the claim stays, or is replaced after its lease.
LEMMA CallFrame ==
  ASSUME TypeOK, NEW t \in Tasks, CallOK(t), Frame(t), UNCHANGED <<pending, steps>>,
         job'[t].claim = job[t].claim \/ job'[t].last_now >= job[t].claim.lease
  PROVE  CallOK(t)'
  <1>1. job[t].last_now \in Int /\ job'[t].last_now \in Int
    <2>1. job[t] \in JobType /\ job'[t] \in JobType
      BY DEF Frame, TypeOK
    <2> QED
      BY <2>1, BoundsAssumption DEF JobType, Time
  <1>2. job'[t].last_now >= job[t].last_now
    BY DEF Frame
  <1>3. CASE pending[t] = NoCall
    BY <1>3 DEF CallOK
  <1>4. CASE pending[t] # NoCall
    <2>1. /\ pending[t].claim \in Claims /\ steps[t] = {} /\ pending[t].claim.lease \in Int
          /\ job[t].claim = pending[t].claim \/ job[t].last_now >= pending[t].claim.lease
      BY <1>4, ClaimParts DEF CallOK
    <2>2. job'[t].claim = pending[t].claim \/ job'[t].last_now >= pending[t].claim.lease
      BY <1>1, <1>2, <2>1
    <2> QED
      BY <2>1, <2>2 DEF CallOK
  <1> QED
    BY <1>3, <1>4

\* One step at most, and only for the claim on record.
LEMMA StepStep ==
  ASSUME JobsInv, Next
  PROVE  StepInv'
  <1>0. /\ TypeOK /\ JobMatchesReservation /\ StepInv
        /\ pending \in [Tasks -> [claim : Claims \cup {NoClaim}, now : Time]]
        /\ steps \in [Tasks -> SUBSET [claim : Claims, at : Time]]
        /\ \A t \in Tasks : CallOK(t) /\ StepOK(t)
    BY DEF JobsInv, TypeOK, StepInv, Time
  <1>1. ASSUME NEW t \in Tasks, NEW R \in Dependencies[t], NEW now \in Time, submit(t, R, now)
        PROVE  StepInv'
    <2>1. CallOK(t)' /\ StepOK(t)'
      BY <1>0, <1>1, SubmitStep DEF CallOK, StepOK
    <2> QED
      BY <1>0, <1>1, <2>1, SubmitStep, StepFrame
  <1>2. ASSUME NEW t \in Tasks, NEW w \in Workers, NEW e \in 0 .. gov.epoch,
               NEW lease \in Leases, NEW now \in Time, claim(t, w, e, lease, now)
        PROVE  StepInv'
    <2>1. CallOK(t)' /\ StepOK(t)'
      BY <1>0, <1>2, ClaimStep DEF CallOK, StepOK
    <2> QED
      BY <1>0, <1>2, <2>1, ClaimStep, StepFrame
  <1>3. ASSUME NEW t \in Tasks, NEW w \in Workers, NEW e \in 0 .. gov.epoch,
               NEW lease \in Leases, NEW now \in Time, takeover(t, w, e, lease, now)
        PROVE  StepInv'
    <2>1. CallOK(t)' /\ StepOK(t)'
      <3>1. CallOK(t)'
        BY <1>0, <1>3, TakeoverStep, CallFrame
      <3>2. StepOK(t)'
        BY <1>0, <1>3, TakeoverStep DEF StepOK
      <3> QED
        BY <3>1, <3>2
    <2> QED
      BY <1>0, <1>3, <2>1, TakeoverStep, StepFrame
  <1>4. ASSUME NEW t \in Tasks, NEW c \in issued[t], NEW lease \in Leases,
               NEW now \in Time, renew(t, c, lease, now)
        PROVE  StepInv'
    <2>1. CallOK(t)' /\ StepOK(t)'
      BY <1>0, <1>4, RenewStep DEF CallOK, StepOK
    <2> QED
      BY <1>0, <1>4, <2>1, RenewStep, StepFrame
  <1>5. ASSUME NEW t \in Tasks, NEW c \in issued[t], NEW now \in Time, begin(t, c, now)
        PROVE  StepInv'
    <2>1. /\ UNCHANGED steps /\ c \in Claims /\ job'[t].claim = c
          /\ job[t].state = "CLAIMED" /\ job'[t].state = "STARTED"
          /\ pending' = [pending EXCEPT ![t] = [claim |-> c, now |-> now]]
          /\ \A u \in Tasks \ {t} : job'[u] = job[u]
      BY <1>0, <1>5, BeginStep DEF Frame
    <2>2. steps[t] = {}
      BY <1>0, <2>1 DEF StepOK
    <2>3. /\ pending'[t].claim = c
          /\ \A u \in Tasks \ {t} : pending'[u] = pending[u]
      BY <1>0, <2>1
    <2>4. CallOK(t)' /\ StepOK(t)'
      BY <2>1, <2>2, <2>3 DEF CallOK, StepOK
    <2>5. \A u \in Tasks \ {t} : CallOK(u)' /\ StepOK(u)'
      BY <1>0, <2>1, <2>3 DEF CallOK, StepOK
    <2> QED
      BY <2>4, <2>5 DEF StepInv
  <1>6. ASSUME NEW t \in Tasks, NEW c \in issued[t], NEW ev \in Evidence,
               NEW now \in Time, NEW applied \in SUBSET Tasks,
               finish(t, c, ev, now, applied)
        PROVE  StepInv'
    <2>1. CallOK(t)' /\ StepOK(t)'
      <3>1. CallOK(t)'
        BY <1>0, <1>6, FinishStep, CallFrame
      <3>2. StepOK(t)'
        BY <1>0, <1>6, FinishStep DEF StepOK
      <3> QED
        BY <3>1, <3>2
    <2> QED
      BY <1>0, <1>6, <2>1, FinishStep, StepFrame
  <1>7. ASSUME NEW t \in Tasks, NEW after \in Time, begin_return(t, after)
        PROVE  StepInv'
    <2>1. /\ pending[t] # NoCall /\ UNCHANGED job
          /\ pending'[t] = NoCall /\ \A u \in Tasks \ {t} : pending'[u] = pending[u]
          /\ steps'[t] \in {steps[t], steps[t] \cup {[claim |-> pending[t].claim, at |-> after]}}
          /\ \A u \in Tasks \ {t} : steps'[u] = steps[u]
      BY <1>0, <1>7 DEF begin_return
    <2>2. steps[t] = {}
      BY <1>0, <2>1 DEF CallOK
    <2>3. CallOK(t)' /\ StepOK(t)'
      BY <1>0, <2>1, <2>2 DEF CallOK, StepOK
    <2>4. \A u \in Tasks \ {t} : CallOK(u)' /\ StepOK(u)'
      BY <1>0, <2>1 DEF CallOK, StepOK
    <2> QED
      BY <2>3, <2>4 DEF StepInv
  <1>8. ASSUME NEW t \in Tasks, begin_lost(t)
        PROVE  StepInv'
    <2>1. /\ UNCHANGED <<job, steps>>
          /\ pending'[t] = NoCall /\ \A u \in Tasks \ {t} : pending'[u] = pending[u]
      BY <1>0, <1>8 DEF begin_lost
    <2>2. CallOK(t)' /\ StepOK(t)'
      BY <1>0, <2>1 DEF CallOK, StepOK
    <2>3. \A u \in Tasks \ {t} : CallOK(u)' /\ StepOK(u)'
      BY <1>0, <2>1 DEF CallOK, StepOK
    <2> QED
      BY <2>2, <2>3 DEF StepInv
  <1>9. CASE Operator
    BY <1>0, <1>9, OperatorStep DEF StepInv, CallOK, StepOK
  <1> QED
    BY <1>1, <1>2, <1>3, <1>4, <1>5, <1>6, <1>7, <1>8, <1>9 DEF Next, Worker

\* A DONE job stays DONE, and requires what it required.
LEMMA DoneIsFinal ==
  ASSUME JobsInv, Next, NEW u \in Tasks, job[u].state = "DONE"
  PROVE  job'[u].state = "DONE" /\ job'[u].requires = job[u].requires
  <1>0. TypeOK /\ JobMatchesReservation
    BY DEF JobsInv
  <1>1. ASSUME NEW t \in Tasks, NEW now \in Time,
               (\E R \in Dependencies[t] : submit(t, R, now)) \/ \E w \in Workers, e \in 0 .. gov.epoch, lease \in Leases :
                 claim(t, w, e, lease, now) \/ takeover(t, w, e, lease, now)
        PROVE  job'[u].state = "DONE" /\ job'[u].requires = job[u].requires
    BY <1>0, <1>1, SubmitStep, ClaimStep, TakeoverStep DEF Frame
  <1>2. ASSUME NEW t \in Tasks, NEW now \in Time, NEW c \in issued[t],
               \/ \E lease \in Leases : renew(t, c, lease, now)
               \/ begin(t, c, now)
               \/ \E ev \in Evidence, applied \in SUBSET Tasks : finish(t, c, ev, now, applied)
        PROVE  job'[u].state = "DONE" /\ job'[u].requires = job[u].requires
    BY <1>0, <1>2, RenewStep, BeginStep, FinishStep DEF Frame
  <1>3. (\E t \in Tasks : (\E after \in Time : begin_return(t, after)) \/ begin_lost(t)) \/ Operator => UNCHANGED job
    BY <1>0, OperatorStep DEF begin_return, begin_lost
  <1> QED
    BY <1>1, <1>2, <1>3 DEF Next, Worker

\* The tasks reached from x along the dependencies D.
ReachIn(D, x) ==
  {u \in Tasks : \A S \in SUBSET Tasks :
     (x \in S /\ \A v \in S : D[v] \subseteq S) => u \in S}

\* They hold x, and whatever one of them requires; so they hold what is reached from any.
LEMMA ReachClosed ==
  ASSUME NEW D \in [Tasks -> SUBSET Tasks], NEW x \in Tasks
  PROVE  /\ ReachIn(D, x) \subseteq Tasks /\ x \in ReachIn(D, x)
         /\ \A u \in ReachIn(D, x) : D[u] \subseteq ReachIn(D, x)
         /\ \A u \in ReachIn(D, x) : ReachIn(D, u) \subseteq ReachIn(D, x)
  <1>1. ReachIn(D, x) \subseteq Tasks /\ x \in ReachIn(D, x)
    BY DEF ReachIn
  <1>2. ASSUME NEW u \in ReachIn(D, x), NEW v \in D[u]
        PROVE  v \in ReachIn(D, x)
    <2>1. u \in Tasks /\ v \in Tasks
      BY <1>1, <1>2
    <2>2. ASSUME NEW S \in SUBSET Tasks, x \in S, \A w \in S : D[w] \subseteq S
          PROVE  v \in S
      <3>1. u \in S
        BY <1>2, <2>2 DEF ReachIn
      <3> QED
        BY <1>2, <2>2, <3>1
    <2> QED
      BY <2>1, <2>2 DEF ReachIn
  <1>3. ASSUME NEW u \in ReachIn(D, x)
        PROVE  ReachIn(D, u) \subseteq ReachIn(D, x)
    <2> DEFINE S == ReachIn(D, x)
    <2>1. S \in SUBSET Tasks /\ u \in S /\ \A w \in S : D[w] \subseteq S
      BY <1>1, <1>2, <1>3
    <2> HIDE DEF S
    <2>2. ReachIn(D, u) \subseteq S
      BY <2>1 DEF ReachIn
    <2> QED
      BY <2>2 DEF S
  <1> QED
    BY <1>1, <1>2, <1>3

\* Dependencies that agree on all tasks reached from x reach the same tasks from it.
LEMMA ReachKept ==
  ASSUME NEW D \in [Tasks -> SUBSET Tasks], NEW F \in [Tasks -> SUBSET Tasks],
         NEW x \in Tasks, \A u \in ReachIn(D, x) : F[u] = D[u]
  PROVE  ReachIn(F, x) = ReachIn(D, x)
  <1> DEFINE S == ReachIn(D, x)
             U == ReachIn(F, x)
  <1>1. S \in SUBSET Tasks /\ x \in S /\ \A u \in S : F[u] \subseteq S
    BY ReachClosed
  <1> HIDE DEF S
  <1>2. U \subseteq S
    BY <1>1 DEF ReachIn
  <1>3. U \in SUBSET Tasks /\ x \in U /\ \A u \in U : F[u] \subseteq U
    BY ReachClosed
  <1>4. \A u \in U : D[u] \subseteq U
    BY <1>2, <1>3 DEF S
  <1> HIDE DEF U
  <1>5. S \subseteq U
    BY <1>3, <1>4 DEF ReachIn, S
  <1> QED
    BY <1>2, <1>5 DEF S, U

\* What a job reaches, and what that reaches, cannot change once all of it is submitted.
LEMMA ReachStep ==
  ASSUME TypeOK, TypeOK', NEW t \in Tasks,
         \A u \in Reach(t) : job'[u].requires = job[u].requires
  PROVE  /\ Reach(t)' = Reach(t) /\ Reach(t) \subseteq Tasks
         /\ \A u \in Reach(t) :
              /\ Requires[u]' = Requires[u] /\ Requires[u] \subseteq Reach(t)
              /\ \A v \in Requires[u] : Reach(v)' = Reach(v)
  <1> DEFINE D == Requires
             F == [x \in Tasks |-> job'[x].requires]
  <1>1. D \in [Tasks -> SUBSET Tasks] /\ F \in [Tasks -> SUBSET Tasks]
    BY DEF TypeOK, JobType, Requires
  <1>2. Requires' = F
    BY DEF Requires
  <1>3. /\ \A x : Reach(x) = ReachIn(D, x)
        /\ \A x \in Tasks : Reach(x)' = ReachIn(F, x)
    <2>1. \A x : Reach(x) = ReachIn(D, x)
      BY DEF Reach, ReachIn
    <2>2. \A x : Reach(x)' = ReachIn(F, x)
      BY <1>2 DEF Reach, ReachIn
    <2> QED
      BY <2>1, <2>2
  <1>4. \A u \in Reach(t) : F[u] = D[u] /\ u \in Tasks
    BY <1>3 DEF Requires, ReachIn
  <1> HIDE DEF D, F
  <1>5. /\ Reach(t) \subseteq Tasks
        /\ \A u \in Reach(t) : D[u] \subseteq Reach(t)
        /\ \A u \in Reach(t) : Reach(u) \subseteq Reach(t)
    BY <1>1, <1>3, ReachClosed
  <1>6. \A u \in Reach(t) : Reach(u)' = Reach(u)
    <2> SUFFICES ASSUME NEW u \in Reach(t) PROVE ReachIn(F, u) = ReachIn(D, u)
      BY <1>3, <1>5
    <2>1. u \in Tasks /\ \A v \in ReachIn(D, u) : F[v] = D[v]
      BY <1>3, <1>4, <1>5
    <2> QED
      BY <1>1, <2>1, ReachKept
  <1>7. t \in Reach(t)
    BY <1>1, <1>3, ReachClosed
  <1> QED
    BY <1>2, <1>4, <1>5, <1>6, <1>7 DEF D

\* What a bound job requires is DONE before it.
LEMMA RequiredStep ==
  ASSUME JobsInv, Next, TypeOK'
  PROVE  RequiredTasksFirst'
  <1>0. TypeOK /\ JobMatchesReservation /\ RequiredTasksFirst
    BY DEF JobsInv
  <1> DEFINE Before(t) ==
        \A u \in Reach(t) : job[u].state = "DONE" /\ \A v \in Requires[u] : u \notin Reach(v)
  <1>a. ASSUME NEW t \in Tasks, \A u \in Reach(t) : job'[u].requires = job[u].requires,
               \A u \in Reach(t) : /\ job'[u].state = "DONE"
                                   /\ \A v \in Requires[u] : u \notin Reach(v)
        PROVE  Before(t)'
    <2>1. /\ Reach(t)' = Reach(t)
          /\ \A u \in Reach(t) : /\ Requires[u]' = Requires[u]
                                 /\ \A v \in Requires[u] : Reach(v)' = Reach(v)
      BY <1>0, <1>a, ReachStep
    <2> QED
      BY <1>a, <2>1
  <1> HIDE DEF Before
  <1> SUFFICES ASSUME NEW t \in Bound, job'[t].state = "DONE"
               PROVE  Before(t)'
    BY DEF RequiredTasksFirst, Before
  <1>1. t \in Tasks /\ \A u \in Reach(t) : u \in Tasks
    BY JobsAssumption DEF Reach
  <1>2. CASE job[t].state = "DONE"
    <2>1. \A u \in Reach(t) : job[u].state = "DONE" /\ \A v \in Requires[u] : u \notin Reach(v)
      BY <1>0, <1>2 DEF RequiredTasksFirst
    <2>2. \A u \in Reach(t) : job'[u].state = "DONE" /\ job'[u].requires = job[u].requires
      BY <1>1, <2>1, DoneIsFinal
    <2> QED
      BY <1>a, <1>1, <2>1, <2>2
  <1>3. CASE job[t].state # "DONE"
    <2>1. PICK now \in Time, c \in issued[t], ev \in Evidence, applied \in SUBSET Tasks :
            finish(t, c, ev, now, applied)
      <3>1. ASSUME NEW w \in Tasks, NEW now \in Time,
                   (\E R \in Dependencies[w] : submit(w, R, now)) \/ \E k \in Workers, e \in 0 .. gov.epoch, lease \in Leases :
                     claim(w, k, e, lease, now) \/ takeover(w, k, e, lease, now)
            PROVE  FALSE
        BY <1>0, <1>1, <1>3, <3>1, SubmitStep, ClaimStep, TakeoverStep DEF Frame
      <3>2. ASSUME NEW w \in Tasks, NEW now \in Time, NEW c \in issued[w],
                   (\E lease \in Leases : renew(w, c, lease, now)) \/ begin(w, c, now)
            PROVE  FALSE
        BY <1>0, <1>1, <1>3, <3>2, RenewStep, BeginStep DEF Frame
      <3>3. ASSUME NEW w \in Tasks, NEW now \in Time, NEW c \in issued[w], NEW ev \in Evidence,
                   NEW applied \in SUBSET Tasks, finish(w, c, ev, now, applied)
            PROVE  w = t
        BY <1>0, <1>1, <1>3, <3>3, FinishStep DEF Frame
      <3>4. ~((\E w \in Tasks : (\E after \in Time : begin_return(w, after)) \/ begin_lost(w)) \/ Operator)
        BY <1>0, <1>3, OperatorStep DEF begin_return, begin_lost
      <3> QED
        BY <3>1, <3>2, <3>3, <3>4 DEF Next, Worker
    <2>2. Completed(t, applied)
      BY <1>0, <1>1, <2>1, FinishStep
    <2>3. \A u \in Tasks : job'[u].requires = job[u].requires
      BY <1>0, <1>1, <2>1, FinishStep DEF Frame
    <2>4. \A u \in Reach(t) : /\ job'[u].state = "DONE"
                              /\ \A v \in Requires[u] : u \notin Reach(v)
      BY <1>1, <2>2, DoneIsFinal DEF Completed
    <2> QED
      BY <1>a, <1>1, <2>3, <2>4
  <1> QED
    BY <1>2, <1>3

-----------------------------------------------------------------------------
(* Theorems *)

\* The inductive invariant.
THEOREM JobsAreInvariant == Spec => []JobsInv
  <1>0. (TypeOK => (JobMatchesReservation <=> \A t \in Tasks : Agree(t)))'
    BY MatchIsAgree, PTL
  <1>1. JobsInv /\ [Next]_vars => JobsInv'
    <2> SUFFICES ASSUME JobsInv, [Next]_vars PROVE JobsInv'
      OBVIOUS
    <2>1. CASE Next
      <3>1. TypeOK'
        BY <2>1, TypeStep
      <3>2. \A t \in Tasks : Agree(t)'
        BY <2>1, MatchStep
      <3>3. JobMatchesReservation'
        BY <1>0, <3>1, <3>2
      <3> QED
        BY <2>1, <3>1, <3>3, StepStep, RequiredStep DEF JobsInv
    <2>2. CASE UNCHANGED vars
      <3>1. TypeOK' /\ JobMatchesReservation'
        BY <2>2 DEF vars, JobsInv, TypeOK, JobMatchesReservation, Entry
      <3>2. StepInv'
        BY <2>2 DEF vars, JobsInv, StepInv, CallOK, StepOK
      <3>3. RequiredTasksFirst'
        <4>1. job' = job /\ Requires' = Requires
          BY <2>2 DEF vars, Requires
        <4>2. \A x : Reach(x)' = Reach(x)
          BY <4>1 DEF Reach
        <4> QED
          BY <4>1, <4>2 DEF JobsInv, RequiredTasksFirst
      <3> QED
        BY <3>1, <3>2, <3>3 DEF JobsInv
    <2> QED
      BY <2>1, <2>2
  <1> QED
    BY <1>1, InitJobs, PTL DEF Spec

\* Type correctness of the jobs and their governor.
THEOREM JobsTypeCorrect == Spec => []TypeOK
  <1>1. JobsInv => TypeOK
    BY DEF JobsInv
  <1> QED
    BY <1>1, JobsAreInvariant, PTL

\* A task is granted one step at most, and what it may have spent stays charged.
THEOREM StepsAreSingle == Spec => []OneStepPerTask
  <1>1. JobsInv => OneStepPerTask
    <2> SUFFICES ASSUME JobsInv, NEW t \in Tasks
                 PROVE  /\ Cardinality(steps[t]) <= 1
                        /\ steps[t] # {} => IdOf(t) \in InState(gov, SpentState)
      BY DEF OneStepPerTask
    <2>0. TypeOK /\ StepOK(t) /\ Agree(t)
      BY MatchIsAgree DEF JobsInv, StepInv
    <2>1. Cardinality(steps[t]) <= 1
      <3>1. CASE steps[t] = {}
        BY <3>1, FS_EmptySet
      <3>2. ASSUME NEW c \in steps[t]
            PROVE  Cardinality(steps[t]) <= 1
        <4>1. steps[t] = {c}
          BY <2>0 DEF StepOK
        <4>2. Cardinality({c}) = 1
          BY FS_Singleton
        <4> QED
          BY <4>1, <4>2
      <3> QED
        BY <3>1, <3>2
    <2>2. ASSUME steps[t] # {}
          PROVE  IdOf(t) \in InState(gov, SpentState)
      <3>1. job[t].state \in {"STARTED", "UNKNOWN", "DONE"}
        BY <2>0, <2>2 DEF StepOK
      <3>2. Reservation(t).state \in SpentState
        BY <2>0, <3>1 DEF Agree, SpentState
      <3> QED
        BY <3>2, TaskParts DEF InState, Reservation
    <2> QED
      BY <2>1, <2>2
  <1> QED
    BY <1>1, JobsAreInvariant, PTL

\* The job and its reservation never disagree about whether the work was sent.
THEOREM JobsMatchReservations == Spec => []JobMatchesReservation
  <1>1. JobsInv => JobMatchesReservation
    BY DEF JobsInv
  <1> QED
    BY <1>1, JobsAreInvariant, PTL

\* Whatever a bound job requires is DONE before it, and a cycle never is.
THEOREM RequirementsComeFirst == Spec => []RequiredTasksFirst
  <1>1. JobsInv => RequiredTasksFirst
    BY DEF JobsInv
  <1> QED
    BY <1>1, JobsAreInvariant, PTL

\* A step is granted to the claim on record, or by a reading earlier than the record's.
THEOREM StepsGoToHolders == Spec => StepOnlyToHolder
  <1>1. JobsInv /\ [Next]_vars =>
          [\A t \in Tasks : \A s \in steps'[t] \ steps[t] :
             s.claim = job'[t].claim \/ s.at < job'[t].last_now]_vars
    <2> SUFFICES ASSUME JobsInv, Next, NEW t \in Tasks, NEW s \in steps'[t] \ steps[t]
                 PROVE  s.claim = job'[t].claim \/ s.at < job'[t].last_now
      OBVIOUS
    <2>0. /\ TypeOK /\ JobMatchesReservation /\ CallOK(t)
          /\ steps \in [Tasks -> SUBSET [claim : Claims, at : Time]]
          /\ job[t].last_now \in Time \cup {-1}
      BY DEF JobsInv, TypeOK, StepInv, JobType
    <2>1. ASSUME NEW u \in Tasks, NEW after \in Time, begin_return(u, after)
          PROVE  s.claim = job'[t].claim \/ s.at < job'[t].last_now
      <3>1. /\ u = t /\ s.claim = pending[t].claim /\ s.at = after /\ UNCHANGED job
            /\ StillLeased(pending[t], after) /\ pending[t] # NoCall
        BY <2>0, <2>1 DEF begin_return
      <3>2. after < pending[t].claim.lease /\ pending[t].claim.lease \in Nat
        BY <2>0, <3>1, ClaimParts DEF StillLeased, CallOK
      <3>3. job[t].claim = pending[t].claim \/ job[t].last_now >= pending[t].claim.lease
        BY <2>0, <3>1 DEF CallOK
      <3>4. after \in Int /\ job[t].last_now \in Int
        BY <2>0, BoundsAssumption DEF Time
      <3> QED
        BY <3>1, <3>2, <3>3, <3>4
    <2>2. ASSUME NEW u \in Tasks, NEW now \in Time,
                 \/ \E R \in Dependencies[u] : submit(u, R, now)
                 \/ \E w \in Workers, e \in 0 .. gov.epoch, lease \in Leases :
                      claim(u, w, e, lease, now) \/ takeover(u, w, e, lease, now)
          PROVE  UNCHANGED steps
      BY <2>2 DEF submit, claim, takeover
    <2>3. ASSUME NEW u \in Tasks, NEW now \in Time, NEW d \in issued[u],
                 \/ \E lease \in Leases : renew(u, d, lease, now)
                 \/ begin(u, d, now)
                 \/ \E ev \in Evidence, applied \in SUBSET Tasks : finish(u, d, ev, now, applied)
          PROVE  UNCHANGED steps
      BY <2>3 DEF renew, begin, finish
    <2>4. (\E u \in Tasks : begin_lost(u)) \/ Operator => UNCHANGED steps
      BY <2>0, OperatorStep DEF begin_lost
    <2> QED
      BY <2>1, <2>2, <2>3, <2>4 DEF Next, Worker
  <1> QED
    BY <1>1, JobsAreInvariant, PTL DEF Spec, StepOnlyToHolder
=============================================================================
