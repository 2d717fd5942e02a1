--------------------------- MODULE ConsentProofs ----------------------------
(* What the owner or the operator said yes to, and nothing else: the owner's *)
(* memory slot for any number of candidates, challenges, manifests, verdicts *)
(* and configurations, and the protected changes of CloudOps for any runs,   *)
(* targets, challenges and failures.                                         *)
(*                                                                           *)
(* What memory is usable follows from what is on record and what is true     *)
(* now. The induction is over the records alone: the truth may change at any *)
(* step, and every comparison with it is part of Usable.                     *)
EXTENDS PersonalMemory, CloudOps, FiniteSetTheorems, TLAPS

BindingType == [cfg : Nat, hat : Manifests \cup {None}, ev : Evidence \cup {None}]

PatchType ==
  [state : PatchStates, rev : Nat, cfg : Nat, hat : Manifests \cup {None},
   ev : Evidence \cup {None}, validated : Nat, deleted : BOOLEAN]

ChallengeType ==
  [state : {"NONE", "OPEN", "SUPERSEDED", "EXPIRED", "CONSUMED"},
   patch : Patches \cup {None}, rev : Nat, binding : BindingType]

\* The types of what the induction is about.
TypeInv ==
  /\ space \in [state : SpaceStates, cfg : Nat, quota : Nat]
  /\ hat \in Manifests
  /\ evidence \in [Patches -> Evidence \cup {None}]
  /\ patch \in [Patches -> PatchType]
  /\ challenge \in [Challenges -> ChallengeType]
  /\ newest \in [Patches -> Challenges \cup {None}]
  /\ DOMAIN consent = Patches

\* An open challenge is the last one the owner asked for.
OpenIsNewest ==
  \A c \in Challenges : challenge[c].state = "OPEN" =>
    challenge[c].patch \in Patches /\ newest[challenge[c].patch] = c

Bound == {"EVIDENCE_BOUND", "VALIDATED", "AWAITING_APPROVAL", "APPROVED", "COMMITTED", "ACTIVE"}
Granted == {"APPROVED", "COMMITTED", "ACTIVE"}

\* From the evidence step on, a patch names its evidence; from the owner's
\* decision on, it is bound to what the owner approved.
RecordInv ==
  \A p \in Patches :
    /\ patch[p].state \in Bound => patch[p].ev # None
    /\ patch[p].state \in Granted => consent[p] = Binding(patch[p])
    /\ patch[p].cfg <= space.cfg

\* What has been done is on record, and a head that matches covers the log.
SealInv == sealed \subseteq logged /\ (headOK => sealed = logged)
RecordKept == SealInv /\ \A p \in Patches : OnRecord(p)

\* Patches in force under the present configuration.
InForceNow == {p \in InForce : patch[p].cfg = space.cfg}

QuotaInv == Cardinality(InForceNow) <= space.quota

MemoryInv ==
  /\ TypeInv /\ OpenIsNewest /\ RecordInv /\ QuotaInv
  /\ RecordKept /\ DeletionIsComplete

\* The tables of transitions, read backwards.
LEMMA Edges ==
  ASSUME NEW s \in SpaceStates, NEW t \in PatchStates
  PROVE  /\ PERSONAL_MEMORY_TRANSITIONS[s] \subseteq SpaceStates \ {"NONE", "EMPTY"}
         /\ "DELETED" \in PERSONAL_MEMORY_TRANSITIONS[s] => s = "DELETED_PENDING"
         /\ s = "DELETED_PENDING" => PERSONAL_MEMORY_TRANSITIONS[s] = {"DELETED"}
         /\ s = "DELETED" => PERSONAL_MEMORY_TRANSITIONS[s] = {}
         /\ "REVOKED" \in MEMORY_PATCH_TRANSITIONS[t] => t = "ACTIVE"
         /\ "SUPERSEDED" \in MEMORY_PATCH_TRANSITIONS[t] => t = "ACTIVE"
         /\ "VALIDATED" \in MEMORY_PATCH_TRANSITIONS[t] => t = "EVIDENCE_BOUND"
         /\ "PROPOSED" \in MEMORY_PATCH_TRANSITIONS[t] => t = "DETECTED"
         /\ "EVIDENCE_BOUND" \in MEMORY_PATCH_TRANSITIONS[t] => t = "PROPOSED"
         /\ "AWAITING_APPROVAL" \in MEMORY_PATCH_TRANSITIONS[t] => t = "VALIDATED"
  BY DEF SpaceStates, PatchStates, PERSONAL_MEMORY_TRANSITIONS, MEMORY_PATCH_TRANSITIONS

-----------------------------------------------------------------------------
\* Before the slot is created there is nothing to say.
LEMMA InitHolds ==
  ASSUME MemoryAssumption, Init
  PROVE  MemoryInv
  <1>1. TypeInv
    BY DEF Init, MemoryAssumption, TypeInv, PatchType, ChallengeType, BindingType, NoPatch,
           NoReceipt, SpaceStates, PatchStates, PERSONAL_MEMORY_TRANSITIONS,
           MEMORY_PATCH_TRANSITIONS
  <1>2. OpenIsNewest /\ RecordInv /\ RecordKept /\ DeletionIsComplete
    BY DEF Init, OpenIsNewest, RecordInv, RecordKept, OnRecord, SealInv, DeletionIsComplete,
           NoPatch, Bound, Granted
  <1>3. InForceNow = {}
    BY DEF Init, InForceNow, InForce, NoPatch
  <1>4. QuotaInv
    BY <1>3, FS_EmptySet DEF Init, QuotaInv
  <1> QED
    BY <1>1, <1>2, <1>4 DEF MemoryInv

\* Publication, acknowledgement, repair and what happens outside the slot
\* change no record, and the log only grows.
LEMMA QuietStep ==
  ASSUME MemoryInv, space' = space, patch' = patch, challenge' = challenge, newest' = newest,
         consent' = consent, sealed \subseteq sealed', SealInv', hat' \in Manifests,
         evidence' \in [Patches -> Evidence \cup {None}]
  PROVE  MemoryInv'
  <1>1. InForceNow' = InForceNow
    BY DEF InForceNow, InForce
  <1> QED
    BY <1>1 DEF MemoryInv, TypeInv, OpenIsNewest, RecordInv, QuotaInv, RecordKept,
                OnRecord, SealInv,
                DeletionIsComplete, Binding

\* Fewer patches in force is always within the quota.
LEMMA FewerInForce ==
  ASSUME MemoryAssumption, QuotaInv, space'.quota = space.quota, space'.quota \in Nat,
         InForceNow' \subseteq InForceNow
  PROVE  QuotaInv'
  <1>1. IsFiniteSet(InForceNow)
    BY FS_Subset DEF MemoryAssumption, InForceNow, InForce
  <1>2. /\ IsFiniteSet(InForceNow') /\ Cardinality(InForceNow') <= Cardinality(InForceNow)
        /\ Cardinality(InForceNow) \in Nat /\ Cardinality(InForceNow') \in Nat
    BY <1>1, FS_Subset, FS_CardinalityType
  <1> QED
    BY <1>2 DEF QuotaInv

\* One patch moves along the table and is not put in force.
LEMMA OnePatchMoves ==
  ASSUME MemoryAssumption, MemoryInv, NEW p \in Patches, NEW r \in PatchType,
         patch' = [patch EXCEPT ![p] = r], space' = space, hat' = hat, evidence' = evidence,
         UNCHANGED <<logged, sealed, headOK>>,
         challenge' \in [Challenges -> ChallengeType], newest' = newest, OpenIsNewest',
         DOMAIN consent' = Patches,
         \A q \in Patches : q # p => consent'[q] = consent[q],
         r.state # "ACTIVE",
         r.state \in Bound => r.ev # None,
         r.state \in Granted => consent'[p] = Binding(r),
         r.cfg <= space.cfg,
         r.state = "COMMITTED" => <<p, "approval">> \in sealed,
         r.state \in {"SUPERSEDED", "REVOKED"} => patch[p].state = "ACTIVE",
         space.state \in {"DELETED_PENDING", "DELETED"} => r.deleted
  PROVE  MemoryInv'
  <1>1. /\ patch'[p] = r /\ \A q \in Patches : q # p => patch'[q] = patch[q]
        /\ patch' \in [Patches -> PatchType]
    BY DEF MemoryInv, TypeInv
  <1>2. TypeInv'
    BY <1>1 DEF MemoryInv, TypeInv
  <1>3. RecordInv'
    <2>1. ASSUME NEW q \in Patches, q # p
          PROVE  /\ patch'[q].state \in Bound => patch'[q].ev # None
                 /\ patch'[q].state \in Granted => consent'[q] = Binding(patch'[q])
                 /\ patch'[q].cfg <= space.cfg
      <3>1. patch'[q] = patch[q] /\ consent'[q] = consent[q]
        BY <1>1, <2>1
      <3> QED
        BY <3>1 DEF MemoryInv, RecordInv
    <2> QED
      BY <1>1, <2>1 DEF RecordInv
  <1>4. InForceNow' \subseteq InForceNow
    BY <1>1 DEF InForceNow, InForce
  <1>5. QuotaInv'
    BY <1>4, FewerInForce DEF MemoryInv, TypeInv
  <1>6. RecordKept'
    BY <1>1 DEF MemoryInv, RecordKept, OnRecord, SealInv
  <1>7. DeletionIsComplete'
    BY <1>1 DEF MemoryInv, DeletionIsComplete
  <1> QED
    BY <1>2, <1>3, <1>5, <1>6, <1>7 DEF MemoryInv

\* A moved record keeps its type.
LEMMA BecomeType ==
  ASSUME NEW r \in PatchType, NEW t \in PatchStates
  PROVE  /\ Become(r, t) \in PatchType
         /\ Become(r, t).state = t /\ Become(r, t).rev = r.rev + 1
         /\ Become(r, t).deleted = r.deleted /\ Become(r, t).ev = r.ev
         /\ Become(r, t).cfg = r.cfg /\ Become(r, t).hat = r.hat
         /\ Binding(Become(r, t)) = Binding(r)
  <1> DEFINE r1 == [r EXCEPT !.state = t]
             b  == [r1 EXCEPT !.rev = r1.rev + 1]
  <1>1. /\ r1 \in PatchType /\ r1.state = t /\ r1.rev = r.rev /\ r1.deleted = r.deleted
        /\ r1.ev = r.ev /\ r1.cfg = r.cfg /\ r1.hat = r.hat
    BY DEF PatchType
  <1>2. Become(r, t) = b
    BY Zenon DEF Become
  <1> HIDE DEF r1
  <1>3. /\ b \in PatchType /\ b.state = t /\ b.rev = r.rev + 1 /\ b.deleted = r.deleted
        /\ b.ev = r.ev /\ b.cfg = r.cfg /\ b.hat = r.hat
    BY <1>1 DEF PatchType
  <1> HIDE DEF b
  <1> QED
    BY <1>2, <1>3 DEF Binding

-----------------------------------------------------------------------------
(* One lemma per operation *)

LEMMA CreateSlotStep ==
  ASSUME MemoryAssumption, MemoryInv, CreateSlot
  PROVE  MemoryInv'
  <1>1. /\ space' = [space EXCEPT !.state = "EMPTY"] /\ patch' = patch
        /\ challenge' = challenge /\ newest' = newest /\ consent' = consent
        /\ UNCHANGED <<logged, sealed, headOK>> /\ hat' = hat /\ evidence' = evidence
    BY DEF CreateSlot, world, core, history
  <1>2. /\ space' \in [state : SpaceStates, cfg : Nat, quota : Nat]
        /\ space'.state = "EMPTY" /\ space'.cfg = space.cfg /\ space'.quota = space.quota
    BY <1>1 DEF MemoryInv, TypeInv, SpaceStates, PERSONAL_MEMORY_TRANSITIONS
  <1>3. TypeInv' /\ OpenIsNewest' /\ RecordInv' /\ RecordKept' /\ DeletionIsComplete'
    BY <1>1, <1>2 DEF MemoryInv, TypeInv, OpenIsNewest, RecordInv, RecordKept, OnRecord, SealInv,
                      DeletionIsComplete, Binding
  <1>4. InForceNow' = InForceNow
    BY <1>1, <1>2 DEF InForceNow, InForce
  <1> QED
    BY <1>2, <1>3, <1>4 DEF MemoryInv, QuotaInv

\* A new configuration starts with nothing in force.
LEMMA ConfigureSlotStep ==
  ASSUME MemoryAssumption, MemoryInv, NEW q \in Quotas, ConfigureSlot(q)
  PROVE  MemoryInv'
  <1>1. /\ space' = [state |-> "CONFIGURED", cfg |-> space.cfg + 1, quota |-> q]
        /\ patch' = patch /\ challenge' = challenge /\ newest' = newest /\ consent' = consent
        /\ UNCHANGED <<logged, sealed, headOK>> /\ hat' = hat /\ evidence' = evidence
    BY DEF ConfigureSlot, world, core, history
  <1>2. /\ space' \in [state : SpaceStates, cfg : Nat, quota : Nat]
        /\ space'.state = "CONFIGURED" /\ space'.cfg = space.cfg + 1 /\ space'.quota = q
        /\ space.cfg \in Nat /\ q \in Nat
    BY <1>1 DEF MemoryAssumption, MemoryInv, TypeInv, SpaceStates, PERSONAL_MEMORY_TRANSITIONS
  <1>3. TypeInv' /\ OpenIsNewest' /\ RecordKept' /\ DeletionIsComplete'
    BY <1>1, <1>2 DEF MemoryInv, TypeInv, OpenIsNewest, RecordKept, OnRecord, SealInv,
                      DeletionIsComplete
  <1>4. \A p \in Patches : patch[p].cfg \in Nat /\ patch[p].cfg <= space.cfg
    BY DEF MemoryInv, TypeInv, PatchType, RecordInv
  <1>5. RecordInv'
    BY <1>1, <1>2, <1>4 DEF MemoryInv, RecordInv, Binding
  <1>6. InForceNow' = {}
    BY <1>1, <1>2, <1>4 DEF InForceNow, InForce
  <1>7. QuotaInv'
    BY <1>2, <1>6, FS_EmptySet DEF QuotaInv
  <1> QED
    BY <1>3, <1>5, <1>7 DEF MemoryInv

\* What a deletion leaves of a record.
LEMMA ForgottenRecord ==
  ASSUME NEW r \in PatchType
  PROVE  /\ Forgotten(r) \in PatchType
         /\ Binding(Forgotten(r)) = Binding(r)
         /\ Forgotten(r).ev = r.ev /\ Forgotten(r).cfg = r.cfg
         /\ Forgotten(r).state = r.state \/ (r.state = "ACTIVE" /\ Forgotten(r).state = "REVOKED")
         /\ r.state # "NONE" => Forgotten(r).deleted /\ Forgotten(r).state # "ACTIVE"
  <1>1. CASE r.state = "NONE" \/ (r.deleted /\ r.state # "ACTIVE")
    BY <1>1 DEF Forgotten
  <1>2. CASE ~(r.state = "NONE" \/ (r.deleted /\ r.state # "ACTIVE"))
    <2> DEFINE r1 == [r EXCEPT !.deleted = TRUE]
               r2 == [r1 EXCEPT !.rev = r1.rev + 1]
               r3 == [r2 EXCEPT !.state = IF r2.state = "ACTIVE" THEN "REVOKED" ELSE r2.state]
    <2>1. /\ r1 \in PatchType /\ r1.deleted /\ r1.state = r.state /\ r1.ev = r.ev
          /\ r1.cfg = r.cfg /\ r1.hat = r.hat
      BY DEF PatchType
    <2>2. Forgotten(r) = r3
      BY <1>2, Zenon DEF Forgotten
    <2> HIDE DEF r1
    <2>3. /\ r2 \in PatchType /\ r2.deleted /\ r2.state = r.state /\ r2.ev = r.ev
          /\ r2.cfg = r.cfg /\ r2.hat = r.hat
      BY <2>1 DEF PatchType
    <2> HIDE DEF r2
    <2>4. /\ r3 \in PatchType /\ r3.deleted /\ r3.ev = r.ev /\ r3.cfg = r.cfg /\ r3.hat = r.hat
          /\ r3.state = IF r.state = "ACTIVE" THEN "REVOKED" ELSE r.state
      BY <2>3 DEF PatchType, PatchStates, MEMORY_PATCH_TRANSITIONS
    <2> HIDE DEF r3
    <2> QED
      BY <2>2, <2>4 DEF Binding
  <1> QED
    BY <1>1, <1>2

LEMMA ChangeSlotStateStep ==
  ASSUME MemoryAssumption, MemoryInv, NEW t \in SpaceStates, ChangeSlotState(t)
  PROVE  MemoryInv'
  <1>1. /\ space' = [space EXCEPT !.state = t] /\ t \in PERSONAL_MEMORY_TRANSITIONS[space.state]
        /\ challenge' = challenge /\ newest' = newest /\ consent' = consent
        /\ UNCHANGED <<logged, sealed, headOK>> /\ hat' = hat /\ evidence' = evidence
    BY DEF ChangeSlotState, world, core, history
  <1>2. /\ space' \in [state : SpaceStates, cfg : Nat, quota : Nat] /\ space.state \in SpaceStates
        /\ space'.state = t /\ space'.cfg = space.cfg /\ space'.quota = space.quota
    BY <1>1 DEF MemoryInv, TypeInv
  <1>3. CASE t # "DELETED_PENDING"
    <2>1. patch' = patch
      BY <1>3 DEF ChangeSlotState
    <2>2. t = "DELETED" => space.state = "DELETED_PENDING"
      BY <1>1, <1>2, Edges DEF PatchStates, MEMORY_PATCH_TRANSITIONS
    <2>3. TypeInv' /\ OpenIsNewest' /\ RecordInv' /\ RecordKept'
      BY <1>1, <1>2, <2>1 DEF MemoryInv, TypeInv, OpenIsNewest, RecordInv, RecordKept,
                              OnRecord, SealInv,
         Binding
    <2>4. DeletionIsComplete'
      BY <1>2, <1>3, <2>1, <2>2 DEF MemoryInv, DeletionIsComplete
    <2>5. InForceNow' = InForceNow
      BY <1>2, <2>1 DEF InForceNow, InForce
    <2> QED
      BY <1>2, <2>3, <2>4, <2>5 DEF MemoryInv, QuotaInv
  <1>4. CASE t = "DELETED_PENDING"
    <2>1. patch' = [p \in Patches |-> Forgotten(patch[p])]
      BY <1>4 DEF ChangeSlotState
    <2>2. \A p \in Patches : patch[p] \in PatchType /\ patch'[p] = Forgotten(patch[p])
      BY <2>1 DEF MemoryInv, TypeInv
    <2>3. \A p \in Patches :
            /\ patch'[p] \in PatchType /\ Binding(patch'[p]) = Binding(patch[p])
            /\ patch'[p].ev = patch[p].ev /\ patch'[p].cfg = patch[p].cfg
            /\ patch'[p].state = patch[p].state
               \/ (patch[p].state = "ACTIVE" /\ patch'[p].state = "REVOKED")
            /\ patch[p].state # "NONE" => patch'[p].deleted /\ patch'[p].state # "ACTIVE"
      BY <2>2, ForgottenRecord
    <2>4. TypeInv' /\ OpenIsNewest'
      BY <1>1, <1>2, <2>1, <2>3 DEF MemoryInv, TypeInv, OpenIsNewest
    <2>5. RecordInv'
      BY <1>1, <1>2, <2>3 DEF MemoryInv, RecordInv, Bound, Granted
    <2>6. RecordKept'
      BY <1>1, <2>3 DEF MemoryInv, RecordKept, OnRecord, SealInv
    <2>7. DeletionIsComplete'
      BY <2>3 DEF DeletionIsComplete
    <2>8. InForceNow' \subseteq InForceNow
      BY <1>2, <2>3 DEF InForceNow, InForce
    <2>9. QuotaInv'
      BY <1>2, <2>8, FewerInForce DEF MemoryInv
    <2> QED
      BY <2>4, <2>5, <2>6, <2>7, <2>9 DEF MemoryInv
  <1> QED
    BY <1>3, <1>4

LEMMA IntakeStep ==
  ASSUME MemoryAssumption, MemoryInv, NEW p \in Patches, Intake(p)
  PROVE  MemoryInv'
  <1> DEFINE r == [state |-> "DETECTED", rev |-> 1, cfg |-> space.cfg, hat |-> hat,
                   ev |-> None, validated |-> 0, deleted |-> FALSE]
  <1>1. /\ patch' = [patch EXCEPT ![p] = r] /\ space.state = "ACTIVE"
        /\ space' = space /\ hat' = hat /\ evidence' = evidence /\ challenge' = challenge
        /\ newest' = newest /\ consent' = consent /\ UNCHANGED <<logged, sealed, headOK>>
    BY DEF Intake, world, core, history
  <1>2. /\ r \in PatchType /\ r.state = "DETECTED" /\ r.cfg <= space.cfg
    BY DEF MemoryInv, TypeInv, PatchType, PatchStates, MEMORY_PATCH_TRANSITIONS
  <1> HIDE DEF r
  <1>3. OpenIsNewest' /\ challenge' \in [Challenges -> ChallengeType] /\ DOMAIN consent' = Patches
    BY <1>1 DEF MemoryInv, TypeInv, OpenIsNewest
  <1>4. /\ r.state \notin Bound /\ r.state \notin Granted
        /\ r.state \notin {"ACTIVE", "COMMITTED", "SUPERSEDED", "REVOKED"}
        /\ space.state \notin {"DELETED_PENDING", "DELETED"}
    BY <1>1, <1>2 DEF Bound, Granted
  <1> QED
    BY <1>1, <1>2, <1>3, <1>4, OnePatchMoves

LEMMA AdvanceStep ==
  ASSUME MemoryAssumption, MemoryInv, NEW p \in Patches, NEW t \in Stages, Advance(p, t)
  PROVE  MemoryInv'
  <1> DEFINE b  == Become(patch[p], t)
             r1 == [b EXCEPT !.ev = IF t = "PROPOSED" THEN b.ev ELSE evidence[p]]
             r  == [r1 EXCEPT !.validated = IF t = "VALIDATED" THEN patch[p].rev + 1 ELSE r1.validated]
  <1>1. /\ Configured(p) /\ (t # "PROPOSED" => Current(p))
        /\ t \in MEMORY_PATCH_TRANSITIONS[patch[p].state]
        /\ space' = space /\ hat' = hat /\ evidence' = evidence /\ challenge' = challenge
        /\ newest' = newest /\ consent' = consent /\ UNCHANGED <<logged, sealed, headOK>>
    BY DEF Advance, MayBecome, world, core, history
  <1>2. patch' = [patch EXCEPT ![p] = r]
    BY Zenon DEF Advance
  <1>3. patch[p] \in PatchType /\ t \in PatchStates /\ evidence[p] \in Evidence \cup {None}
    BY DEF MemoryInv, TypeInv, Stages, PatchStates, MEMORY_PATCH_TRANSITIONS
  <1>4. /\ b \in PatchType /\ b.state = t /\ b.deleted = patch[p].deleted /\ b.cfg = patch[p].cfg
    BY <1>3, BecomeType
  <1> HIDE DEF b
  <1>5. /\ r1 \in PatchType /\ r1.state = t /\ r1.deleted = patch[p].deleted /\ r1.cfg = patch[p].cfg
        /\ t # "PROPOSED" => r1.ev = evidence[p]
    BY <1>3, <1>4 DEF PatchType
  <1> HIDE DEF r1
  <1>6. /\ r \in PatchType /\ r.state = t /\ r.deleted = patch[p].deleted /\ r.cfg = patch[p].cfg
        /\ t # "PROPOSED" => r.ev = evidence[p]
    BY <1>3, <1>5 DEF PatchType
  <1> HIDE DEF r
  <1>7. /\ space.state = "ACTIVE" /\ r.cfg <= space.cfg
        /\ t # "PROPOSED" => r.ev # None
    BY <1>1, <1>6 DEF Configured, Current, MemoryInv, RecordInv
  <1>8. OpenIsNewest' /\ challenge' \in [Challenges -> ChallengeType] /\ DOMAIN consent' = Patches
    BY <1>1 DEF MemoryInv, TypeInv, OpenIsNewest
  <1> QED
    BY <1>1, <1>2, <1>6, <1>7, <1>8, OnePatchMoves DEF Bound, Granted, Stages

LEMMA ChallengeStep ==
  ASSUME MemoryAssumption, MemoryInv, NEW p \in Patches, NEW c \in Challenges, Challenge(p, c)
  PROVE  MemoryInv'
  <1>1. /\ space' = space /\ hat' = hat /\ evidence' = evidence /\ patch' = patch
        /\ consent' = consent /\ UNCHANGED <<logged, sealed, headOK>>
        /\ newest' = [newest EXCEPT ![p] = c]
        /\ challenge[c].state = "NONE"
    BY DEF Challenge, world, core
  <1>2. challenge' = [d \in Challenges |->
           IF d = c THEN [state |-> "OPEN", patch |-> p, rev |-> patch[p].rev,
                          binding |-> Binding(patch[p])]
           ELSE IF challenge[d].patch = p /\ challenge[d].state = "OPEN"
                THEN [challenge[d] EXCEPT !.state = "SUPERSEDED"]
                ELSE challenge[d]]
    BY DEF Challenge
  <1>3. patch[p].rev \in Nat /\ Binding(patch[p]) \in BindingType
    BY DEF MemoryInv, TypeInv, PatchType, Binding, BindingType
  <1>4. challenge' \in [Challenges -> ChallengeType]
    <2>1. ASSUME NEW d \in Challenges PROVE challenge'[d] \in ChallengeType
      <3>1. CASE d = c
        BY <1>2, <1>3, <3>1 DEF ChallengeType
      <3>2. CASE d # c
        <4>1. challenge[d] \in ChallengeType
          BY DEF MemoryInv, TypeInv
        <4>2. [challenge[d] EXCEPT !.state = "SUPERSEDED"] \in ChallengeType
          BY <4>1 DEF ChallengeType
        <4> QED
          BY <1>2, <3>2, <4>1, <4>2
      <3> QED
        BY <3>1, <3>2
    <2> QED
      BY <1>2, <2>1
  <1>5. OpenIsNewest'
    <2>1. ASSUME NEW d \in Challenges, challenge'[d].state = "OPEN"
          PROVE  challenge'[d].patch \in Patches /\ newest'[challenge'[d].patch] = d
      <3>1. CASE d = c
        BY <1>1, <1>2, <3>1 DEF MemoryInv, TypeInv
      <3>2. CASE d # c
        <4>1. challenge'[d] = challenge[d] /\ challenge[d].patch # p
          BY <1>2, <2>1, <3>2 DEF MemoryInv, TypeInv, ChallengeType
        <4> QED
          BY <1>1, <2>1, <4>1 DEF MemoryInv, TypeInv, OpenIsNewest
      <3> QED
        BY <3>1, <3>2
    <2> QED
      BY <2>1 DEF OpenIsNewest
  <1>6. TypeInv'
    BY <1>1, <1>4 DEF MemoryInv, TypeInv
  <1>7. RecordInv' /\ RecordKept' /\ DeletionIsComplete' /\ InForceNow' = InForceNow
    BY <1>1 DEF MemoryInv, RecordInv, RecordKept, OnRecord,
                SealInv, DeletionIsComplete, InForceNow, InForce
  <1> QED
    BY <1>1, <1>5, <1>6, <1>7 DEF MemoryInv, QuotaInv

\* Closing a challenge leaves the others as they are.
LEMMA ClosedChallenge ==
  ASSUME MemoryInv, NEW c \in Challenges, NEW s \in {"EXPIRED", "CONSUMED"},
         challenge' = [challenge EXCEPT ![c].state = s], newest' = newest
  PROVE  challenge' \in [Challenges -> ChallengeType] /\ OpenIsNewest'
  <1>1. [challenge[c] EXCEPT !.state = s] \in ChallengeType
    BY DEF MemoryInv, TypeInv, ChallengeType
  <1>2. /\ challenge' = [challenge EXCEPT ![c] = [challenge[c] EXCEPT !.state = s]]
        /\ challenge[c] \in ChallengeType
    BY DEF MemoryInv, TypeInv
  <1>3. [challenge[c] EXCEPT !.state = s].state = s
    BY <1>2 DEF ChallengeType
  <1>4. challenge' \in [Challenges -> ChallengeType]
    BY <1>1, <1>2 DEF MemoryInv, TypeInv
  <1>5. \A d \in Challenges : challenge'[d].state = "OPEN" => challenge'[d] = challenge[d]
    BY <1>2, <1>3 DEF MemoryInv, TypeInv
  <1> QED
    BY <1>4, <1>5 DEF MemoryInv, OpenIsNewest

LEMMA DecideLateStep ==
  ASSUME MemoryAssumption, MemoryInv, NEW c \in Challenges, DecideLate(c)
  PROVE  MemoryInv'
  <1>1. /\ challenge' = [challenge EXCEPT ![c].state = "EXPIRED"]
        /\ space' = space /\ hat' = hat /\ evidence' = evidence /\ patch' = patch
        /\ newest' = newest /\ consent' = consent /\ UNCHANGED <<logged, sealed, headOK>>
    BY DEF DecideLate, world, core, history
  <1>2. challenge' \in [Challenges -> ChallengeType] /\ OpenIsNewest'
    BY <1>1, ClosedChallenge
  <1>3. TypeInv'
    BY <1>1, <1>2 DEF MemoryInv, TypeInv
  <1>4. RecordInv' /\ RecordKept' /\ DeletionIsComplete' /\ InForceNow' = InForceNow
    BY <1>1 DEF MemoryInv, RecordInv, RecordKept, OnRecord,
                SealInv, DeletionIsComplete, InForceNow, InForce
  <1> QED
    BY <1>1, <1>2, <1>3, <1>4 DEF MemoryInv, QuotaInv

\* The owner's yes is recorded for what the patch is bound to: the question
\* answered is the last one asked, and the bindings are those of the moment.
LEMMA DecideStep ==
  ASSUME MemoryAssumption, MemoryInv, NEW c \in Challenges,
         NEW d \in {"APPROVED", "REJECTED"}, Decide(c, d)
  PROVE  MemoryInv'
  <1> DEFINE p == challenge[c].patch
             r == Become(patch[p], d)
  <1>1. /\ challenge[c].state = "OPEN" /\ patch[p].state = "AWAITING_APPROVAL" /\ Current(p)
        /\ challenge' = [challenge EXCEPT ![c].state = "CONSUMED"]
        /\ patch' = [patch EXCEPT ![p] = Become(patch[p], d)]
        /\ consent' = IF d = "APPROVED" /\ newest[p] = c
                      THEN [consent EXCEPT ![p] = Now(p)] ELSE consent
        /\ space' = space /\ hat' = hat /\ evidence' = evidence /\ newest' = newest
        /\ UNCHANGED <<logged, sealed, headOK>>
    BY DEF Decide, Answers, world, core
  <1>2. p \in Patches /\ newest[p] = c
    BY <1>1 DEF MemoryInv, OpenIsNewest
  <1>3. patch[p] \in PatchType /\ d \in PatchStates
    BY <1>2 DEF MemoryInv, TypeInv, PatchStates, MEMORY_PATCH_TRANSITIONS
  <1>4. challenge' \in [Challenges -> ChallengeType] /\ OpenIsNewest'
    BY <1>1, ClosedChallenge
  <1>5. /\ patch[p].ev # None /\ patch[p].cfg <= space.cfg
        /\ patch[p].ev = evidence[p] /\ patch[p].hat = hat /\ patch[p].cfg = space.cfg
        /\ space.state = "ACTIVE"
    BY <1>1, <1>2 DEF MemoryInv, RecordInv, Bound, Current, Configured
  <1>6. Now(p) = Binding(patch[p])
    BY <1>5 DEF Now, Binding
  <1>7. /\ r \in PatchType /\ r.state = d /\ r.deleted = patch[p].deleted
        /\ r.ev = patch[p].ev /\ r.cfg = patch[p].cfg /\ Binding(r) = Binding(patch[p])
    BY <1>3, BecomeType
  <1>8. patch' = [patch EXCEPT ![p] = r]
    BY <1>1
  <1> HIDE DEF p, r
  <1>9. /\ DOMAIN consent' = Patches /\ \A q \in Patches : q # p => consent'[q] = consent[q]
        /\ d = "APPROVED" => consent'[p] = Binding(r)
    BY <1>1, <1>2, <1>6, <1>7 DEF MemoryInv, TypeInv
  <1>10. /\ r.state # "ACTIVE" /\ r.ev # None /\ r.cfg <= space.cfg
         /\ r.state \in Granted => consent'[p] = Binding(r)
         /\ r.state \notin {"COMMITTED", "SUPERSEDED", "REVOKED"}
         /\ space.state \notin {"DELETED_PENDING", "DELETED"}
    BY <1>5, <1>7, <1>9 DEF Granted
  <1> QED
    BY <1>1, <1>2, <1>4, <1>7, <1>8, <1>9, <1>10, OnePatchMoves

LEMMA CommitStep ==
  ASSUME MemoryAssumption, MemoryInv, NEW p \in Patches, Commit(p)
  PROVE  MemoryInv'
  <1> DEFINE r == Become(patch[p], "COMMITTED")
  <1>1. /\ patch[p].state = "APPROVED" /\ Current(p) /\ Approved(p)
        /\ patch' = [patch EXCEPT ![p] = r]
        /\ space' = space /\ hat' = hat /\ evidence' = evidence /\ challenge' = challenge
        /\ newest' = newest /\ consent' = consent /\ UNCHANGED <<logged, sealed, headOK>>
    BY DEF Commit, world, core, history
  <1>2. patch[p] \in PatchType /\ "COMMITTED" \in PatchStates
    BY DEF MemoryInv, TypeInv, PatchStates, MEMORY_PATCH_TRANSITIONS
  <1>3. /\ r \in PatchType /\ r.state = "COMMITTED" /\ r.ev = patch[p].ev
        /\ r.cfg = patch[p].cfg /\ Binding(r) = Binding(patch[p])
    BY <1>2, BecomeType
  <1> HIDE DEF r
  <1>4. OpenIsNewest' /\ challenge' \in [Challenges -> ChallengeType] /\ DOMAIN consent' = Patches
    BY <1>1 DEF MemoryInv, TypeInv, OpenIsNewest
  <1>5. /\ <<p, "approval">> \in sealed /\ space.state = "ACTIVE"
    BY <1>1 DEF Approved, Published, Current, Configured, MemoryInv, RecordKept, SealInv
  <1>6. /\ r.ev # None /\ consent'[p] = Binding(r) /\ r.cfg <= space.cfg
    BY <1>1, <1>3 DEF MemoryInv, RecordInv, Bound, Granted
  <1>7. /\ r.state # "ACTIVE" /\ r.state \notin {"SUPERSEDED", "REVOKED"}
        /\ space.state \notin {"DELETED_PENDING", "DELETED"}
    BY <1>3, <1>5
  <1> QED
    BY <1>1, <1>3, <1>4, <1>5, <1>6, <1>7, OnePatchMoves

\* The one step that puts a patch in force counts it first.
LEMMA ActivateStep ==
  ASSUME MemoryAssumption, MemoryInv, NEW p \in Patches, Activate(p)
  PROVE  MemoryInv'
  <1> DEFINE r == Become(patch[p], "ACTIVE")
  <1>1. /\ patch[p].state = "COMMITTED" /\ Current(p) /\ Committed(p) /\ WithinQuota({p})
        /\ patch' = [patch EXCEPT ![p] = r]
        /\ space' = space /\ hat' = hat /\ evidence' = evidence /\ challenge' = challenge
        /\ newest' = newest /\ consent' = consent /\ UNCHANGED <<logged, sealed, headOK>>
    BY DEF Activate, world, core, history
  <1>2. patch[p] \in PatchType /\ "ACTIVE" \in PatchStates
    BY DEF MemoryInv, TypeInv, PatchStates, MEMORY_PATCH_TRANSITIONS
  <1>3. /\ r \in PatchType /\ r.state = "ACTIVE" /\ r.ev = patch[p].ev
        /\ r.cfg = patch[p].cfg /\ Binding(r) = Binding(patch[p])
    BY <1>2, BecomeType
  <1> HIDE DEF r
  <1>4. /\ patch'[p] = r /\ \A q \in Patches : q # p => patch'[q] = patch[q]
        /\ patch' \in [Patches -> PatchType]
    BY <1>1, <1>3 DEF MemoryInv, TypeInv
  <1>5. TypeInv' /\ OpenIsNewest'
    BY <1>1, <1>4 DEF MemoryInv, TypeInv, OpenIsNewest
  <1>6. /\ <<p, "approval">> \in sealed /\ <<p, "commit">> \in sealed /\ space.state = "ACTIVE"
    BY <1>1 DEF Committed, Approved, Published, Current, Configured, MemoryInv, RecordKept,
                SealInv
  <1>7. /\ r.ev # None /\ consent[p] = Binding(r) /\ r.cfg <= space.cfg
    BY <1>1, <1>3 DEF MemoryInv, RecordInv, Bound, Granted
  <1>8. RecordInv'
    BY <1>1, <1>4, <1>7 DEF MemoryInv, RecordInv
  <1>9. RecordKept' /\ DeletionIsComplete'
    BY <1>1, <1>4, <1>6 DEF MemoryInv, RecordKept, OnRecord, SealInv, DeletionIsComplete
  <1>10. QuotaInv'
    <2>1. InForceNow' \subseteq InForce \cup {p}
      BY <1>4 DEF InForceNow, InForce
    <2>2. IsFiniteSet(InForce \cup {p})
      BY FS_Subset DEF MemoryAssumption, InForce
    <2>3. /\ Cardinality(InForceNow') <= Cardinality(InForce \cup {p})
          /\ Cardinality(InForceNow') \in Nat /\ Cardinality(InForce \cup {p}) \in Nat
      BY <2>1, <2>2, FS_Subset, FS_CardinalityType
    <2>4. Cardinality(InForce \cup {p}) <= space.quota /\ space.quota \in Nat
      BY <1>1 DEF WithinQuota, MemoryInv, TypeInv
    <2> QED
      BY <1>1, <2>3, <2>4 DEF QuotaInv
  <1> QED
    BY <1>5, <1>8, <1>9, <1>10 DEF MemoryInv

\* Leaving the force, by revocation or replacement.
LEMMA Withdrawn ==
  ASSUME MemoryAssumption, MemoryInv, NEW p \in Patches, NEW t \in {"REVOKED", "SUPERSEDED"},
         MayBecome(p, t), patch' = [patch EXCEPT ![p] = Become(patch[p], t)],
         space' = space, hat' = hat, evidence' = evidence, challenge' = challenge,
         newest' = newest, consent' = consent, UNCHANGED <<logged, sealed, headOK>>
  PROVE  MemoryInv'
  <1> DEFINE r == Become(patch[p], t)
  <1>1. patch[p] \in PatchType /\ t \in PatchStates
    BY DEF MemoryInv, TypeInv, PatchStates, MEMORY_PATCH_TRANSITIONS
  <1>2. patch[p].state = "ACTIVE"
    <2>1. patch[p].state \in PatchStates /\ "NONE" \in SpaceStates
      BY <1>1 DEF PatchType, SpaceStates, PERSONAL_MEMORY_TRANSITIONS
    <2> QED
      BY <2>1, Edges DEF MayBecome
  <1>3. /\ r \in PatchType /\ r.state = t /\ r.deleted = patch[p].deleted /\ r.cfg = patch[p].cfg
    BY <1>1, BecomeType
  <1>4. patch' = [patch EXCEPT ![p] = r]
    OBVIOUS
  <1> HIDE DEF r
  <1>5. OpenIsNewest' /\ challenge' \in [Challenges -> ChallengeType] /\ DOMAIN consent' = Patches
    BY DEF MemoryInv, TypeInv, OpenIsNewest
  <1>6. /\ r.state \notin Bound /\ r.state \notin Granted
        /\ r.state # "ACTIVE" /\ r.state # "COMMITTED" /\ r.cfg <= space.cfg
        /\ space.state \notin {"DELETED_PENDING", "DELETED"}
    BY <1>2, <1>3 DEF Bound, Granted, MemoryInv, RecordInv, DeletionIsComplete
  <1> QED
    BY <1>2, <1>3, <1>4, <1>5, <1>6, OnePatchMoves

LEMMA RevokeStep ==
  ASSUME MemoryAssumption, MemoryInv, NEW p \in Patches, Revoke(p)
  PROVE  MemoryInv'
  BY Withdrawn DEF Revoke, world, core, history

LEMMA SupersedeStep ==
  ASSUME MemoryAssumption, MemoryInv, NEW p \in Patches, NEW new \in Patches, Supersede(p, new)
  PROVE  MemoryInv'
  BY Withdrawn DEF Supersede, world, core, history

\* Publication and the world outside the slot.
LEMMA QuietActions ==
  ASSUME MemoryAssumption, MemoryInv,
         \/ Publish \/ PublishBreaks \/ OtherBreaks \/ Acknowledge \/ ReconcileCheckpoint
         \/ \E m \in Manifests : HatChanges(m)
         \/ \E p \in Patches, v \in Evidence \cup {None} : EvidenceChanges(p, v)
         \/ UNCHANGED vars
  PROVE  MemoryInv'
  <1>1. /\ space' = space /\ patch' = patch /\ challenge' = challenge /\ newest' = newest
        /\ consent' = consent /\ sealed \subseteq sealed' /\ SealInv'
    BY DEF MemoryInv, RecordKept, SealInv, Publish, PublishBreaks, OtherBreaks, Acknowledge,
           ReconcileCheckpoint, HatChanges,
           EvidenceChanges, vars, world, core, history
  <1>2. hat' \in Manifests
    BY DEF Publish, PublishBreaks, OtherBreaks, Acknowledge, ReconcileCheckpoint, HatChanges,
           EvidenceChanges, vars, world, MemoryInv, TypeInv
  <1>3. evidence' \in [Patches -> Evidence \cup {None}]
    BY DEF Publish, PublishBreaks, OtherBreaks, Acknowledge, ReconcileCheckpoint, HatChanges,
           EvidenceChanges, vars, world, MemoryInv, TypeInv
  <1> QED
    BY <1>1, <1>2, <1>3, QuietStep

-----------------------------------------------------------------------------
LEMMA MemoryStep ==
  ASSUME MemoryAssumption, MemoryInv, [Next]_vars
  PROVE  MemoryInv'
  <1>1. CASE CreateSlot
    BY <1>1, CreateSlotStep
  <1>2. CASE \E q \in Quotas : ConfigureSlot(q)
    BY <1>2, ConfigureSlotStep
  <1>3. CASE \E t \in SpaceStates : ChangeSlotState(t)
    BY <1>3, ChangeSlotStateStep
  <1>4. CASE \E p \in Patches : Intake(p) \/ \E t \in Stages : Advance(p, t)
    BY <1>4, IntakeStep, AdvanceStep
  <1>5. CASE \E p \in Patches, c \in Challenges : Challenge(p, c)
    BY <1>5, ChallengeStep
  <1>6. CASE \E p \in Patches : Commit(p) \/ Activate(p) \/ Revoke(p)
    BY <1>6, CommitStep, ActivateStep, RevokeStep
  <1>7. CASE \E p \in Patches, new \in Patches : Supersede(p, new)
    BY <1>7, SupersedeStep
  <1>8. CASE \E c \in Challenges :
               DecideLate(c) \/ \E d \in {"APPROVED", "REJECTED"} : Decide(c, d)
    BY <1>8, DecideLateStep, DecideStep
  <1>9. CASE \/ Publish \/ PublishBreaks \/ OtherBreaks \/ Acknowledge \/ ReconcileCheckpoint
             \/ \E m \in Manifests : HatChanges(m)
             \/ \E p \in Patches, v \in Evidence \cup {None} : EvidenceChanges(p, v)
             \/ UNCHANGED vars
    BY <1>9, QuietActions
  <1> QED
    BY <1>1, <1>2, <1>3, <1>4, <1>5, <1>6, <1>7, <1>8, <1>9 DEF Next

LEMMA MemoryInvariant == MemoryAssumption => (Spec => []MemoryInv)
  <1> SUFFICES ASSUME MemoryAssumption PROVE Spec => []MemoryInv
    OBVIOUS
  <1>1. Init => MemoryInv
    BY InitHolds
  <1>2. MemoryInv /\ [Next]_vars => MemoryInv'
    BY MemoryStep
  <1> QED
    BY <1>1, <1>2, PTL DEF Spec

-----------------------------------------------------------------------------
\* For any number of candidates, challenges, manifests and configurations: what
\* commit.require_active lets a model use is what the owner approved in answer
\* to the last challenge, under the present configuration, manifest and
\* evidence (commit.py:73-91, approval.py:178-194).
THEOREM OnlyConsentedMemoryIsUsed == MemoryAssumption => (Spec => []UsedIsConsented)
  <1> SUFFICES ASSUME MemoryAssumption PROVE Spec => []UsedIsConsented
    OBVIOUS
  <1>1. MemoryInv => UsedIsConsented
    <2> SUFFICES ASSUME MemoryInv, NEW p \in Patches, Usable(p) PROVE consent[p] = Now(p)
      BY DEF UsedIsConsented
    <2>1. patch[p].ev # None /\ consent[p] = Binding(patch[p])
      BY DEF MemoryInv, RecordInv, Usable, Bound, Granted
    <2>2. patch[p].cfg = space.cfg /\ patch[p].hat = hat /\ patch[p].ev = evidence[p]
      BY <2>1 DEF Usable, Current, Configured
    <2> QED
      BY <2>1, <2>2 DEF Binding, Now
  <1> QED
    BY <1>1, MemoryInvariant, PTL

\* However the slot is reconfigured, enforce_space_quota keeps the usable
\* patches within the quota now in force (lifecycle.py:495-523).
THEOREM MemoryWithinQuota == MemoryAssumption => (Spec => []QuotaHolds)
  <1> SUFFICES ASSUME MemoryAssumption PROVE Spec => []QuotaHolds
    OBVIOUS
  <1>1. MemoryInv => QuotaHolds
    <2> SUFFICES ASSUME MemoryInv PROVE QuotaHolds
      OBVIOUS
    <2> DEFINE U == {p \in Patches : Usable(p)}
    <2>1. U \subseteq InForceNow
      BY DEF Usable, Current, Configured, InForceNow, InForce
    <2>2. IsFiniteSet(InForceNow)
      BY FS_Subset DEF MemoryAssumption, InForceNow, InForce
    <2>3. /\ Cardinality(U) <= Cardinality(InForceNow)
          /\ Cardinality(U) \in Nat /\ Cardinality(InForceNow) \in Nat
      BY <2>1, <2>2, FS_Subset, FS_CardinalityType
    <2>4. Cardinality(InForceNow) <= space.quota /\ space.quota \in Nat
      BY DEF MemoryInv, QuotaInv, TypeInv
    <2> QED
      BY <2>3, <2>4 DEF QuotaHolds
  <1> QED
    BY <1>1, MemoryInvariant, PTL

\* Only a commit, an activation and a replacement take a patch to these states,
\* and each reads the log with its head.
LEMMA ActsUnderTheHead ==
  ASSUME MemoryInv, [Next]_vars, NEW p \in Patches, patch'[p].state # patch[p].state,
         patch'[p].state \in {"COMMITTED", "ACTIVE", "SUPERSEDED"}
  PROVE  headOK
  <1> USE DEF MemoryInv, TypeInv
  <1>1. patch' # patch
    OBVIOUS
  <1>2. ASSUME NEW q \in Patches, NEW t \in PatchStates,
               patch' = [patch EXCEPT ![q] = Become(patch[q], t)]
        PROVE  p = q /\ patch'[p].state = t
    <2>1. Become(patch[q], t).state = t
      BY BecomeType
    <2> QED
      BY <1>2, <2>1
  <1>3. ASSUME NEW t \in SpaceStates, ChangeSlotState(t) PROVE FALSE
    <2>1. patch'[p] = Forgotten(patch[p])
      BY <1>1, <1>3 DEF ChangeSlotState
    <2>2. patch[p] \in PatchType
      OBVIOUS
    <2> QED
      BY <2>1, <2>2, ForgottenRecord
  <1>4. ASSUME NEW q \in Patches, Intake(q) PROVE FALSE
    BY <1>4 DEF Intake
  <1>5. ASSUME NEW q \in Patches, NEW t \in Stages, Advance(q, t) PROVE FALSE
    <2> DEFINE r == Become(patch[q], t)
               e == [r EXCEPT !.ev = IF t = "PROPOSED" THEN r.ev ELSE evidence[q]]
               v == [e EXCEPT !.validated = IF t = "VALIDATED" THEN patch[q].rev + 1
                                            ELSE e.validated]
    <2>1. patch' = [patch EXCEPT ![q] = v]
      BY <1>5, Zenon DEF Advance
    <2>2. r \in PatchType /\ r.state = t
      BY BecomeType DEF Stages, PatchStates, MEMORY_PATCH_TRANSITIONS
    <2> HIDE DEF r
    <2>3. v.state = t
      BY <2>2 DEF PatchType
    <2> HIDE DEF v
    <2> QED
      BY <2>1, <2>3 DEF Stages
  <1>6. ASSUME NEW c \in Challenges, NEW d \in {"APPROVED", "REJECTED"}, Decide(c, d) PROVE FALSE
    <2>1. challenge[c].patch \in Patches
      BY <1>6 DEF Decide, Answers, OpenIsNewest
    <2>2. d \in PatchStates
      BY DEF PatchStates, MEMORY_PATCH_TRANSITIONS
    <2> QED
      BY <1>2, <1>6, <2>1, <2>2 DEF Decide
  <1>7. ASSUME NEW q \in Patches, Revoke(q) PROVE FALSE
    <2>1. "REVOKED" \in PatchStates
      BY DEF PatchStates, MEMORY_PATCH_TRANSITIONS
    <2> QED
      BY <1>2, <1>7, <2>1 DEF Revoke
  <1>8. ASSUME NEW q \in Patches, Commit(q) \/ Activate(q) \/ \E n \in Patches : Supersede(q, n)
        PROVE  headOK
    BY <1>8 DEF Commit, Activate, Supersede, Usable, Committed, Approved, Published
  <1> QED
    <2>1. ~(\/ CreateSlot \/ \E q \in Quotas : ConfigureSlot(q)
            \/ \E q \in Patches, c \in Challenges : Challenge(q, c)
            \/ \E c \in Challenges : DecideLate(c)
            \/ Publish \/ PublishBreaks \/ OtherBreaks \/ Acknowledge \/ ReconcileCheckpoint
            \/ \E m \in Manifests : HatChanges(m)
            \/ \E q \in Patches, v \in Evidence \cup {None} : EvidenceChanges(q, v)
            \/ UNCHANGED vars)
      BY <1>1 DEF CreateSlot, ConfigureSlot, Challenge, DecideLate, Publish, PublishBreaks,
                  OtherBreaks, Acknowledge, ReconcileCheckpoint, HatChanges, EvidenceChanges,
                  vars
    <2> QED
      BY <1>3, <1>4, <1>5, <1>6, <1>7, <1>8, <2>1 DEF Next

\* However the publication breaks and is repaired, a patch is committed, put in
\* force or replaced only while the head covers the whole log and the acts before
\* it (commit.py:32-70, lifecycle.py:587-597, audit.py:365-376).
THEOREM MemoryRecordPrecedesAct == MemoryAssumption => (Spec => RecordPrecedesAct)
  <1> SUFFICES ASSUME MemoryAssumption PROVE Spec => RecordPrecedesAct
    OBVIOUS
  <1>1. MemoryInv /\ MemoryInv' /\ [Next]_vars =>
        [\A p \in Patches :
            /\ patch'[p].state # patch[p].state
            /\ patch'[p].state \in {"COMMITTED", "ACTIVE", "SUPERSEDED"}
            => headOK /\ OnRecord(p)']_vars
    <2> SUFFICES ASSUME MemoryInv, MemoryInv', [Next]_vars, NEW p \in Patches,
                        patch'[p].state # patch[p].state,
                        patch'[p].state \in {"COMMITTED", "ACTIVE", "SUPERSEDED"}
                 PROVE  headOK
      BY Zenon DEF MemoryInv, RecordKept
    <2> QED
      BY ActsUnderTheHead
  <1> QED
    BY <1>1, MemoryInvariant, PTL DEF Spec, RecordPrecedesAct

\* A slot whose deletion was requested holds no undeleted patch and none in
\* force, whichever calls were under way (management.py:226-252).
THEOREM MemoryDeletionIsComplete == MemoryAssumption => (Spec => []DeletionIsComplete)
  <1> SUFFICES ASSUME MemoryAssumption PROVE Spec => []DeletionIsComplete
    OBVIOUS
  <1>1. MemoryInv => DeletionIsComplete
    BY DEF MemoryInv
  <1> QED
    BY <1>1, MemoryInvariant, PTL
-----------------------------------------------------------------------------
(* CloudOps *)

\* The states of a run that has its approval.
Acted == {"APPROVED", "EXECUTING", "VERIFYING", "SUCCESS_WITH_EVIDENCE"}

\* A checkpoint with the operator's approval.
HasApproval(c) == c # Nothing /\ c.approval # Nothing /\ c.approval.decision = "APPROVED"

\* What the state w and the checkpoint c of a run say of each other, of the
\* inventory and of the log.
RunIs(r, w, c) ==
    /\ w = Nothing => r \notin changed
    /\ w = "AWAITING_APPROVAL" => c # Nothing
    /\ w \in Acted \/ r \in changed => HasApproval(c)
    /\ c # Nothing /\ c.approval # Nothing => <<r, c.approval.request, c.approval.decision>> \in said
    /\ r \in changed => <<r, "resume">> \in provenance
    /\ r \in changed /\ w = "RECOVERY_REQUIRED" => r \in expired
    /\ w \in Acted \ {"APPROVED"} => c.intent
    /\ w \in {"VERIFYING", "SUCCESS_WITH_EVIDENCE"} => c.receipt
    /\ w = "SUCCESS_WITH_EVIDENCE" => c.verified
    /\ c # Nothing /\ c.receipt => r \in changed
    /\ c # Nothing /\ c.verified => r \in changed /\ resource[target[r]] = "clean"

RunOK(r) == RunIs(r, run[r], cp[r])

\* What step s of the operation in progress relies on.
Ready(s, w, c) ==
    /\ op.kind = "start" => op.run \notin changed /\ w \notin Acted
    /\ s \in {"evidence", "plan", "planned", "await"} => w # Nothing
    /\ s \in {"plan", "planned", "await"} => c # Nothing
    /\ s \in {"apply", "safe"} => op.kind # "start" /\ c # Nothing /\ c.approval # Nothing
    /\ s \in {"expiry", "go", "receipt"} => op.kind = "resume" /\ HasApproval(c)
    /\ s = "receipt" => w = "EXECUTING" /\ op.run \in changed
    /\ s = "close" => w = "SUCCESS_WITH_EVIDENCE"

OpOK ==
    op # Nothing =>
    /\ op.step # "request" => <<op.run, op.kind>> \in provenance
    /\ op.kind = "decide" => op.sent # Nothing /\ <<op.run, op.sent.request, op.sent.decision>> \in said
    /\ Ready(op.step, run[op.run], cp[op.run])

CloudInv == TypeOK /\ OpOK /\ \A r \in Runs : RunOK(r)

-----------------------------------------------------------------------------
(* What a step leaves of the invariant *)

LEMMA FaultsStay ==
    ASSUME TypeOK, Fault \/ UNCHANGED faults
    PROVE  faults' \in 0..MaxFaults
BY CloudOpsAssumption DEF TypeOK, Fault

LEMMA RunKept ==
    ASSUME NEW r \in Runs, RunOK(r), run'[r] = run[r], cp'[r] = cp[r],
           r \in changed' <=> r \in changed, UNCHANGED target,
           said \subseteq said', provenance \subseteq provenance', expired \subseteq expired',
           resource[target[r]] = "clean" => resource'[target[r]] = "clean"
    PROVE  RunOK(r)'
BY DEF RunOK, RunIs, HasApproval

\* The operation in progress writes its run's state w and checkpoint c.
LEMMA WriteStep ==
    ASSUME CloudInv, op # Nothing, op.step # "request",
           NEW w \in WorkflowStates \cup {Nothing}, NEW c \in Checkpoints \cup {Nothing}, NEW s \in Steps,
           run' = [run EXCEPT ![op.run] = w], cp' = [cp EXCEPT ![op.run] = c], At(s),
           Fault \/ UNCHANGED faults,
           UNCHANGED <<target, resource, changed, traceOK, provenance, said, expired>>,
           RunIs(op.run, w, c), Ready(s, w, c)
    PROVE  CloudInv'
<1>1. op \in Operations /\ op.run \in Runs
    BY DEF CloudInv, TypeOK, Operations
<1>2. op' \in Operations /\ op' # Nothing /\ op'.run = op.run /\ op'.kind = op.kind
      /\ op'.sent = op.sent /\ op'.step = s
    BY <1>1, CloudOpsAssumption DEF At, Operations
<1>3. run'[op.run] = w /\ cp'[op.run] = c
    BY <1>1 DEF CloudInv, TypeOK
<1>4. TypeOK'
    BY <1>2, FaultsStay DEF CloudInv, TypeOK
<1>5. OpOK'
    BY <1>2, <1>3 DEF CloudInv, OpOK, Ready
<1>6. ASSUME NEW r \in Runs PROVE RunOK(r)'
    <2>1. CASE r = op.run
        BY <1>3, <2>1 DEF RunOK, RunIs
    <2>2. CASE r # op.run
        <3>1. run'[r] = run[r] /\ cp'[r] = cp[r]
            BY <1>1, <2>2 DEF CloudInv, TypeOK
        <3>. QED
            BY <3>1, RunKept DEF CloudInv
    <2>. QED
        BY <2>1, <2>2
<1>. QED
    BY <1>4, <1>5, <1>6 DEF CloudInv

\* A replacement of the records: done, failed, or done and reported failed.
LEMMA DurableStep ==
    ASSUME CloudInv, op # Nothing, op.step # "request",
           NEW w \in WorkflowStates \cup {Nothing}, NEW c \in Checkpoints \cup {Nothing},
           NEW next \in Steps, NEW failed \in Steps,
           Durable([run EXCEPT ![op.run] = w], [cp EXCEPT ![op.run] = c], next, failed),
           UNCHANGED <<target, resource, changed, traceOK, provenance, said, expired>>,
           RunIs(op.run, w, c), Ready(next, w, c),
           Ready(failed, run[op.run], cp[op.run])
    PROVE  CloudInv'
<1>1. op.run \in Runs /\ run[op.run] \in WorkflowStates \cup {Nothing}
      /\ cp[op.run] \in Checkpoints \cup {Nothing}
    BY DEF CloudInv, TypeOK, Operations
<1>2. run = [run EXCEPT ![op.run] = run[op.run]] /\ cp = [cp EXCEPT ![op.run] = cp[op.run]]
    BY DEF CloudInv, TypeOK
<1>3. RunIs(op.run, run[op.run], cp[op.run])
    BY <1>1 DEF CloudInv, RunOK
<1>4. Ready("result", w, c) /\ "result" \in Steps
    BY DEF Ready, Steps
<1>5. CASE run' = [run EXCEPT ![op.run] = w] /\ cp' = [cp EXCEPT ![op.run] = c]
           /\ At(next) /\ UNCHANGED faults
    BY <1>5, WriteStep
<1>6. CASE Fault /\ At(failed) /\ UNCHANGED <<run, cp>>
    <2>1. run' = [run EXCEPT ![op.run] = run[op.run]] /\ cp' = [cp EXCEPT ![op.run] = cp[op.run]]
        BY <1>2, <1>6
    <2>. QED
        BY <1>1, <1>3, <1>6, <2>1, WriteStep
<1>7. CASE Fault /\ At("result") /\ run' = [run EXCEPT ![op.run] = w]
           /\ cp' = [cp EXCEPT ![op.run] = c]
    BY <1>4, <1>7, WriteStep
<1>. QED
    BY <1>5, <1>6, <1>7 DEF Durable

LEMMA MoveStep ==
    ASSUME CloudInv, op # Nothing, op.step # "request", NEW w \in WorkflowStates,
           NEW next \in Steps, NEW failed \in Steps, Move(w, next, failed),
           UNCHANGED <<target, resource, changed, traceOK, provenance, said, expired>>,
           RunIs(op.run, w, cp[op.run]), Ready(next, w, cp[op.run]),
           Ready(failed, run[op.run], cp[op.run])
    PROVE  CloudInv'
<1>1. cp = [cp EXCEPT ![op.run] = cp[op.run]] /\ cp[op.run] \in Checkpoints \cup {Nothing}
    BY DEF CloudInv, TypeOK, Operations
<1>2. Durable([run EXCEPT ![op.run] = w], [cp EXCEPT ![op.run] = cp[op.run]], next, failed)
    BY <1>1 DEF Move
<1>. QED
    BY <1>1, <1>2, DurableStep

LEMMA SaveStep ==
    ASSUME CloudInv, op # Nothing, op.step # "request", NEW c \in Checkpoints,
           NEW next \in Steps, NEW failed \in Steps, Save(c, next, failed),
           UNCHANGED <<target, resource, changed, traceOK, provenance, said, expired>>,
           RunIs(op.run, run[op.run], c), Ready(next, run[op.run], c),
           Ready(failed, run[op.run], cp[op.run])
    PROVE  CloudInv'
<1>1. run = [run EXCEPT ![op.run] = run[op.run]] /\ run[op.run] \in WorkflowStates \cup {Nothing}
    BY DEF CloudInv, TypeOK, Operations
<1>2. Durable([run EXCEPT ![op.run] = run[op.run]], [cp EXCEPT ![op.run] = c], next, failed)
    BY <1>1 DEF Save
<1>. QED
    BY <1>1, <1>2, DurableStep

\* A step that writes nothing.
LEMMA GoStep ==
    ASSUME CloudInv, op # Nothing, op.step # "request", NEW s \in Steps, At(s),
           UNCHANGED <<run, cp>>, Fault \/ UNCHANGED faults,
           UNCHANGED <<target, resource, changed, traceOK, provenance, said, expired>>,
           Ready(s, run[op.run], cp[op.run])
    PROVE  CloudInv'
<1>1. op.run \in Runs /\ run[op.run] \in WorkflowStates \cup {Nothing}
      /\ cp[op.run] \in Checkpoints \cup {Nothing}
    BY DEF CloudInv, TypeOK, Operations
<1>2. run' = [run EXCEPT ![op.run] = run[op.run]] /\ cp' = [cp EXCEPT ![op.run] = cp[op.run]]
    BY DEF CloudInv, TypeOK
<1>. QED
    BY <1>1, <1>2, WriteStep DEF CloudInv, RunOK

-----------------------------------------------------------------------------
(* The operations, step by step *)

LEMMA OpFacts ==
    ASSUME CloudInv, op # Nothing
    PROVE  /\ op \in Operations /\ op.run \in Runs /\ op.step \in Steps
           /\ run[op.run] \in WorkflowStates \cup {Nothing}
           /\ cp[op.run] \in Checkpoints \cup {Nothing}
           /\ resource[target[op.run]] \in ResourceStates
           /\ RunIs(op.run, run[op.run], cp[op.run]) /\ Ready(op.step, run[op.run], cp[op.run])
BY DEF CloudInv, TypeOK, OpOK, RunOK, Operations

\* A state that promises nothing can be given to a run without a receipt.
LEMMA PlainState ==
    ASSUME NEW r, NEW w, NEW c, RunIs(r, w, c), r \notin changed,
           NEW v \in WorkflowStates, v \notin Acted, v = "AWAITING_APPROVAL" => c # Nothing
    PROVE  RunIs(r, v, c)
BY DEF RunIs, Acted, HasApproval

LEMMA PlainStates ==
    /\ {"RECEIVED", "INVESTIGATING", "EVIDENCE_READY", "DEPENDENCY_UNAVAILABLE",
        "MODEL_OUTPUT_INVALID", "DENIED_BY_POLICY", "BUDGET_EXHAUSTED", "REMEDIATION_PROPOSED",
        "RECOMMENDATION_ONLY", "NO_ACTION_REQUIRED", "AWAITING_APPROVAL"}
         \subseteq WorkflowStates \ (Acted \cup {Nothing})
    /\ \A seen : Planned(seen) \in WorkflowStates \ (Acted \cup {Nothing, "AWAITING_APPROVAL"})
BY CloudOpsAssumption DEF WorkflowStates, Final, Acted, Planned

LEMMA InvestigateStep ==
    ASSUME CloudInv, Investigate
    PROVE  CloudInv'
<1> DEFINE r == op.run
<1>1. /\ op # Nothing /\ op.kind = "start" /\ op.step # "request"
      /\ UNCHANGED <<target, resource, changed, traceOK, provenance, said, expired>>
    BY DEF Investigate, Doing, Rest
<1>2. /\ RunIs(r, run[r], cp[r]) /\ Ready(op.step, run[r], cp[r]) /\ r \notin changed
      /\ run[r] \notin Acted
    BY <1>1, OpFacts DEF Ready
<1>3. {"received", "query", "evidence", "plan", "abort", "result"} \subseteq Steps
    BY DEF Steps
<1>4. ASSUME NEW w \in {"RECEIVED", "INVESTIGATING", "EVIDENCE_READY", "DEPENDENCY_UNAVAILABLE"}
      PROVE  /\ w \in WorkflowStates /\ RunIs(r, w, cp[r])
             /\ \A s \in {"received", "query", "evidence", "abort", "result"} : Ready(s, w, cp[r])
    <2>1. w \in WorkflowStates /\ w \notin Acted /\ w # Nothing /\ w # "AWAITING_APPROVAL"
        BY PlainStates
    <2>2. RunIs(r, w, cp[r])
        BY <1>2, <2>1, PlainState
    <2>. QED
        BY <1>1, <1>2, <2>1, <2>2 DEF Ready
<1>5. Ready("result", run[r], cp[r]) /\ Ready("abort", run[r], cp[r])
    BY <1>2 DEF Ready
<1>6. CASE Doing("start", "run") /\ Move("RECEIVED", "received", "result")
    BY <1>1, <1>3, <1>4, <1>5, <1>6, MoveStep
<1>7. CASE Doing("start", "received") /\ Move("INVESTIGATING", "query", "result")
    BY <1>1, <1>3, <1>4, <1>5, <1>7, MoveStep
<1>8. CASE Doing("start", "query") /\ Move("EVIDENCE_READY", "evidence", "abort")
    BY <1>1, <1>3, <1>4, <1>5, <1>8, MoveStep
<1>9. CASE Doing("start", "abort") /\ Move("DEPENDENCY_UNAVAILABLE", "result", "result")
    BY <1>1, <1>3, <1>4, <1>5, <1>9, MoveStep
<1>10. CASE /\ Doing("start", "evidence")
            /\ Save(EmptyCheckpoint(resource[target[op.run]]), "plan", "abort")
    <2> DEFINE c == EmptyCheckpoint(resource[target[op.run]])
    <2>1. /\ c \in Checkpoints /\ c # Nothing /\ c.approval = Nothing /\ ~c.receipt /\ ~c.verified
        <3>1. resource[target[op.run]] \in ResourceStates /\ "EVIDENCE_READY" \in WorkflowStates
            BY <1>1, OpFacts, PlainStates
        <3>2. c \in Checkpoints /\ c.approval = Nothing /\ ~c.receipt /\ ~c.verified
            BY <3>1, CloudOpsAssumption DEF EmptyCheckpoint, Checkpoints
        <3>. QED
            BY <3>2, CloudOpsAssumption
    <2>2. run[r] # Nothing
        BY <1>2, <1>10 DEF Doing, Ready
    <2> HIDE DEF c
    <2>3. RunIs(r, run[r], c)
        BY <1>2, <2>1, <2>2 DEF RunIs, Acted
    <2>4. Ready("plan", run[r], c)
        BY <1>2, <2>1, <2>2 DEF Ready
    <2>5. Save(c, "plan", "abort")
        BY <1>10 DEF c
    <2>. QED
        BY <1>1, <1>3, <1>5, <2>1, <2>3, <2>4, <2>5, SaveStep
<1>. QED
    BY <1>6, <1>7, <1>8, <1>9, <1>10 DEF Investigate

LEMMA PlanStep ==
    ASSUME CloudInv, Plan
    PROVE  CloudInv'
<1> DEFINE r == op.run
<1>1. /\ op # Nothing /\ op.kind = "start" /\ op.step = "plan"
      /\ UNCHANGED <<target, resource, changed, traceOK, provenance, said, expired>>
    BY DEF Plan, Doing, Rest
<1>2. /\ RunIs(r, run[r], cp[r]) /\ Ready("plan", run[r], cp[r]) /\ r \notin changed
      /\ cp[r] # Nothing
    BY <1>1, OpFacts DEF Ready
<1>3. {"planned", "abort", "result"} \subseteq Steps
    BY DEF Steps
<1>4. Ready("result", run[r], cp[r]) /\ Ready("abort", run[r], cp[r])
    BY <1>2 DEF Ready
<1>5. ASSUME NEW w, NEW next \in {"planned", "result"}, Move(w, next, "result"),
             w \in WorkflowStates \ (Acted \cup {Nothing})
      PROVE  CloudInv'
    <2>1. RunIs(r, w, cp[r])
        BY <1>2, <1>5, PlainState
    <2>2. Ready(next, w, cp[r])
        BY <1>2, <1>5 DEF Ready
    <2>. QED
        BY <1>1, <1>3, <1>4, <1>5, <2>1, <2>2, MoveStep
<1>6. CASE Fault /\ At("abort") /\ UNCHANGED <<run, cp>>
    BY <1>1, <1>3, <1>4, <1>6, GoStep
<1>. QED
    BY <1>5, <1>6, PlainStates DEF Plan

LEMMA ProposeStep ==
    ASSUME CloudInv, Propose
    PROVE  CloudInv'
<1> DEFINE r == op.run
<1>1. /\ op # Nothing /\ op.kind = "start" /\ op.step \in {"planned", "await"}
      /\ UNCHANGED <<target, resource, changed, traceOK, provenance, said, expired>>
    BY DEF Propose, Doing, Rest
<1>2. /\ RunIs(r, run[r], cp[r]) /\ Ready(op.step, run[r], cp[r]) /\ r \notin changed
      /\ cp[r] # Nothing /\ cp[r] \in Checkpoints /\ run[r] \in WorkflowStates /\ run[r] \notin Acted
    BY <1>1, OpFacts DEF Ready
<1>3. {"await", "answer", "result"} \subseteq Steps
    BY DEF Steps
<1>4. Ready("result", run[r], cp[r])
    BY <1>2 DEF Ready
<1>5. CASE Doing("start", "await") /\ Move("AWAITING_APPROVAL", "answer", "result")
    <2>1. "AWAITING_APPROVAL" \in WorkflowStates \ (Acted \cup {Nothing})
        BY PlainStates
    <2>2. RunIs(r, "AWAITING_APPROVAL", cp[r])
        BY <1>2, <2>1, PlainState
    <2>3. Ready("answer", "AWAITING_APPROVAL", cp[r])
        BY <1>2, <2>1 DEF Ready
    <2>. QED
        BY <1>1, <1>3, <1>4, <1>5, <2>1, <2>2, <2>3, MoveStep
<1>6. CASE Doing("start", "planned")
    <2> DEFINE proposed == run[r] = "REMEDIATION_PROPOSED"
               safe == IF proposed THEN "AWAITING_APPROVAL" ELSE run[r]
               c == [cp[r] EXCEPT !.safe = safe, !.proposal = run[r] # "NO_ACTION_REQUIRED"]
               next == IF proposed THEN "await" ELSE "answer"
    <2>1. Save(c, next, "result")
        BY <1>6 DEF Propose, Doing
    <2>2. safe \in WorkflowStates
        BY <1>2, PlainStates
    <2>3. /\ c \in Checkpoints /\ c.approval = cp[r].approval /\ c.intent = cp[r].intent
          /\ c.receipt = cp[r].receipt /\ c.verified = cp[r].verified
        BY <1>2, <2>2 DEF Checkpoints
    <2>4. c # Nothing
        BY <2>3, CloudOpsAssumption
    <2>5. next \in {"await", "answer"}
        OBVIOUS
    <2> HIDE DEF c, next
    <2>6. RunIs(r, run[r], c)
        BY <1>2, <2>3, <2>4 DEF RunIs, HasApproval
    <2>7. Ready(next, run[r], c)
        BY <1>1, <1>2, <2>4, <2>5 DEF Ready
    <2>. QED
        BY <1>1, <1>3, <1>4, <2>1, <2>3, <2>5, <2>6, <2>7, SaveStep
<1>. QED
    BY <1>5, <1>6 DEF Propose

\* A decision on record: what the checkpoint of a run says of it.
LEMMA OutcomeIs ==
    ASSUME NEW r \in Runs, cp[r] \in Checkpoints, cp[r].approval # Nothing
    PROVE  /\ cp[r].approval \in Approvals /\ Outcome(r) \in WorkflowStates
           /\ Outcome(r) \in {"APPROVED", "DENIED_BY_HUMAN"}
           /\ Outcome(r) = "APPROVED" <=> cp[r].approval.decision = "APPROVED"
<1>1. cp[r].approval \in Approvals
    BY DEF Checkpoints
<1>. QED
    BY <1>1 DEF Outcome, WorkflowStates, Final

LEMMA CloudChallengeStep ==
    ASSUME CloudInv, IssueChallenge
    PROVE  CloudInv'
<1> DEFINE r == op.run
<1>1. /\ op # Nothing /\ op.kind = "request" /\ op.step = "run"
      /\ UNCHANGED <<target, resource, changed, traceOK, provenance, said, expired>>
    BY DEF IssueChallenge, Doing
<1>2. /\ RunIs(r, run[r], cp[r]) /\ cp[r] \in Checkpoints \cup {Nothing}
    BY <1>1, OpFacts
<1>3. {"answer", "result"} \subseteq Steps /\ Ready("result", run[r], cp[r])
    BY <1>1 DEF Steps, Ready
<1>4. CASE Go("result")
    BY <1>1, <1>3, <1>4, GoStep DEF Go
<1>5. CASE Challengeable(r) /\ ~Go("result")
    <2> DEFINE c == [cp[r] EXCEPT !.request = @ + 1, !.approval = Nothing]
    <2>1. Save(c, "answer", "result")
        BY <1>5 DEF IssueChallenge
    <2>2. run[r] = "AWAITING_APPROVAL" /\ cp[r] \in Checkpoints /\ cp[r].approval = Nothing
        BY <1>2, <1>5 DEF Challengeable, RunIs
    <2>3. /\ c \in Checkpoints /\ c.approval = Nothing
          /\ c.receipt = cp[r].receipt /\ c.verified = cp[r].verified
        <3> DEFINE d == [cp[r] EXCEPT !.request = cp[r].request + 1]
        <3>1. cp[r].request + 1 \in Nat
            BY <2>2 DEF Checkpoints
        <3>2. /\ d \in Checkpoints
              /\ d.receipt = cp[r].receipt /\ d.verified = cp[r].verified
            BY <2>2, <3>1 DEF Checkpoints
        <3>3. c = [d EXCEPT !.approval = Nothing]
            BY <2>2 DEF Checkpoints
        <3> HIDE DEF d
        <3>. QED
            BY <3>2, <3>3 DEF Checkpoints
    <2>4. c # Nothing /\ cp[r] # Nothing
        BY <2>2, <2>3, CloudOpsAssumption
    <2> HIDE DEF c
    <2>5. r \notin changed
        BY <1>2, <2>2 DEF RunIs, HasApproval
    <2>6. RunIs(r, run[r], c)
        BY <1>2, <2>2, <2>3, <2>4, <2>5 DEF RunIs, Acted
    <2>7. Ready("answer", run[r], c)
        BY <1>1 DEF Ready
    <2>. QED
        BY <1>1, <1>3, <2>1, <2>3, <2>6, <2>7, SaveStep
<1>. QED
    BY <1>4, <1>5 DEF IssueChallenge

LEMMA RecordDecisionStep ==
    ASSUME CloudInv, RecordDecision
    PROVE  CloudInv'
<1> DEFINE r == op.run
<1>1. /\ op # Nothing /\ op.kind = "decide" /\ op.step = "run"
      /\ UNCHANGED <<target, resource, changed, traceOK, provenance, said, expired>>
    BY DEF RecordDecision, Doing, Rest
<1>2. /\ RunIs(r, run[r], cp[r]) /\ cp[r] \in Checkpoints \cup {Nothing}
      /\ op.sent \in Approvals /\ <<r, op.sent.request, op.sent.decision>> \in said
    BY <1>1, OpFacts DEF CloudInv, OpOK, Operations
<1>3. {"apply", "result"} \subseteq Steps /\ Ready("result", run[r], cp[r])
    BY <1>1 DEF Steps, Ready
<1>4. CASE Go("result")
    BY <1>1, <1>3, <1>4, GoStep DEF Go
<1>5. CASE Go("apply") /\ cp[r] # Nothing /\ cp[r].approval # Nothing
    <2>1. Ready("apply", run[r], cp[r])
        BY <1>1, <1>5 DEF Ready
    <2>. QED
        BY <1>1, <1>3, <1>5, <2>1, GoStep DEF Go
<1>6. CASE /\ cp[r] # Nothing /\ cp[r].approval = Nothing /\ Matches(r)
           /\ Save([cp[r] EXCEPT !.approval = [request |-> cp[r].request,
                                               decision |-> op.sent.decision]], "apply", "result")
    <2> DEFINE a == [request |-> cp[r].request, decision |-> op.sent.decision]
               c == [cp[r] EXCEPT !.approval = a]
    <2>1. cp[r] \in Checkpoints /\ cp[r].request = op.sent.request
        BY <1>2, <1>6 DEF Matches
    <2>2. /\ a \in Approvals /\ <<r, a.request, a.decision>> \in said
        BY <1>2, <2>1 DEF Approvals, Checkpoints
    <2> HIDE DEF a
    <2>3. /\ c \in Checkpoints /\ c.approval = a /\ c.intent = cp[r].intent
          /\ c.receipt = cp[r].receipt /\ c.verified = cp[r].verified
        BY <2>1, <2>2 DEF Checkpoints
    <2>4. c # Nothing /\ a # Nothing
        BY <2>2, <2>3, CloudOpsAssumption
    <2>5. Save(c, "apply", "result")
        BY <1>6 DEF a
    <2> HIDE DEF c
    <2>6. r \notin changed /\ run[r] \notin Acted
        BY <1>2, <1>6 DEF RunIs, HasApproval
    <2>7. RunIs(r, run[r], c)
        BY <1>2, <1>6, <2>2, <2>3, <2>4, <2>6 DEF RunIs, Acted
    <2>8. Ready("apply", run[r], c)
        BY <1>1, <2>3, <2>4 DEF Ready
    <2>. QED
        BY <1>1, <1>3, <2>3, <2>5, <2>7, <2>8, SaveStep
<1>. QED
    BY <1>4, <1>5, <1>6 DEF RecordDecision

LEMMA ApplyDecisionStep ==
    ASSUME CloudInv, ApplyDecision
    PROVE  CloudInv'
<1> DEFINE r == op.run
           next == IF op.kind = "resume" /\ Outcome(r) = "APPROVED" THEN "expiry" ELSE "answer"
<1>1. /\ op # Nothing /\ op.step \in {"apply", "safe"}
      /\ UNCHANGED <<target, resource, changed, traceOK, provenance, said, expired>>
    BY DEF ApplyDecision, Rest
<1>2. /\ RunIs(r, run[r], cp[r]) /\ cp[r] \in Checkpoints /\ cp[r].approval # Nothing /\ r \in Runs
      /\ Ready(op.step, run[r], cp[r]) /\ cp[r] # Nothing
    BY <1>1, OpFacts DEF Ready
<1>3. /\ {"safe", "answer", "expiry", "result"} \subseteq Steps
      /\ Ready("result", run[r], cp[r]) /\ Ready("safe", run[r], cp[r])
    BY <1>1, <1>2 DEF Steps, Ready
<1>4. /\ Outcome(r) \in WorkflowStates /\ Outcome(r) \in {"APPROVED", "DENIED_BY_HUMAN"}
      /\ Outcome(r) = "APPROVED" <=> HasApproval(cp[r])
    BY <1>2, OutcomeIs DEF HasApproval
<1>5. next \in {"expiry", "answer"} /\ Ready(next, run[r], cp[r])
    <2>1. next \in {"expiry", "answer"} /\ (next = "expiry" => op.kind = "resume" /\ HasApproval(cp[r]))
        BY <1>4
    <2> HIDE DEF next
    <2>. QED
        BY <1>2, <2>1 DEF Ready
<1>6. CASE Go("safe")
    BY <1>1, <1>3, <1>6, GoStep DEF Go
<1>7. CASE Go(next)
    BY <1>1, <1>3, <1>5, <1>7, GoStep DEF Go
<1>8. CASE run[r] = "AWAITING_APPROVAL" /\ op.step = "apply" /\ Move(Outcome(r), "safe", "result")
    <2>1. RunIs(r, Outcome(r), cp[r])
        BY <1>2, <1>4, CloudOpsAssumption DEF RunIs, Acted, WorkflowStates
    <2>2. Ready("safe", Outcome(r), cp[r])
        <3>1. op.kind # "start"
            BY <1>2, <1>8 DEF Ready
        <3>. QED
            BY <1>2, <3>1 DEF Ready
    <2>. QED
        BY <1>1, <1>3, <1>4, <1>8, <2>1, <2>2, MoveStep
<1>9. CASE Save([cp[r] EXCEPT !.safe = Outcome(r)], next, "result")
    <2> DEFINE c == [cp[r] EXCEPT !.safe = Outcome(r)]
    <2>1. /\ c \in Checkpoints /\ c.approval = cp[r].approval /\ c.intent = cp[r].intent
          /\ c.receipt = cp[r].receipt /\ c.verified = cp[r].verified
        BY <1>2, <1>4 DEF Checkpoints
    <2>2. c # Nothing
        BY <2>1, CloudOpsAssumption
    <2> HIDE DEF c, next
    <2>3. RunIs(r, run[r], c)
        BY <1>2, <2>1, <2>2 DEF RunIs, HasApproval
    <2>4. Ready(next, run[r], c)
        BY <1>2, <1>5, <2>1, <2>2 DEF Ready, HasApproval
    <2>5. Save(c, next, "result")
        BY <1>9 DEF c
    <2>. QED
        BY <1>1, <1>3, <1>5, <2>1, <2>3, <2>4, <2>5, SaveStep
<1>. QED
    BY <1>1, <1>6, <1>7, <1>8, <1>9 DEF ApplyDecision

LEMMA EnterResumeStep ==
    ASSUME CloudInv, EnterResume
    PROVE  CloudInv'
<1> DEFINE r == op.run
<1>1. /\ op # Nothing /\ op.kind = "resume" /\ op.step = "run"
      /\ UNCHANGED <<target, resource, changed, traceOK, provenance, said, expired>>
    BY DEF EnterResume, Doing, Rest
<1>2. cp[r] \in Checkpoints \cup {Nothing} /\ r \in Runs
    BY <1>1, OpFacts
<1>3. {"apply", "close", "expiry", "result"} \subseteq Steps /\ Ready("result", run[r], cp[r])
    BY <1>1 DEF Steps, Ready
<1>4. CASE Go("result")
    BY <1>1, <1>3, <1>4, GoStep DEF Go
<1>5. CASE Resumable(r) /\ cp[r].approval # Nothing
    <2>1. cp[r] \in Checkpoints /\ cp[r] # Nothing
        BY <1>2, <1>5 DEF Resumable
    <2>2. /\ Outcome(r) \in {"APPROVED", "DENIED_BY_HUMAN"}
          /\ Outcome(r) = "APPROVED" <=> HasApproval(cp[r])
        BY <1>2, <1>5, <2>1, OutcomeIs DEF HasApproval
    <2>3. CASE Go("apply")
        <3>1. Ready("apply", run[r], cp[r])
            BY <1>1, <1>5, <2>1 DEF Ready
        <3>. QED
            BY <1>1, <1>3, <2>3, <3>1, GoStep DEF Go
    <2>4. CASE Outcome(r) # "DENIED_BY_HUMAN" /\ Go("expiry")
        <3>1. Ready("expiry", run[r], cp[r])
            BY <1>1, <2>2, <2>4 DEF Ready
        <3>. QED
            BY <1>1, <1>3, <2>4, <3>1, GoStep DEF Go
    <2>5. CASE run[r] = "SUCCESS_WITH_EVIDENCE" /\ Go("close")
        <3>1. Ready("close", run[r], cp[r])
            BY <1>1, <2>5 DEF Ready
        <3>. QED
            BY <1>1, <1>3, <2>5, <3>1, GoStep DEF Go
    <2>. QED
        BY <1>4, <1>5, <2>3, <2>4, <2>5 DEF EnterResume
<1>. QED
    BY <1>4, <1>5 DEF EnterResume

\* A step of a resume that ends the run without success.
LEMMA EndStep ==
    ASSUME CloudInv, op # Nothing, op.kind = "resume", op.step # "request",
           NEW w \in Final, w # "SUCCESS_WITH_EVIDENCE",
           w = "RECOVERY_REQUIRED" => op.run \notin changed \/ op.run \in expired,
           Move(w, "result", "result"), 
           UNCHANGED <<target, resource, changed, traceOK, provenance, said, expired>>
    PROVE  CloudInv'
<1>1. RunIs(op.run, run[op.run], cp[op.run])
    BY OpFacts
<1>2. w \in WorkflowStates /\ w \notin Acted /\ w # Nothing /\ w # "AWAITING_APPROVAL"
    BY CloudOpsAssumption DEF WorkflowStates, Final, Acted
<1>3. RunIs(op.run, w, cp[op.run])
    BY <1>1, <1>2 DEF RunIs, Acted
<1>4. "result" \in Steps /\ \A v : Ready("result", v, cp[op.run])
    BY DEF Steps, Ready
<1>. QED
    BY <1>2, <1>3, <1>4, MoveStep

LEMMA CheckExpiryStep ==
    ASSUME CloudInv, CheckExpiry
    PROVE  CloudInv'
<1>1. /\ op # Nothing /\ op.kind = "resume" /\ op.step = "expiry"
      /\ UNCHANGED <<target, resource, changed, traceOK, provenance, said, expired>>
    BY DEF CheckExpiry, Doing, Rest
<1>2. /\ {"go", "result"} \subseteq Steps /\ Ready("result", run[op.run], cp[op.run])
      /\ Ready("go", run[op.run], cp[op.run])
    BY <1>1, OpFacts DEF Steps, Ready
<1>3. CASE Go("go") \/ Go("result")
    BY <1>1, <1>2, <1>3, GoStep DEF Go
<1>4. CASE op.run \in expired /\ Move("RECOVERY_REQUIRED", "result", "result")
    <2>1. "RECOVERY_REQUIRED" \in Final
        BY DEF Final
    <2>. QED
        BY <1>1, <1>4, <2>1, EndStep
<1>. QED
    BY <1>3, <1>4 DEF CheckExpiry

LEMMA RegisterIntentStep ==
    ASSUME CloudInv, RegisterIntent
    PROVE  CloudInv'
<1> DEFINE r == op.run
<1>1. /\ op # Nothing /\ op.kind = "resume" /\ op.step = "go" /\ run[r] = "APPROVED"
      /\ UNCHANGED <<target, resource, changed, traceOK, provenance, said, expired>>
    BY DEF RegisterIntent, Doing, Rest
<1>2. /\ RunIs(r, run[r], cp[r]) /\ cp[r] \in Checkpoints /\ cp[r] # Nothing
      /\ HasApproval(cp[r]) /\ Ready("go", run[r], cp[r])
    BY <1>1, OpFacts DEF Ready, HasApproval
<1>3. {"go", "result"} \subseteq Steps /\ Ready("result", run[r], cp[r])
    BY <1>1 DEF Steps, Ready
<1>4. CASE cp[r].intent /\ Move("EXECUTING", "go", "result")
    <2>1. "EXECUTING" \in WorkflowStates /\ RunIs(r, "EXECUTING", cp[r])
        BY <1>1, <1>2, <1>4, CloudOpsAssumption DEF RunIs, Acted,
           WorkflowStates
    <2>2. Ready("go", "EXECUTING", cp[r])
        BY <1>1, <1>2 DEF Ready
    <2>. QED
        BY <1>1, <1>3, <1>4, <2>1, <2>2, MoveStep
<1>5. CASE Go("result")
    BY <1>1, <1>3, <1>5, GoStep DEF Go
<1>6. CASE Save([cp[r] EXCEPT !.intent = TRUE], "go", "result")
    <2> DEFINE c == [cp[r] EXCEPT !.intent = TRUE]
    <2>1. /\ c \in Checkpoints /\ c.approval = cp[r].approval /\ c.intent
          /\ c.receipt = cp[r].receipt /\ c.verified = cp[r].verified
        BY <1>2 DEF Checkpoints
    <2>2. c # Nothing
        BY <2>1, CloudOpsAssumption
    <2> HIDE DEF c
    <2>3. RunIs(r, run[r], c)
        BY <1>1, <1>2, <2>1, <2>2 DEF RunIs, HasApproval
    <2>4. Ready("go", run[r], c)
        BY <1>1, <1>2, <2>1, <2>2 DEF Ready, HasApproval
    <2>5. Save(c, "go", "result")
        BY <1>6 DEF c
    <2>. QED
        BY <1>1, <1>3, <2>1, <2>3, <2>4, <2>5, SaveStep
<1>. QED
    BY <1>4, <1>5, <1>6 DEF RegisterIntent

\* The change and its receipt in one replacement of the inventory.
LEMMA ChangeStep ==
    ASSUME CloudInv, op # Nothing, op.kind = "resume", op.step = "go",
           run[op.run] = "EXECUTING",
           NEW s \in {"receipt", "lost"}, At(s), UNCHANGED <<run, cp>>, Fault \/ UNCHANGED faults,
           resource' = [resource EXCEPT ![target[op.run]] = "clean"],
           changed' = changed \cup {op.run},
           UNCHANGED <<target, traceOK, provenance, said, expired>>
    PROVE  CloudInv'
<1> DEFINE r == op.run
<1>1. /\ op \in Operations /\ r \in Runs /\ RunIs(r, run[r], cp[r]) /\ HasApproval(cp[r])
      /\ s \in Steps
    BY OpFacts DEF Ready, Steps
<1>2. op' \in Operations /\ op' # Nothing /\ op'.run = op.run /\ op'.kind = op.kind
      /\ op'.sent = op.sent /\ op'.step = s
    BY <1>1, CloudOpsAssumption DEF At, Operations
<1>3. /\ target \in [Runs -> Targets] /\ resource \in [Targets -> ResourceStates]
      /\ "clean" \in ResourceStates
    BY DEF CloudInv, TypeOK, ResourceStates
<1>4. /\ resource' \in [Targets -> ResourceStates]
      /\ \A q \in Runs : resource[target[q]] = "clean" => resource'[target[q]] = "clean"
      /\ resource'[target[r]] = "clean"
    BY <1>1, <1>3
<1>5. TypeOK'
    <2>1. faults' \in 0..MaxFaults
        BY FaultsStay DEF CloudInv
    <2>. QED
        BY <1>1, <1>2, <1>4, <2>1 DEF CloudInv, TypeOK
<1>6. OpOK'
    BY <1>1, <1>2 DEF CloudInv, OpOK, Ready, HasApproval
<1>7. ASSUME NEW q \in Runs PROVE RunOK(q)'
    <2>1. CASE q # r
        BY <1>4, <2>1, RunKept DEF CloudInv
    <2>2. CASE q = r
        <3>1. <<r, "resume">> \in provenance /\ run[r] = "EXECUTING" /\ cp[r] # Nothing
            BY <1>1 DEF CloudInv, OpOK, HasApproval
        <3>2. "EXECUTING" # Nothing
            BY CloudOpsAssumption DEF WorkflowStates
        <3>. QED
            BY <1>1, <1>4, <2>2, <3>1, <3>2 DEF RunOK, RunIs, HasApproval
    <2>. QED
        BY <2>1, <2>2
<1>. QED
    BY <1>5, <1>6, <1>7 DEF CloudInv

LEMMA ExecuteStep ==
    ASSUME CloudInv, Execute
    PROVE  CloudInv'
<1>1. /\ op # Nothing /\ op.kind = "resume" /\ op.step = "go" /\ run[op.run] = "EXECUTING"
      /\ op.run \notin changed
      /\ UNCHANGED <<target, traceOK, provenance, said, expired>>
    BY DEF Execute, Doing, Known
<1>2. /\ {"lost", "receipt", "result"} \subseteq Steps /\ Ready("result", run[op.run], cp[op.run])
      /\ Ready("lost", run[op.run], cp[op.run]) /\ "RECOVERY_REQUIRED" \in Final
    BY <1>1 DEF Steps, Ready, Final
<1> DEFINE done == /\ resource' = [resource EXCEPT ![target[op.run]] = "clean"]
                   /\ changed' = changed \cup {op.run}
           same == UNCHANGED <<resource, changed>>
<1>3. CASE done /\ Go("receipt")
    BY <1>1, <1>3, ChangeStep DEF Go
<1>4. CASE done /\ Fault /\ At("lost") /\ UNCHANGED <<run, cp>>
    BY <1>1, <1>4, ChangeStep
<1>5. CASE same /\ Move("RECOVERY_REQUIRED", "result", "result")
    BY <1>1, <1>2, <1>5, EndStep
<1>. QED
    BY <1>3, <1>4, <1>5 DEF Execute

LEMMA UnavailableStep ==
    ASSUME CloudInv, Unavailable
    PROVE  CloudInv'
<1>1. /\ op # Nothing /\ op.kind = "resume" /\ op.step = "go" /\ run[op.run] = "EXECUTING"
      /\ UNCHANGED <<target, resource, changed, traceOK, provenance, said, expired>>
    BY DEF Unavailable, Doing, Rest
<1>2. "lost" \in Steps /\ Ready("lost", run[op.run], cp[op.run])
    BY <1>1 DEF Steps, Ready
<1>. QED
    BY <1>1, <1>2, GoStep DEF Unavailable

LEMMA LostStep ==
    ASSUME CloudInv, Lost
    PROVE  CloudInv'
<1>1. "DEPENDENCY_UNAVAILABLE" \in Final
    BY DEF Final
<1>. QED
    BY <1>1, EndStep DEF Lost, Doing, Rest

LEMMA SaveReceiptStep ==
    ASSUME CloudInv, SaveReceipt
    PROVE  CloudInv'
<1> DEFINE r == op.run
<1>1. /\ op # Nothing /\ op.kind = "resume" /\ op.step \in {"go", "receipt"}
      /\ op.step = "go" => run[r] = "EXECUTING" /\ Known(r)
      /\ UNCHANGED <<target, resource, changed, traceOK, provenance, said, expired>>
    BY DEF SaveReceipt, Doing, Rest
<1>2. /\ RunIs(r, run[r], cp[r]) /\ HasApproval(cp[r]) /\ cp[r] \in Checkpoints
      /\ cp[r] # Nothing /\ Ready(op.step, run[r], cp[r])
    BY <1>1, OpFacts DEF Ready, HasApproval
<1>3. r \in changed /\ run[r] = "EXECUTING" /\ cp[r].intent
    BY <1>1, <1>2 DEF Ready, RunIs, Known, Acted
<1>4. {"go", "receipt", "result"} \subseteq Steps /\ Ready("result", run[r], cp[r])
    BY <1>1 DEF Steps, Ready
<1>5. CASE cp[r].receipt /\ Move("VERIFYING", "go", "result")
    <2>1. "VERIFYING" \in WorkflowStates /\ RunIs(r, "VERIFYING", cp[r])
        BY <1>2, <1>3, <1>5, CloudOpsAssumption DEF RunIs, Acted,
           WorkflowStates
    <2>2. Ready("go", "VERIFYING", cp[r])
        BY <1>1, <1>2 DEF Ready
    <2>. QED
        BY <1>1, <1>4, <1>5, <2>1, <2>2, MoveStep
<1>6. CASE Save([cp[r] EXCEPT !.receipt = TRUE], "receipt", "result")
    <2> DEFINE c == [cp[r] EXCEPT !.receipt = TRUE]
    <2>1. /\ c \in Checkpoints /\ c.approval = cp[r].approval /\ c.intent = cp[r].intent
          /\ c.receipt /\ c.verified = cp[r].verified
        BY <1>2 DEF Checkpoints
    <2>2. c # Nothing
        BY <2>1, CloudOpsAssumption
    <2> HIDE DEF c
    <2>3. RunIs(r, run[r], c)
        BY <1>2, <1>3, <2>1, <2>2 DEF RunIs, HasApproval
    <2>4. Ready("receipt", run[r], c)
        BY <1>1, <1>2, <1>3, <2>1, <2>2 DEF Ready, HasApproval
    <2>5. Save(c, "receipt", "result")
        BY <1>6 DEF c
    <2>. QED
        BY <1>1, <1>4, <2>1, <2>3, <2>4, <2>5, SaveStep
<1>. QED
    BY <1>5, <1>6 DEF SaveReceipt

LEMMA VerifyStep ==
    ASSUME CloudInv, Verify
    PROVE  CloudInv'
<1> DEFINE r == op.run
<1>1. /\ op # Nothing /\ op.kind = "resume" /\ op.step = "go" /\ run[r] = "VERIFYING"
      /\ UNCHANGED <<target, resource, changed, traceOK, provenance, said, expired>>
    BY DEF Verify, Doing, Rest
<1>2. /\ RunIs(r, run[r], cp[r]) /\ HasApproval(cp[r]) /\ cp[r] \in Checkpoints
      /\ cp[r] # Nothing /\ Ready("go", run[r], cp[r])
    BY <1>1, OpFacts DEF Ready, HasApproval
<1>3. /\ {"go", "close", "lost", "result"} \subseteq Steps /\ "VERIFICATION_FAILED" \in Final
      /\ Ready("result", run[r], cp[r]) /\ Ready("lost", run[r], cp[r])
    BY <1>1 DEF Steps, Ready, Final
<1>4. CASE /\ r \in changed /\ resource[target[r]] = "clean"
           /\ Save([cp[r] EXCEPT !.verified = TRUE], "go", "result")
    <2> DEFINE c == [cp[r] EXCEPT !.verified = TRUE]
    <2>1. /\ c \in Checkpoints /\ c.approval = cp[r].approval /\ c.intent = cp[r].intent
          /\ c.receipt = cp[r].receipt /\ c.verified
        BY <1>2 DEF Checkpoints
    <2>2. c # Nothing
        BY <2>1, CloudOpsAssumption
    <2> HIDE DEF c
    <2>3. RunIs(r, run[r], c)
        BY <1>2, <1>4, <2>1, <2>2 DEF RunIs, HasApproval
    <2>4. Ready("go", run[r], c)
        BY <1>1, <1>2, <2>1, <2>2 DEF Ready, HasApproval
    <2>5. Save(c, "go", "result")
        BY <1>4 DEF c
    <2>. QED
        BY <1>1, <1>3, <2>1, <2>3, <2>4, <2>5, SaveStep
<1>5. CASE Move("VERIFICATION_FAILED", "result", "result")
    BY <1>1, <1>3, <1>5, EndStep
<1>6. CASE Fault /\ At("lost") /\ UNCHANGED <<run, cp>>
    BY <1>1, <1>3, <1>6, GoStep
<1>7. CASE Proved(r) /\ Move("SUCCESS_WITH_EVIDENCE", "close", "result")
    <2>1. "SUCCESS_WITH_EVIDENCE" \in WorkflowStates
        BY DEF WorkflowStates, Final
    <2>2. RunIs(r, "SUCCESS_WITH_EVIDENCE", cp[r])
        BY <1>1, <1>2, <1>7, <2>1, CloudOpsAssumption DEF RunIs, Acted,
           Proved
    <2>3. Ready("close", "SUCCESS_WITH_EVIDENCE", cp[r])
        BY <1>1 DEF Ready
    <2>. QED
        BY <1>1, <1>3, <1>7, <2>1, <2>2, <2>3, MoveStep
<1>. QED
    BY <1>4, <1>5, <1>6, <1>7 DEF Verify

LEMMA CloseStep ==
    ASSUME CloudInv, Close
    PROVE  CloudInv'
<1> DEFINE r == op.run
<1>1. /\ op # Nothing /\ op.kind = "resume" /\ op.step = "close"
      /\ UNCHANGED <<target, resource, changed, traceOK, provenance, said, expired>>
    BY DEF Close, Doing, Rest
<1>2. /\ RunIs(r, run[r], cp[r]) /\ cp[r] \in Checkpoints /\ cp[r] # Nothing
    BY <1>1, OpFacts DEF Ready, RunIs, HasApproval, Acted
<1>3. {"answer", "result"} \subseteq Steps /\ \A c : Ready("result", run[r], c) /\ Ready("answer", run[r], c)
    BY <1>1 DEF Steps, Ready
<1>4. CASE Go("answer")
    BY <1>1, <1>3, <1>4, GoStep DEF Go
<1>5. CASE Save([cp[r] EXCEPT !.safe = "SUCCESS_WITH_EVIDENCE"], "answer", "result")
    <2> DEFINE c == [cp[r] EXCEPT !.safe = "SUCCESS_WITH_EVIDENCE"]
    <2>1. "SUCCESS_WITH_EVIDENCE" \in WorkflowStates
        BY DEF WorkflowStates, Final
    <2>2. /\ c \in Checkpoints /\ c.approval = cp[r].approval /\ c.intent = cp[r].intent
          /\ c.receipt = cp[r].receipt /\ c.verified = cp[r].verified
        BY <1>2, <2>1 DEF Checkpoints
    <2>3. c # Nothing
        BY <2>2, CloudOpsAssumption
    <2> HIDE DEF c
    <2>4. RunIs(r, run[r], c)
        BY <1>2, <2>2, <2>3 DEF RunIs, HasApproval
    <2>5. Save(c, "answer", "result")
        BY <1>5 DEF c
    <2>. QED
        BY <1>1, <1>3, <2>2, <2>4, <2>5, SaveStep
<1>. QED
    BY <1>4, <1>5 DEF Close

LEMMA UnprovableStep ==
    ASSUME CloudInv, Unprovable
    PROVE  CloudInv'
<1>1. /\ op # Nothing /\ op.kind = "resume" /\ op.step = "go" /\ Go("result")
      /\ UNCHANGED <<target, resource, changed, traceOK, provenance, said, expired>>
    BY DEF Unprovable, Doing, Rest
<1>2. "result" \in Steps /\ Ready("result", run[op.run], cp[op.run])
    BY <1>1 DEF Steps, Ready
<1>. QED
    BY <1>1, <1>2, GoStep DEF Go

-----------------------------------------------------------------------------
(* The log, the operator's calls and the environment *)

\* A step that leaves runs and checkpoints alone.
LEMMA OutsideStep ==
    ASSUME CloudInv, UNCHANGED <<run, cp, target, changed>>,
           op' \in Operations \cup {Nothing}, OpOK',
           traceOK' \in BOOLEAN, Fault \/ UNCHANGED faults, resource' \in [Targets -> ResourceStates],
           \A t \in Targets : resource[t] = "clean" => resource'[t] = "clean",
           said \subseteq said', provenance \subseteq provenance', expired \subseteq expired'
    PROVE  CloudInv'
<1>1. TypeOK'
    BY FaultsStay DEF CloudInv, TypeOK
<1>2. ASSUME NEW r \in Runs PROVE RunOK(r)'
    <2>1. target[r] \in Targets
        BY DEF CloudInv, TypeOK
    <2>. QED
        BY <2>1, RunKept DEF CloudInv
<1>. QED
    BY <1>1, <1>2 DEF CloudInv

LEMMA AppendStep ==
    ASSUME CloudInv, AppendEvidence
    PROVE  CloudInv'
<1>1. /\ op # Nothing /\ UNCHANGED <<run, cp, target, resource, changed, said, expired>>
      /\ resource \in [Targets -> ResourceStates] /\ provenance \subseteq provenance'
      /\ traceOK' \in BOOLEAN /\ (Fault \/ UNCHANGED faults)
    BY DEF AppendEvidence, CloudInv, TypeOK
<1>2. CASE op' = Nothing
    <2>1. OpOK'
        BY <1>2 DEF OpOK
    <2>. QED
        BY <1>1, <1>2, <2>1, OutsideStep
<1>3. CASE op' # Nothing
    <2>1. /\ op.step = "request" /\ op' = [op EXCEPT !.step = "run"]
          /\ <<op.run, op.kind>> \in provenance'
        BY <1>3 DEF AppendEvidence, Unlogged
    <2>2. "run" \in Steps /\ op \in Operations
        BY <1>1, OpFacts DEF Steps
    <2>3. op' \in Operations /\ op'.run = op.run /\ op'.kind = op.kind
          /\ op'.sent = op.sent /\ op'.step = "run"
        BY <2>1, <2>2 DEF Operations
    <2>4. OpOK'
        BY <1>1, <2>1, <2>3 DEF CloudInv, OpOK, Ready
    <2>. QED
        BY <1>1, <2>3, <2>4, OutsideStep
<1>. QED
    BY <1>2, <1>3

LEMMA CrashStep ==
    ASSUME CloudInv, Crash
    PROVE  CloudInv'
<1>1. OpOK'
    BY DEF Crash, OpOK
<1>2. resource \in [Targets -> ResourceStates] /\ traceOK \in BOOLEAN
    BY DEF CloudInv, TypeOK
<1>. QED
    BY <1>1, <1>2, OutsideStep DEF Crash

\* A call of the operator.
LEMMA BeginStep ==
    ASSUME CloudInv, NEW kind \in {"start", "request", "decide", "resume"},
           NEW r \in Runs,
           NEW sent \in Approvals \cup {Nothing}, Begin(kind, r, sent), said \subseteq said',
           kind = "start" => run[r] = Nothing,
           kind = "decide" => sent # Nothing /\ <<r, sent.request, sent.decision>> \in said'
    PROVE  CloudInv'
<1>1. /\ op' = [kind |-> kind, run |-> r, sent |-> sent, step |-> "request"]
      /\ UNCHANGED <<run, cp, target, resource, changed, traceOK, provenance, expired, faults>>
    BY DEF Begin
<1>2. op' \in Operations /\ op'.kind = kind /\ op'.run = r /\ op'.sent = sent
      /\ op'.step = "request"
    BY <1>1 DEF Operations, Steps
<1>3. kind = "start" => r \notin changed /\ run[r] \notin Acted
    <2>1. RunIs(r, run[r], cp[r]) /\ Nothing \notin Acted
        BY CloudOpsAssumption DEF CloudInv, RunOK, WorkflowStates,
           Final, Acted
    <2>. QED
        BY <2>1 DEF RunIs
<1>4. OpOK'
    BY <1>1, <1>2, <1>3 DEF OpOK, Ready
<1>5. resource \in [Targets -> ResourceStates] /\ traceOK \in BOOLEAN
    BY DEF CloudInv, TypeOK
<1>. QED
    BY <1>1, <1>2, <1>4, <1>5, OutsideStep

LEMMA CallStep ==
    ASSUME CloudInv, NEW r \in Runs,
           \/ Start(r) \/ RequestApproval(r) \/ Resume(r)
           \/ \E id \in 1..MaxRequests, d \in Decisions : SendDecision(r, id, d)
    PROVE  CloudInv'
<1>1. CASE Start(r)
    BY <1>1, BeginStep DEF Start
<1>2. CASE RequestApproval(r)
    BY <1>2, BeginStep DEF RequestApproval
<1>3. CASE Resume(r)
    BY <1>3, BeginStep DEF Resume
<1>4. ASSUME NEW id \in 1..MaxRequests, NEW d \in Decisions, SendDecision(r, id, d) PROVE CloudInv'
    <2> DEFINE a == [request |-> id, decision |-> d]
    <2>1. a \in Approvals /\ a.request = id /\ a.decision = d
        BY CloudOpsAssumption DEF Approvals
    <2>2. Begin("decide", r, a) /\ said' = said \cup {<<r, id, d>>} /\ a # Nothing
        BY <1>4, <2>1, CloudOpsAssumption DEF SendDecision
    <2> HIDE DEF a
    <2>. QED
        BY <2>1, <2>2, BeginStep
<1>. QED
    BY <1>1, <1>2, <1>3, <1>4

LEMMA WorldStep ==
    ASSUME CloudInv,
           (\E r \in Runs : Expire(r)) \/ (\E t \in Targets : Repair(t)) \/ Switch
    PROVE  CloudInv'
<1>1. /\ UNCHANGED <<run, cp, target, changed, traceOK, provenance, op, said>>
      /\ expired \subseteq expired' /\ (Fault \/ UNCHANGED faults)
    BY DEF Expire, Repair, Switch
<1>2. /\ resource' \in [Targets -> ResourceStates]
      /\ \A t \in Targets : resource[t] = "clean" => resource'[t] = "clean"
    BY DEF Expire, Repair, Switch, CloudInv, TypeOK, ResourceStates
<1>3. OpOK' /\ op \in Operations \cup {Nothing} /\ traceOK \in BOOLEAN
    BY <1>1 DEF CloudInv, TypeOK, OpOK, Ready, HasApproval
<1>. QED
    BY <1>1, <1>2, <1>3, OutsideStep

-----------------------------------------------------------------------------
(* The theorems of CloudOps *)

\* The inductive invariant holds between any two steps of any operations.
THEOREM CloudOpsIsInvariant == CloudSpec => []CloudInv
<1>1. CloudInit => CloudInv
    <2> SUFFICES ASSUME CloudInit PROVE CloudInv
        OBVIOUS
    <2>1. TypeOK
        BY CloudOpsAssumption DEF CloudInit, TypeOK, ResourceStates
    <2>2. OpOK /\ \A r \in Runs : RunOK(r)
        BY CloudOpsAssumption DEF CloudInit, OpOK, RunOK, RunIs, HasApproval,
           Acted, WorkflowStates, Final
    <2>. QED
        BY <2>1, <2>2 DEF CloudInv
<1>2. CloudInv /\ [CloudNext]_cloudVars => CloudInv'
    <2> SUFFICES ASSUME CloudInv, [CloudNext]_cloudVars PROVE CloudInv'
        OBVIOUS
    <2>1. CASE Step
        BY <2>1, AppendStep, InvestigateStep, PlanStep, ProposeStep, CloudChallengeStep,
           RecordDecisionStep, ApplyDecisionStep, EnterResumeStep, CheckExpiryStep,
           RegisterIntentStep, ExecuteStep, UnavailableStep, LostStep, SaveReceiptStep, VerifyStep, CloseStep,
           UnprovableStep DEF Step
    <2>2. CASE UNCHANGED cloudVars
        BY <2>2 DEF cloudVars, CloudInv, TypeOK, OpOK, Ready, RunOK, RunIs, HasApproval
    <2>. QED
        BY <2>1, <2>2, CrashStep, CallStep, WorldStep DEF CloudNext
<1>. QED
    BY <1>1, <1>2, PTL DEF CloudSpec

\* A change was approved by the operator, in answer to the challenge the approval
\* on record names, and the request to resume it is in the provenance log
\* (execution.py:351-420, 833-850, service.py:194-203).
THEOREM CloudChangeWasApproved == CloudSpec => []ChangeWasApproved
<1>1. CloudInv => ChangeWasApproved
    BY DEF CloudInv, TypeOK, RunOK, RunIs, HasApproval, ChangeWasApproved
<1>. QED
    BY <1>1, CloudOpsIsInvariant, PTL

\* A change that was made is found again after any crash, and never taken for a
\* conflict (execution.py:592-603).
THEOREM CloudChangeIsRecognised == CloudSpec => []ChangeIsRecognised
<1>1. CloudInv => ChangeIsRecognised
    BY DEF CloudInv, TypeOK, RunOK, RunIs, ChangeIsRecognised
<1>. QED
    BY <1>1, CloudOpsIsInvariant, PTL

\* Success is claimed only of a change that was made and read back, with the
\* whole chain of proof in the checkpoint (execution.py:665-732).
THEOREM CloudSuccessIsProved == CloudSpec => []SuccessIsProved
<1>1. CloudInv => SuccessIsProved
    <2> SUFFICES ASSUME CloudInv, NEW r \in Runs, run[r] = "SUCCESS_WITH_EVIDENCE"
                 PROVE  /\ r \in changed /\ resource[target[r]] = "clean"
                        /\ cp[r].intent /\ cp[r].receipt /\ cp[r].verified
        BY DEF SuccessIsProved
    <2>1. RunIs(r, run[r], cp[r])
        BY DEF CloudInv, RunOK
    <2>. QED
        BY <2>1 DEF RunIs, Acted, HasApproval
<1>. QED
    BY <1>1, CloudOpsIsInvariant, PTL

=============================================================================
