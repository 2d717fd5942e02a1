--------------------------- MODULE PersonalMemory ---------------------------
(* The owner's memory slot and the patches in it (memory_patch/personal).    *)
(*                                                                           *)
(* A candidate becomes usable memory in steps taken by different actors:     *)
(* intake, evidence, validation, a challenge the owner answers, a commit, an *)
(* activation. Between any two of them the owner may reconfigure, suspend or *)
(* delete the slot, the HAT manifest may be replaced, the evidence may be    *)
(* withdrawn or judged anew, and the Core's publication may lag or break.    *)
(* Each step re-reads all of it in its own transaction; what a retrieval     *)
(* hands to a model is Usable.                                               *)
(*                                                                           *)
(* A call that names an outdated revision is refused and changes nothing, so *)
(* a call carries the current one. Of the domain events only those are kept  *)
(* whose publication some step asks for.                                     *)
EXTENDS Integers, FiniteSets, Sequences

CONSTANTS
    Patches,       \* candidates, one patch record each
    Supersedes,    \* the patch each candidate replaces, or None
    Challenges,    \* ids of owner challenges
    Manifests,     \* versions of the HAT manifest
    Evidence,      \* verdicts of the evidence validation
    Quotas,        \* values of maximum_active_memory_patches
    MaxConfig,     \* bound: how often the slot is configured
    None

\* What the constants stand for; the theorems' first premise.
MemoryAssumption ==
    /\ IsFiniteSet(Patches)
    /\ Supersedes \in [Patches -> Patches \cup {None}]
    /\ Quotas \subseteq Nat /\ MaxConfig \in Nat
    /\ None \notin Evidence \cup Challenges

VARIABLES
    space,       \* the owner-memory-slot record
    hat,         \* external: the manifest the HAT admission selects
    evidence,    \* external: the verdict on each candidate, None when denied
                 \* or outside its validity
    patch,       \* the PATCH records
    challenge,   \* the CHALLENGE records
    approval,    \* the APPROVAL record of each patch
    commitment,  \* the RECEIPT of each patch's commit
    activation,  \* the RECEIPT of each patch's activation
    outbox,      \* OUTBOX records still PENDING, in order of their event
    logged,      \* events in the Core log
    sealed,      \* those of them the publication head covers
    headOK,      \* the publication head matches the log
    newest,      \* history: the last challenge the owner asked for, by patch
    consent      \* history: what the owner approved

vars == <<space, hat, evidence, patch, challenge, approval, commitment,
          activation, outbox, logged, sealed, headOK, newest, consent>>

receipts == <<approval, commitment, activation>>
world == <<hat, evidence>>
core == <<logged, sealed, headOK>>
history == <<newest, consent>>

-----------------------------------------------------------------------------
(* Lifecycles *)

PERSONAL_MEMORY_TRANSITIONS ==
    [NONE            |-> {},
     EMPTY           |-> {"CONFIGURED", "DELETED_PENDING"},
     CONFIGURED      |-> {"ACTIVE", "ARCHIVED", "DELETED_PENDING"},
     ACTIVE          |-> {"SUSPENDED", "ARCHIVED", "DELETED_PENDING"},
     SUSPENDED       |-> {"ACTIVE", "ARCHIVED", "DELETED_PENDING"},
     ARCHIVED        |-> {"CONFIGURED", "DELETED_PENDING"},
     DELETED_PENDING |-> {"DELETED"},
     DELETED         |-> {}]

MEMORY_PATCH_TRANSITIONS ==
    [NONE              |-> {},
     DETECTED          |-> {"PROPOSED"},
     PROPOSED          |-> {"EVIDENCE_BOUND"},
     EVIDENCE_BOUND    |-> {"VALIDATED"},
     VALIDATED         |-> {"AWAITING_APPROVAL"},
     AWAITING_APPROVAL |-> {"APPROVED", "REJECTED"},
     APPROVED          |-> {"COMMITTED"},
     COMMITTED         |-> {"ACTIVE"},
     ACTIVE            |-> {"SUPERSEDED", "REVOKED"},
     SUPERSEDED        |-> {},
     REJECTED          |-> {},
     REVOKED           |-> {}]

SpaceStates == DOMAIN PERSONAL_MEMORY_TRANSITIONS
PatchStates == DOMAIN MEMORY_PATCH_TRANSITIONS
Stages == {"PROPOSED", "EVIDENCE_BOUND", "VALIDATED", "AWAITING_APPROVAL"}

\* authorization_binding: what the owner's approval is tied to, next to the
\* candidate itself.
Binding(r) == [cfg |-> r.cfg, hat |-> r.hat, ev |-> r.ev]
Now(p) == [cfg |-> space.cfg, hat |-> hat, ev |-> evidence[p]]

-----------------------------------------------------------------------------
(* What each step re-reads *)

\* Mutant: the manifest is compared at intake only.
ConfiguredAnyManifest(p) ==
    /\ space.state = "ACTIVE"
    /\ patch[p].cfg = space.cfg
    /\ ~patch[p].deleted

\* require_configuration for a stored record.
Configured(p) ==
    /\ space.state = "ACTIVE"
    /\ patch[p].cfg = space.cfg
    /\ patch[p].hat = hat
    /\ ~patch[p].deleted

\* require_current: the candidate is in its validity, its evidence is admitted
\* and is the one bound, once it is bound.
Current(p) ==
    /\ Configured(p)
    /\ evidence[p] # None
    /\ patch[p].ev # None => patch[p].ev = evidence[p]

\* enforce_space_quota: patches of an earlier configuration count as well.
InForce == {p \in Patches : patch[p].state = "ACTIVE" /\ ~patch[p].deleted}
\* Mutant: the patch about to be activated is not counted.
WithinQuotaBefore(extra) == Cardinality(InForce) <= space.quota

WithinQuota(extra) == Cardinality(InForce \cup extra) <= space.quota

\* Mutant: the log is read without a look at its head, as a repair reads it.
PublishedAnyHead(e) ==
    /\ e \in logged
    /\ \A i \in 1..Len(outbox) : outbox[i] # e

\* require_published: acknowledged, and the Core log can be read and has it.
Published(e) ==
    /\ headOK
    /\ e \in logged
    /\ \A i \in 1..Len(outbox) : outbox[i] # e

\* require_approval.
Approved(p) ==
    /\ approval[p].state = "APPROVED"
    /\ approval[p].binding = Binding(patch[p])
    /\ challenge[approval[p].challenge].state = "CONSUMED"
    /\ Published(<<p, "approval">>)

\* require_commit.
Committed(p) ==
    /\ Approved(p)
    /\ commitment[p].state = "COMMITTED"
    /\ commitment[p].binding = Binding(patch[p])
    /\ Published(<<p, "commit">>)

\* require_active, which the retrieval asks of every patch it returns.
Usable(p) ==
    /\ patch[p].state = "ACTIVE"
    /\ Current(p)
    /\ Committed(p)
    /\ activation[p].state = "ACTIVE"
    /\ activation[p].rev = patch[p].rev
    /\ activation[p].binding = Binding(patch[p])
    /\ Published(<<p, "activation">>)
    /\ Published(<<p, "patch">>)

-----------------------------------------------------------------------------
NoPatch == [state |-> "NONE", rev |-> 0, cfg |-> 0, hat |-> None, ev |-> None,
            validated |-> 0, deleted |-> FALSE]
NoReceipt == [state |-> "NONE", rev |-> 0,
              binding |-> [cfg |-> 0, hat |-> None, ev |-> None],
              challenge |-> None]

Init ==
    /\ space = [state |-> "NONE", cfg |-> 0, quota |-> 0]
    /\ hat \in Manifests
    /\ evidence \in [Patches -> Evidence \cup {None}]
    /\ patch = [p \in Patches |-> NoPatch]
    /\ challenge = [c \in Challenges |-> [state |-> "NONE", patch |-> None,
                       rev |-> 0, binding |-> NoReceipt.binding]]
    /\ approval = [p \in Patches |-> NoReceipt]
    /\ commitment = [p \in Patches |-> NoReceipt]
    /\ activation = [p \in Patches |-> NoReceipt]
    /\ outbox = <<>> /\ logged = {} /\ sealed = {} /\ headOK = TRUE
    /\ newest = [p \in Patches |-> None]
    /\ consent = [p \in Patches |-> None]

-----------------------------------------------------------------------------
(* The slot: management.py *)

CreateSlot ==
    /\ space.state = "NONE"
    /\ space' = [space EXCEPT !.state = "EMPTY"]
    /\ UNCHANGED <<world, patch, challenge, receipts, outbox, core, history>>

ConfigureSlot(quota) ==
    /\ "CONFIGURED" \in PERSONAL_MEMORY_TRANSITIONS[space.state]
    /\ space.cfg < MaxConfig
    /\ space' = [state |-> "CONFIGURED", cfg |-> space.cfg + 1, quota |-> quota]
    /\ UNCHANGED <<world, patch, challenge, receipts, outbox, core, history>>

\* What a deletion makes of a patch record.
Forgotten(r) ==
    IF r.state = "NONE" \/ (r.deleted /\ r.state # "ACTIVE") THEN r
    ELSE [r EXCEPT !.deleted = TRUE, !.rev = @ + 1,
                   !.state = IF @ = "ACTIVE" THEN "REVOKED" ELSE @]

ChangeSlotState(target) ==
    /\ target # "CONFIGURED"
    /\ target \in PERSONAL_MEMORY_TRANSITIONS[space.state]
    /\ space' = [space EXCEPT !.state = target]
    /\ patch' = IF target = "DELETED_PENDING"
                THEN [p \in Patches |-> Forgotten(patch[p])]
                ELSE patch
    /\ UNCHANGED <<world, challenge, receipts, outbox, core, history>>

-----------------------------------------------------------------------------
(* A candidate on its way to the owner: candidates.py, proposals.py *)

\* intake: a candidate that is already on file is answered with its record.
Intake(p) ==
    /\ space.state = "ACTIVE"
    /\ patch[p].state = "NONE"
    /\ WithinQuota({})
    /\ patch' = [patch EXCEPT ![p] =
           [state |-> "DETECTED", rev |-> 1, cfg |-> space.cfg, hat |-> hat,
            ev |-> None, validated |-> 0, deleted |-> FALSE]]
    /\ UNCHANGED <<space, world, challenge, receipts, outbox, core, history>>

\* transition: the edge exists, and the revision grows by one.
MayBecome(p, target) == target \in MEMORY_PATCH_TRANSITIONS[patch[p].state]
Become(r, target) == [r EXCEPT !.state = target, !.rev = @ + 1]

Advance(p, target) ==
    LET r == patch[p] IN
    /\ MayBecome(p, target)
    /\ Configured(p)
    /\ WithinQuota({})
    /\ target # "PROPOSED" => Current(p)
    /\ target = "AWAITING_APPROVAL" => r.validated = r.rev
    /\ patch' = [patch EXCEPT ![p] =
           [Become(r, target) EXCEPT
               !.ev = IF target = "PROPOSED" THEN @ ELSE evidence[p],
               !.validated = IF target = "VALIDATED" THEN r.rev + 1 ELSE @]]
    /\ UNCHANGED <<space, world, challenge, receipts, outbox, core, history>>

-----------------------------------------------------------------------------
(* The owner's decision: approval.py *)

\* challenge: earlier questions about this patch are superseded.
Challenge(p, c) ==
    /\ challenge[c].state = "NONE"
    /\ patch[p].state = "AWAITING_APPROVAL"
    /\ Current(p)
    /\ challenge' = [d \in Challenges |->
           IF d = c THEN [state |-> "OPEN", patch |-> p, rev |-> patch[p].rev,
                          binding |-> Binding(patch[p])]
           ELSE IF challenge[d].patch = p /\ challenge[d].state = "OPEN"
                THEN [challenge[d] EXCEPT !.state = "SUPERSEDED"]
                ELSE challenge[d]]
    /\ newest' = [newest EXCEPT ![p] = c]
    /\ UNCHANGED <<space, world, patch, receipts, outbox, core, consent>>

\* The question a decision answers is open and about the patch as it stands.
Answers(c) ==
    LET p == challenge[c].patch IN
    /\ challenge[c].state = "OPEN"
    /\ patch[p].state = "AWAITING_APPROVAL"
    /\ challenge[c].rev = patch[p].rev
    /\ challenge[c].binding = Binding(patch[p])

\* decide, after the five minutes.
DecideLate(c) ==
    /\ Answers(c)
    /\ challenge' = [challenge EXCEPT ![c].state = "EXPIRED"]
    /\ UNCHANGED <<space, world, patch, receipts, outbox, core, history>>

\* decide: the challenge is consumed, the approval filed, the patch moved on.
Decide(c, decision) ==
    LET p == challenge[c].patch IN
    /\ Answers(c)
    /\ Current(p)
    /\ WithinQuota({})
    /\ challenge' = [challenge EXCEPT ![c].state = "CONSUMED"]
    /\ approval' = [approval EXCEPT ![p] =
           [state |-> decision, rev |-> patch[p].rev + 1,
            binding |-> challenge[c].binding, challenge |-> c]]
    /\ patch' = [patch EXCEPT ![p] = Become(@, decision)]
    /\ outbox' = Append(outbox, <<p, "approval">>)
    /\ consent' = IF decision = "APPROVED" /\ newest[p] = c
                  THEN [consent EXCEPT ![p] = Now(p)] ELSE consent
    /\ UNCHANGED <<space, world, commitment, activation, core, newest>>

-----------------------------------------------------------------------------
(* Commit and activation: commit.py *)

Commit(p) ==
    /\ patch[p].state = "APPROVED"
    /\ Current(p)
    /\ WithinQuota({})
    /\ Approved(p)
    /\ approval[p].rev = patch[p].rev
    /\ commitment' = [commitment EXCEPT ![p] =
           [state |-> "COMMITTED", rev |-> patch[p].rev + 1,
            binding |-> Binding(patch[p]), challenge |-> None]]
    /\ patch' = [patch EXCEPT ![p] = Become(@, "COMMITTED")]
    /\ outbox' = Append(outbox, <<p, "commit">>)
    /\ UNCHANGED <<space, world, challenge, approval, activation, core, history>>

Activate(p) ==
    /\ patch[p].state = "COMMITTED"
    /\ Current(p)
    /\ WithinQuota({p})
    /\ Committed(p)
    /\ commitment[p].rev = patch[p].rev
    /\ activation' = [activation EXCEPT ![p] =
           [state |-> "ACTIVE", rev |-> patch[p].rev + 1,
            binding |-> Binding(patch[p]), challenge |-> None]]
    /\ patch' = [patch EXCEPT ![p] = Become(@, "ACTIVE")]
    /\ outbox' = outbox \o << <<p, "activation">>, <<p, "patch">> >>
    /\ UNCHANGED <<space, world, challenge, approval, commitment, core, history>>

-----------------------------------------------------------------------------
(* Withdrawal: management.py *)

\* revoke works in every state of the slot.
Revoke(p) ==
    /\ MayBecome(p, "REVOKED")
    /\ patch' = [patch EXCEPT ![p] = Become(@, "REVOKED")]
    /\ UNCHANGED <<space, world, challenge, receipts, outbox, core, history>>

\* supersede: only for a replacement that is itself usable, and that named it.
Supersede(old, new) ==
    /\ old # new
    /\ Supersedes[new] = old
    /\ Usable(new)
    /\ MayBecome(old, "SUPERSEDED")
    /\ patch' = [patch EXCEPT ![old] = Become(@, "SUPERSEDED")]
    /\ UNCHANGED <<space, world, challenge, receipts, outbox, core, history>>

-----------------------------------------------------------------------------
(* Publication: publish_pending and CoreLedgerPublication, as what their     *)
(* steps leave behind.                                                       *)

\* publish of the oldest pending event: in the log and in the head. An event
\* the log has is answered with its receipt and changes nothing.
Publish ==
    /\ outbox # <<>> /\ headOK
    /\ Head(outbox) \notin logged
    /\ logged' = logged \cup {Head(outbox)}
    /\ sealed' = logged'
    /\ UNCHANGED <<space, world, patch, challenge, receipts, outbox, headOK, history>>

\* The process dies between the log's fsync and the head's replacement: nobody
\* holds a receipt for the entry, and none is given before the repair.
PublishBreaks ==
    /\ outbox # <<>> /\ headOK
    /\ Head(outbox) \notin logged
    /\ logged' = logged \cup {Head(outbox)}
    /\ headOK' = FALSE
    /\ UNCHANGED <<space, world, patch, challenge, receipts, outbox, sealed, history>>

\* The same, for an event that is not kept here.
OtherBreaks ==
    /\ headOK
    /\ headOK' = FALSE
    /\ UNCHANGED <<space, world, patch, challenge, receipts, outbox, logged, sealed, history>>

\* acknowledge: mark_published with the receipt publish returned, which it does
\* only for an entry the head covers. The head may have broken since.
Acknowledge ==
    /\ outbox # <<>>
    /\ Head(outbox) \in sealed
    /\ outbox' = Tail(outbox)
    /\ UNCHANGED <<space, world, patch, challenge, receipts, core, history>>

\* reconcile_checkpoint: the operator repairs the head for one entry.
ReconcileCheckpoint ==
    /\ ~headOK
    /\ headOK' = TRUE
    /\ sealed' = logged
    /\ UNCHANGED <<space, world, patch, challenge, receipts, outbox, logged, history>>

-----------------------------------------------------------------------------
(* Outside the slot *)

HatChanges(m) ==
    /\ m # hat
    /\ hat' = m
    /\ UNCHANGED <<space, evidence, patch, challenge, receipts, outbox, core, history>>

EvidenceChanges(p, v) ==
    /\ v # evidence[p]
    /\ evidence' = [evidence EXCEPT ![p] = v]
    /\ UNCHANGED <<space, hat, patch, challenge, receipts, outbox, core, history>>

Next ==
    \/ CreateSlot
    \/ \E q \in Quotas : ConfigureSlot(q)
    \/ \E t \in SpaceStates : ChangeSlotState(t)
    \/ \E p \in Patches :
           \/ Intake(p)
           \/ \E t \in Stages : Advance(p, t)
           \/ \E c \in Challenges : Challenge(p, c)
           \/ Commit(p) \/ Activate(p) \/ Revoke(p)
           \/ \E new \in Patches : Supersede(p, new)
           \/ \E v \in Evidence \cup {None} : EvidenceChanges(p, v)
    \/ \E c \in Challenges :
           \/ DecideLate(c)
           \/ \E d \in {"APPROVED", "REJECTED"} : Decide(c, d)
    \/ Publish \/ PublishBreaks \/ OtherBreaks \/ Acknowledge \/ ReconcileCheckpoint
    \/ \E m \in Manifests : HatChanges(m)

Spec == Init /\ [][Next]_vars

-----------------------------------------------------------------------------
\* What a model is given as the owner's memory is what the owner approved in
\* answer to the last question put to them: the same candidate, under the
\* present slot configuration and HAT manifest, on the present evidence
\* (commit.py:73-91, approval.py:178-194, lifecycle.py:433-493).
UsedIsConsented == \A p \in Patches : Usable(p) => consent[p] = Now(p)

\* However often the slot is reconfigured, and whatever is activated in
\* between, no more patches are usable than the quota in force allows
\* (lifecycle.py:495-523).
QuotaHolds == Cardinality({p \in Patches : Usable(p)}) <= space.quota

\* Every act a patch has been through is in the part of the log its head covers.
OnRecord(p) ==
    /\ patch[p].state \in {"COMMITTED", "ACTIVE", "SUPERSEDED", "REVOKED"}
          => <<p, "approval">> \in sealed
    /\ patch[p].state \in {"ACTIVE", "SUPERSEDED", "REVOKED"}
          => <<p, "commit">> \in sealed

\* The Core log runs ahead of the lifecycle. A patch is committed, put in force
\* or replaced only on the strength of entries the head covers and while it
\* covers the whole log: after a publication that broke between the log and the
\* head nothing moves on before the repair, on no entry, be it the one left
\* behind or an older one (commit.py:32-70, lifecycle.py:587-597,
\* audit.py:365-376).
RecordPrecedesAct ==
    [][\A p \in Patches :
          /\ patch'[p].state # patch[p].state
          /\ patch'[p].state \in {"COMMITTED", "ACTIVE", "SUPERSEDED"}
          => headOK /\ OnRecord(p)']_vars

\* Once the owner has asked for the deletion of the slot, no patch of any
\* stage is left undeleted or in force, and none comes back
\* (management.py:226-252).
DeletionIsComplete ==
    space.state \in {"DELETED_PENDING", "DELETED"} =>
        \A p \in Patches : patch[p].state # "NONE" =>
            patch[p].deleted /\ patch[p].state # "ACTIVE"
=============================================================================
