---------------------------- MODULE IntentJournal ----------------------------
(***************************************************************************)
(* CoreWarrantLedger (runtime/mission/warrant.py), CoreIntentJournal       *)
(* (runtime/mission/intent.py) and the one-shot provider release of        *)
(* runtime/providers/meta_model_api.py, over one governor.                 *)
(*                                                                         *)
(* A warrant is a human decision about one operation; it is filed under    *)
(* its nonce, may be delegated to narrower warrants of the same nonce,     *)
(* revoked, and consumed once.  START consumes it, charges its reservation *)
(* and files the intent in one transaction; a provider call consumes it    *)
(* and dispatches the reservation in two.                                  *)
(*                                                                         *)
(* The target, the executor that acts on a START marker and the            *)
(* independent verifier are outside the repository's code: `target' is     *)
(* what really happened to an operation, and the verifier reports it once  *)
(* it can no longer change.  The clock is time.time, which may be set in   *)
(* either direction: every reading is any time.                            *)
(***************************************************************************)
EXTENDS GovernorState

CONSTANTS
  Warrants,      \* EffectWarrant values
  Roots,         \* those whose approval_digest is the digest of their own content
  Callers,       \* threads that release provider calls
  Sessions,      \* owner sessions (actor_session_id, assignment_revision)
  Liability,     \* digest of a liability_id
  Resolutions,   \* digests of the Reconciliation values a verifier may return
  VerdictOf      \* the outcome in each of them

Nonces == {w.nonce : w \in Warrants}
Ops    == {w.op : w \in Warrants}

Verdicts == {"Applied", "NotApplied"}

\* A provider call is released by dispatch_commit; an intent by START.  "zero" is the
\* local or remote USD0 variant of START, "paid" the fixture one.
Kinds == {"call", "paid", "zero"}

ASSUME WarrantsAssumption ==
  /\ \A w \in Warrants :
       /\ DOMAIN w = {"id", "nonce", "op", "kind", "request", "epoch", "scope", "until"}
       /\ w.kind \in Kinds /\ w.request \in Requests
       /\ w.epoch \in Nat \ {0} /\ w.scope \in Nat /\ w.until \in Nat
  /\ \A v, w \in Warrants : v.request.id = w.request.id <=> v.op = w.op
  /\ \A v, w \in Warrants : v.op = w.op => v.request = w.request
  /\ \A v, w \in Warrants : v.op = w.op => (v.kind = "call" <=> w.kind = "call")
  /\ Roots \subseteq Warrants

ASSUME ResolutionsAssumption ==
  /\ Resolutions \subseteq Evidence
  /\ Liability \in Evidence \ Resolutions
  /\ VerdictOf \in [Resolutions -> Verdicts]

VARIABLES
  gov,      \* the governor's current snapshot
  ledger,   \* the warrant registered under each nonce, with its owner witness
  intents,  \* the intent of each operation, with its outbox row
  calls,    \* per caller, the warrant it is releasing and how far it has come
  answers,  \* per operation, verifier results read and not yet applied
  target,   \* what really happened to each operation
  uses,     \* history: per nonce, the acknowledged permissions to act
  starts    \* history: per operation, the acknowledged START markers

vars == <<gov, ledger, intents, calls, answers, target, uses, starts>>

-----------------------------------------------------------------------------
(* Records *)

NoWarrant  == [id |-> None]
NoApproval == [root |-> NoWarrant, active |-> NoWarrant, consumed |-> FALSE,
               revoked |-> FALSE, session |-> None]
NoIntent   == [warrant |-> NoWarrant, outcome |-> "None", resolution |-> None,
               box |-> "None", revision |-> 0]

NoCall     == [warrant |-> NoWarrant, at |-> "IDLE"]

ApprovalType ==
  [root : Roots \cup {NoWarrant}, active : Warrants \cup {NoWarrant}, consumed : BOOLEAN,
   revoked : BOOLEAN, session : Sessions \cup {None}]

IntentType ==
  [warrant : Warrants \cup {NoWarrant}, outcome : Verdicts \cup {"None", "Unknown"},
   resolution : Resolutions \cup {None}, box : {"None", "HELD", "PENDING", "DELIVERED"},
   revision : 0 .. 3]

Init ==
  /\ gov = Initial
  /\ ledger = [n \in Nonces |-> NoApproval]
  /\ intents = [o \in Ops |-> NoIntent]
  /\ calls = [k \in Callers |-> NoCall]
  /\ answers = [o \in Ops |-> {}]
  /\ target = [o \in Ops |-> "None"]
  /\ uses = [n \in Nonces |-> 0]
  /\ starts = [o \in Ops |-> 0]

\* OPERATION rows of every kind in the namespace.
Rows ==
  gov.version + Cardinality({n \in Nonces : ledger[n] # NoApproval})
              + Cardinality({o \in Ops : intents[o] # NoIntent})

\* gov._write of a transaction that saw now.
Write(g, now) == Valid(g) /\ gov' = Written(gov, g, now)

-----------------------------------------------------------------------------
(* CoreWarrantLedger *)

\* _check: the warrant's window, on the ledger's clock.
InWindow(w, now) == now < w.until

\* _attenuation: a child keeps everything but its identity, and narrows scope and window.
Attenuates(p, c) ==
  /\ \A f \in {"nonce", "op", "kind", "request", "epoch"} : p[f] = c[f]
  /\ c.scope <= p.scope
  /\ c.until <= p.until

\* Mutant of Registrable: a nonce may be registered for another operation.
RegistrableAgain(w) == w \in Roots

Registrable(w) == w \in Roots /\ ledger[w.nonce] = NoApproval

approve(w, s, now) ==
  /\ InWindow(w, now)
  /\ Registrable(w)
  /\ ledger' = [ledger EXCEPT ![w.nonce] =
       [root |-> w, active |-> w, consumed |-> FALSE, revoked |-> FALSE, session |-> s]]
  /\ UNCHANGED <<gov, intents, calls, answers, target, uses, starts>>

\* Mutants of Usable: a revoked decision still admits its delegated children; a consumed
\* one may still be delegated.
UsableChild(w) ==
  /\ ledger[w.nonce] # NoApproval
  /\ ledger[w.nonce].active = w
  /\ ~ledger[w.nonce].consumed
  /\ w \in Roots => ~ledger[w.nonce].revoked
UsableAgain(w) ==
  /\ ledger[w.nonce] # NoApproval
  /\ ledger[w.nonce].active = w
  /\ ~ledger[w.nonce].revoked

\* _load_unrevoked, then the active and unconsumed tests of every use.
Usable(w) ==
  /\ ledger[w.nonce] # NoApproval
  /\ ledger[w.nonce].active = w
  /\ ~ledger[w.nonce].consumed
  /\ ~ledger[w.nonce].revoked

\* The witness is bound to the root, so revoke names the root.
revoke(w) ==
  /\ ledger[w.nonce].root = w
  /\ ledger' = [ledger EXCEPT ![w.nonce].revoked = TRUE]
  /\ UNCHANGED <<gov, intents, calls, answers, target, uses, starts>>

delegate(p, c, n1, n2) ==
  /\ InWindow(p, n1) /\ InWindow(c, n2)
  /\ Usable(p)
  /\ Attenuates(p, c)
  /\ ledger' = [ledger EXCEPT ![p.nonce].active = c]
  /\ UNCHANGED <<gov, intents, calls, answers, target, uses, starts>>

\* The warrant's one use, in START and in consume.
Consume(w) == ledger' = [ledger EXCEPT ![w.nonce].consumed = TRUE]

-----------------------------------------------------------------------------
(* CoreIntentJournal *)

Unresolved == {o \in Ops : intents[o].outcome = "Unknown"}

\* Mutants of Barrier: only this warrant's reservation is looked at; only intents are.
BarrierOwn(w)     == Entry(gov, w.request.id).state # "UNKNOWN"

\* The owner-wide barrier: no reservation and no intent with an unknown outcome.
Barrier(w) == InState(gov, {"UNKNOWN"}) = {} /\ Unresolved = {}

\* The snapshot with the warrant's reservation in it, made now unless it was made before.
Prepared(w) ==
  IF Has(gov, w.request.id) THEN gov ELSE Reserve(gov, w.request, w.epoch)

PrepareOK(w, now) ==
  \/ Existing(gov, w.request) /\ Entry(gov, w.request.id).state = "RESERVED"
  \/ ReserveOK(gov, w.request, w.epoch, now)

\* Reserved, dispatched and UNKNOWN at once.
Started(w, now) ==
  MarkUnknown(Dispatch(Prepared(w), w.request.id), w.request.id, Liability, now)

\* A zero-cost START also needs the root itself, approved in the session that starts it.
WitnessOK(w, s) ==
  w.kind = "zero" => ledger[w.nonce].root = w /\ ledger[w.nonce].session = s

\* START.  Its marker reaches the executor only if the commit is acknowledged; otherwise
\* nobody will ever send the operation.
start(w, s, now, n2, acked) ==
  /\ w.kind # "call"
  /\ Loadable(gov)
  /\ EpochOK(gov, w.epoch)
  /\ intents[w.op] = NoIntent
  /\ InWindow(w, n2)
  /\ Barrier(w)
  /\ Rows < HistoryLimit
  /\ Usable(w)
  /\ WitnessOK(w, s)
  /\ ClockOK(gov, now)
  /\ PrepareOK(w, now)
  /\ DispatchOK(Prepared(w), w.request.id, w.epoch, now)
  /\ Consume(w)
  /\ intents' = [intents EXCEPT ![w.op] =
       [warrant |-> w, outcome |-> "Unknown", resolution |-> None, box |-> "HELD", revision |-> 1]]
  /\ Write(Started(w, now), now)
  /\ target' = [target EXCEPT ![w.op] = IF acked THEN "Sent" ELSE "NotApplied"]
  /\ uses' = [uses EXCEPT ![w.nonce] = @ + (IF acked THEN 1 ELSE 0)]
  /\ starts' = [starts EXCEPT ![w.op] = @ + (IF acked THEN 1 ELSE 0)]
  /\ UNCHANGED <<calls, answers>>

\* The integrity tests of _load: intent, outbox, warrant and reservation, four records
\* written by three components, agree.
RecordsAgree(o) ==
  LET i == intents[o]
      a == ledger[i.warrant.nonce]
      r == Entry(gov, i.warrant.request.id)
  IN  /\ i.box = "HELD" <=> i.outcome = "Unknown"
      /\ i.outcome # "Unknown" => VerdictOf[i.resolution] = i.outcome
      /\ a.active = i.warrant /\ a.consumed
      /\ r.request = i.warrant.request /\ r.epoch = i.warrant.epoch

ChargeAgrees(o) ==
  LET i == intents[o]
      r == Entry(gov, i.warrant.request.id)
  IN  /\ r.state = (IF i.outcome = "Unknown" THEN "UNKNOWN" ELSE "COMMITTED")
      /\ r.evidence = (IF i.outcome = "Unknown" THEN Liability ELSE i.resolution)

Readable(o) == Loadable(gov) /\ intents[o] # NoIntent /\ RecordsAgree(o) /\ ChargeAgrees(o)

\* First half of reconcile: the verifier is asked outside any transaction.
verify(o, r) ==
  /\ Readable(o)
  /\ target[o] = VerdictOf[r]
  /\ answers' = [answers EXCEPT ![o] = @ \cup {r}]
  /\ UNCHANGED <<gov, ledger, intents, calls, target, uses, starts>>

\* Second half: its answer is applied, if no other was, in the epoch the caller names.
apply_resolution(o, e, r, now) ==
  /\ r \in answers[o]
  /\ Readable(o)
  /\ EpochOK(gov, e)
  /\ intents[o].outcome = "Unknown"
  /\ ClockOK(gov, now)
  /\ SettleOK(gov, intents[o].warrant.request.id, e)
  /\ intents' = [intents EXCEPT ![o].outcome = VerdictOf[r], ![o].resolution = r,
                                ![o].box = "PENDING", ![o].revision = @ + 1]
  /\ Write(Settle(gov, intents[o].warrant.request.id, r), now)
  /\ UNCHANGED <<ledger, calls, answers, target, uses, starts>>

\* Mutant of Deliverable: the revision the reader saw is not compared.
DeliverableAny(o, revision) == intents[o] # NoIntent

\* The outcome is known, and the reader acknowledges the very row it read.
Deliverable(o, revision) ==
  /\ intents[o].resolution # None
  /\ intents[o].revision = revision

acknowledge_delivery(o, e, revision) ==
  /\ Readable(o)
  /\ EpochOK(gov, e)
  /\ Deliverable(o, revision)
  /\ intents[o].box # "DELIVERED"
  /\ intents' = [intents EXCEPT ![o].box = "DELIVERED", ![o].revision = @ + 1]
  /\ UNCHANGED <<gov, ledger, calls, answers, target, uses, starts>>

-----------------------------------------------------------------------------
(* MetaLiveBinding: check, then consume, then dispatch_commit *)

CallIds == {w.request.id : w \in {v \in Warrants : v.kind = "call"}}

Called(k, at) == calls' = [calls EXCEPT ![k].at = at]

check(k, w, now) ==
  /\ calls[k] = NoCall
  /\ w.kind = "call"
  /\ InWindow(w, now)
  /\ Usable(w)
  /\ Loadable(gov)
  /\ gov.epoch = w.epoch /\ ~gov.kill
  /\ Existing(gov, w.request) /\ Entry(gov, w.request.id).state = "RESERVED"
  /\ calls' = [calls EXCEPT ![k] = [warrant |-> w, at |-> "CHECKED"]]
  /\ UNCHANGED <<gov, ledger, intents, answers, target, uses, starts>>

consume(k, now) ==
  /\ calls[k].at = "CHECKED"
  /\ InWindow(calls[k].warrant, now)
  /\ Usable(calls[k].warrant)
  /\ Consume(calls[k].warrant)
  /\ Called(k, "CONSUMED")
  /\ UNCHANGED <<gov, intents, answers, target, uses, starts>>

\* Mutant of Released: the reservation may be dispatched before the warrant is consumed.
ReleasedEarly(k) == calls[k].at \in {"CHECKED", "CONSUMED"}

Released(k) == calls[k].at = "CONSUMED"

dispatch_commit(k, n1, n2, acked) ==
  LET w == calls[k].warrant
  IN  /\ Released(k)
      /\ Loadable(gov)
      /\ ClockOK(gov, n2)
      /\ DispatchOK(gov, w.request.id, w.epoch, n1)
      /\ Write(Dispatch(gov, w.request.id), n2)
      /\ Called(k, IF acked THEN "SENT" ELSE "LOST")
      /\ uses' = [uses EXCEPT ![w.nonce] = @ + (IF acked THEN 1 ELSE 0)]
      /\ UNCHANGED <<ledger, intents, answers, target, starts>>

-----------------------------------------------------------------------------
(* The governor's own methods, for provider calls and by the operator *)

Govern(g, now) ==
  /\ Write(g, now)
  /\ UNCHANGED <<ledger, intents, calls, answers, target, uses, starts>>

reserve(q, e, n1, n2) ==
  /\ Loadable(gov)
  /\ ClockOK(gov, n2)
  /\ ReserveOK(gov, q, e, n1)
  /\ Govern(Reserve(gov, q, e), n2)

release_not_dispatched(id, e, now) ==
  /\ Loadable(gov)
  /\ ReconciliationClockOK(gov, now)
  /\ ReleaseOK(gov, id, e)
  /\ Govern(Release(gov, id), now)

mark_unknown(id, e, ev, n1, n2) ==
  /\ Loadable(gov)
  /\ ReconciliationClockOK(gov, n2)
  /\ UnknownOK(gov, id, e)
  /\ Govern(MarkUnknown(gov, id, ev, n1), n2)

settle(id, e, ev, now) ==
  /\ Loadable(gov)
  /\ ReconciliationClockOK(gov, now)
  /\ SettleOK(gov, id, e)
  /\ Govern(Settle(gov, id, ev), now)

start_epoch(n1, n2) ==
  /\ Loadable(gov)
  /\ n1 >= gov.last_now
  /\ gov.epoch + 1 <= MaxAmount
  /\ Govern(StartEpoch(gov, n1), Max({n2, gov.last_now}))

set_kill(active, now) ==
  /\ Loadable(gov)
  /\ active \/ ClockOK(gov, now)
  /\ gov.kill # active
  /\ Govern([gov EXCEPT !.kill = active], Max({now, gov.last_now}))

-----------------------------------------------------------------------------
(* Outside the code: the executor and the target *)

\* The operation of an acknowledged START takes effect, or never will.
act(o, v) ==
  /\ target[o] = "Sent"
  /\ target' = [target EXCEPT ![o] = v]
  /\ UNCHANGED <<gov, ledger, intents, calls, answers, uses, starts>>

-----------------------------------------------------------------------------

Owner ==
  \E w \in Warrants :
    \/ \E s \in Sessions, now \in Time : approve(w, s, now)
    \/ revoke(w)
    \/ \E c \in Warrants \ {w}, n1, n2 \in Time : delegate(w, c, n1, n2)

Journal ==
  \/ \E w \in Warrants, s \in Sessions, n1, n2 \in Time, acked \in BOOLEAN :
       start(w, s, n1, n2, acked)
  \/ \E o \in Ops, r \in Resolutions : verify(o, r)
  \/ \E o \in Ops, e \in 0 .. gov.epoch :
       \/ \E r \in Resolutions, now \in Time : apply_resolution(o, e, r, now)
       \/ \E revision \in 0 .. 3 : acknowledge_delivery(o, e, revision)

Provider ==
  \E k \in Callers :
    \/ \E w \in Warrants, now \in Time : check(k, w, now)
    \/ \E now \in Time : consume(k, now)
    \/ \E n1, n2 \in Time, acked \in BOOLEAN : dispatch_commit(k, n1, n2, acked)

\* settle and mark_unknown take any id and any evidence, an intent's included.
Governor ==
  \/ \E n1, n2 \in Time :
       \/ \E q \in Requests, e \in 0 .. gov.epoch : reserve(q, e, n1, n2)
       \/ \E id \in Ids, e \in 0 .. gov.epoch, ev \in Evidence : mark_unknown(id, e, ev, n1, n2)
       \/ start_epoch(n1, n2)
  \/ \E now \in Time :
       \/ \E id \in Ids, e \in 0 .. gov.epoch : release_not_dispatched(id, e, now)
       \/ \E id \in Ids, e \in 0 .. gov.epoch, ev \in Evidence : settle(id, e, ev, now)
       \/ \E active \in BOOLEAN : set_kill(active, now)

World == \E o \in Ops, v \in Verdicts : act(o, v)

Next == Owner \/ Journal \/ Provider \/ Governor \/ World

Spec == Init /\ [][Next]_vars

-----------------------------------------------------------------------------
(* Properties *)

\* Every record has the shape its loader insists on (_load of warrant.py, intent.py and
\* governor.py), and every reservation is filed under its own id.
TypeOK ==
  /\ SnapshotOK(gov)
  /\ ledger \in [Nonces -> ApprovalType]
  /\ intents \in [Ops -> IntentType]
  /\ calls \in [Callers -> [warrant : Warrants \cup {NoWarrant},
                            at : {"IDLE", "CHECKED", "CONSUMED", "SENT", "LOST"}]]
  /\ answers \in [Ops -> SUBSET Resolutions]
  /\ target \in [Ops -> Verdicts \cup {"None", "Sent"}]
  /\ uses \in [Nonces -> Nat]
  /\ starts \in [Ops -> Nat]

\* One human decision is one permission: whatever was delegated, retried, lost, consumed or
\* started, by START or by a provider call, a nonce lets its holder act once.
OneUsePerDecision == \A n \in Nonces : uses[n] <= 1

\* What is on record about a started operation stays readable: the intent, its outbox row,
\* the consumed warrant and the charged reservation agree through epoch changes,
\* delegation, revocation and provider traffic, and a resolved intent for ever.  One thing
\* breaks the agreement: the governor's own settle of the reservation of an intent whose
\* outcome is still unknown.  Such an intent fails _load, is never resolved, and bars its
\* owner from every further START.
IntentsStayReadable ==
  \A o \in Ops : intents[o] # NoIntent =>
    /\ RecordsAgree(o)
    /\ \/ ChargeAgrees(o)
       \/ /\ intents[o].outcome = "Unknown"
          /\ Entry(gov, intents[o].warrant.request.id).state = "COMMITTED"

\* What is delivered is what really happened, though the verifier was asked outside the
\* transaction and any number of answers raced to be applied.
DeliveredIsTrue ==
  \A o \in Ops : intents[o].box \in {"PENDING", "DELIVERED"} => intents[o].outcome = target[o]

\* A provider call is sent only on a decision that the sender itself used up: of all the
\* callers racing through check, the one whose dispatch charged the reservation is the only
\* one that consumed its decision, and a decision used up for another operation, or by
\* another caller, does not count.
SentWasConsumed ==
  \A id \in CallIds : Entry(gov, id).state \in SpentState =>
    \E k \in Callers :
      LET w == calls[k].warrant
      IN  /\ calls[k].at \in {"SENT", "LOST"} /\ w.request.id = id
          /\ ledger[w.nonce].consumed /\ ledger[w.nonce].active = w
          /\ \A j \in Callers \ {k} :
               calls[j].at \in {"CONSUMED", "SENT", "LOST"} => calls[j].warrant.nonce # w.nonce

\* After revocation a decision, and anything delegated from it, is neither consumed nor
\* delegated, and gives no permission to act but one: the dispatch of a caller that had
\* consumed it before.  (revoke does not reach a call between its consume and its dispatch.)
RevokedGrantsNothing ==
  [][\A n \in Nonces : ledger[n].revoked =>
       /\ ledger'[n].consumed = ledger[n].consumed
       /\ ledger'[n].active = ledger[n].active
       /\ uses'[n] # uses[n] =>
            \E k \in Callers : /\ calls[k].warrant.nonce = n /\ calls[k].at = "CONSUMED"
                               /\ calls'[k].at = "SENT"]_vars

\* The journal implements SerialEffects.
Effects == INSTANCE SerialEffects WITH
  Operations <- Ops,
  outcome    <- [o \in Ops |-> intents[o].outcome],
  delivered  <- {o \in Ops : intents[o].box = "DELIVERED"}

ImplementsSerialEffects == Effects!Spec

=============================================================================
