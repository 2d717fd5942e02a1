---------------------------- MODULE ServiceGuard ----------------------------
(***************************************************************************)
(* CoreServiceGuard (runtime/service_guard/service.py) with its target     *)
(* client and disposable target (runtime/service_guard/target.py), under   *)
(* the scheduler that calls cycle (runtime/mission/lite_runtime.py).       *)
(*                                                                         *)
(* A cycle is many transactions, target calls and one provider call; it is *)
(* one process per operation here, and `at' says which call comes next.    *)
(* The scheduler's mutex and the journal's file lock keep two cycles of    *)
(* one operation apart; cycles of different operations, the owner, the     *)
(* target and its own operator interleave with every call.                 *)
(*                                                                         *)
(* The governor is represented by the state of the operation's `effect-    *)
(* risk' reservation, and may refuse any call (kill switch, epoch, budget, *)
(* clock, history): module Governor is about when it does.                 *)
(***************************************************************************)
EXTENDS Integers, FiniteSets

CONSTANTS
  Ops,          \* operation ids, each bound to a scheduler of its own
  Validity,     \* validity_seconds an owner may ask for
  Proposals,    \* what the model may answer: the revision it expects, 0 for no effect
  MaxTime,      \* largest clock reading
  MaxRevision,  \* bound on the target's revision
  MaxFaults     \* bound on crashes, lost answers and failed reads

ASSUME GuardAssumption ==
  /\ Validity \subseteq Nat \ {0} /\ Proposals \subseteq Nat
  /\ MaxTime \in Nat /\ MaxRevision \in Nat \ {0} /\ MaxFaults \in Nat
  /\ "None" \notin Ops

VARIABLES
  records,  \* per operation, the phases _put has stored
  actor,    \* journal status of the operation's model call
  risk,     \* governor state of the operation's effect-risk reservation
  run,      \* per operation, the cycle under way
  lock,     \* the operation whose cycle holds _effect_lock, or "None"
  stopped,  \* operations whose scheduler was asked to stop
  report,   \* status of the last result shown by the scheduler, and (history) whether the
            \* POST had been sent by then
  target,   \* the target process's durable state
  net,      \* the POST of the operation: not sent, on its way, answered
  clock,    \* host clock; it may be set back
  full,     \* the namespace has reached its quota of AUDIT rows, which other writers share
  faults,   \* faults so far
  posts,    \* history: POSTs sent for the operation
  calls     \* history: model calls made for the operation

vars == <<records, actor, risk, run, lock, stopped, report, target, net, clock, full, faults,
          posts, calls>>

Time       == 0 .. MaxTime
Modes      == {"NORMAL", "MAINTENANCE"}
RiskStates == {"ABSENT", "RESERVED", "DISPATCHED", "UNKNOWN", "COMMITTED", "RELEASED"}
Steps      == {"idle", "observe", "actor", "answered", "propose", "decide", "allow", "reserve",
               "intend", "enter", "reread", "recheck", "commit", "post", "wait", "unknown",
               "receipt", "record", "measure", "verify", "settle"}

NoApproval == [rev |-> 0, count |-> 0, from |-> 0, until |-> 0]
NoReceipt  == [rev |-> 0, count |-> 0, late |-> FALSE]
NoView     == [mode |-> "NORMAL", rev |-> 0, count |-> 0]

NoProposal == -1

Nothing == [approval |-> NoApproval, revoked |-> FALSE, proposal |-> NoProposal,
            intent |-> FALSE, receipt |-> FALSE, verified |-> FALSE, blocked |-> FALSE]

Init ==
  /\ records = [o \in Ops |-> Nothing]
  /\ actor = [o \in Ops |-> "NONE"]
  /\ risk = [o \in Ops |-> "ABSENT"]
  /\ run = [o \in Ops |-> [at |-> "idle", seen |-> NoView]]
  /\ lock = "None"
  /\ stopped = {}
  /\ report = [o \in Ops |-> [status |-> "NONE", sent |-> FALSE]]
  /\ target = [mode |-> "NORMAL", rev |-> 1, count |-> 0, receipts |-> [o \in Ops |-> NoReceipt]]
  /\ net = [o \in Ops |-> "none"]
  /\ clock = 0
  /\ full = FALSE
  /\ faults = 0
  /\ posts = [o \in Ops |-> 0]
  /\ calls = [o \in Ops |-> 0]

-----------------------------------------------------------------------------
(* Moving a cycle along *)

durable  == <<records, actor, risk>>
world    == <<stopped, target, net, clock, full, posts, calls>>

At(o, step) == run[o].at = step
Go(o, step) == run' = [run EXCEPT ![o] = [at |-> step, seen |-> NoView]]
See(o, step) ==
  run' = [run EXCEPT ![o] = [at |-> step,
                             seen |-> [mode |-> target.mode, rev |-> target.rev, count |-> target.count]]]

\* The cycle goes on; nothing is shown yet.
Continue(o, step) == Go(o, step) /\ UNCHANGED <<report, lock, faults>>

\* The cycle returns, or an exception ends it; leaving the `with' gives the lock back.
Return(o, status) ==
  /\ Go(o, "idle")
  /\ report' = [report EXCEPT ![o] = [status |-> status, sent |-> posts[o] > 0]]
  /\ lock' = IF lock = o THEN "None" ELSE lock

Fault == faults < MaxFaults /\ faults' = faults + 1

Store(o, phase, value) == records' = [records EXCEPT ![o][phase] = value]
Put(o, phase) == Store(o, phase, TRUE)

\* The audit quota of _put: a phase that is stored already is replayed, any other needs room
\* for its audit row.  No row is ever deleted.
Room(o, phase) == ~full \/ records[o][phase]

\* _put whose commit is not acknowledged: stored or not, the cycle ends UNKNOWN.
PutLost(o, phase, value) ==
  /\ ~full
  /\ Fault
  /\ Store(o, phase, value) \/ UNCHANGED records
  /\ Return(o, "UNKNOWN")
  /\ UNCHANGED <<actor, risk>> /\ UNCHANGED world

\* The same for a governor call.
RiskLost(o, state) ==
  /\ Fault
  /\ risk' = [risk EXCEPT ![o] = state] \/ UNCHANGED risk
  /\ Return(o, "UNKNOWN")
  /\ UNCHANGED <<records, actor>> /\ UNCHANGED world

\* A target GET that fails raises TargetUnknown.  Inside the boundary the handler's
\* mark_unknown is refused, since nothing was dispatched: the same result.
ReadLost(o, step) ==
  /\ At(o, step)
  /\ Fault
  /\ Return(o, "UNKNOWN")
  /\ UNCHANGED durable /\ UNCHANGED world

-----------------------------------------------------------------------------
(* The start of a cycle *)

\* Mutants of Resume: an intent found after a restart is left alone, or taken for proof of
\* its effect.
ResumeNothing(o) == IF records[o].intent THEN "idle" ELSE "observe"

\* Any existing intent resumes through read-only reconciliation.
Resume(o) == IF records[o].intent THEN "receipt" ELSE "observe"

begin(o) ==
  /\ At(o, "idle")
  /\ o \notin stopped
  /\ ~records[o].verified /\ ~records[o].blocked
  /\ Continue(o, Resume(o))
  /\ UNCHANGED durable /\ UNCHANGED world

\* settle accepts a reservation that was dispatched, and a repetition of itself.
Settleable(o) == risk[o] \in {"DISPATCHED", "UNKNOWN", "COMMITTED"}

Settle(o) ==
  /\ Settleable(o)
  /\ risk' = [risk EXCEPT ![o] = "COMMITTED"]

\* A durable verification replays the settlement only; a refusal is shown as UNKNOWN.
replay(o) ==
  /\ At(o, "idle")
  /\ o \notin stopped
  /\ records[o].verified
  /\ \/ Settle(o) /\ Return(o, "REPLAY")
     \/ UNCHANGED risk /\ Return(o, "UNKNOWN")
  /\ UNCHANGED <<records, actor, faults>> /\ UNCHANGED world

show_blocked(o) ==
  /\ At(o, "idle")
  /\ o \notin stopped
  /\ records[o].blocked /\ ~records[o].verified
  /\ Return(o, "BLOCKED")
  /\ UNCHANGED <<faults>> /\ UNCHANGED durable /\ UNCHANGED world

\* The store cannot be read: the handler has seen no intent yet, and answers BLOCKED.
begin_unread(o) ==
  /\ At(o, "idle")
  /\ o \notin stopped
  /\ Fault
  /\ Return(o, "BLOCKED")
  /\ UNCHANGED durable /\ UNCHANGED world

-----------------------------------------------------------------------------
(* _proposal: one provider call per operation *)

\* No reservation of this trace exists, whatever became of it.
ActorFree(o) == actor[o] = "NONE"

observe(o) ==
  /\ At(o, "observe")
  /\ \/ /\ records[o].proposal # NoProposal
        /\ Continue(o, "decide")
        /\ UNCHANGED actor
     \/ /\ records[o].proposal = NoProposal
        /\ ActorFree(o)
        /\ actor' = [actor EXCEPT ![o] = "RESERVED"]
        /\ Continue(o, "actor")
     \/ /\ records[o].proposal = NoProposal      \* an earlier call, or the budget
        /\ Return(o, "BLOCKED")
        /\ UNCHANGED <<actor, faults>>
  /\ UNCHANGED <<records, risk>> /\ UNCHANGED world

request(o) ==
  /\ At(o, "actor")
  /\ \/ /\ o \notin stopped
        /\ calls' = [calls EXCEPT ![o] = @ + 1]
        /\ Continue(o, "answered")
        /\ UNCHANGED actor
     \/ /\ o \in stopped
        /\ actor' = [actor EXCEPT ![o] = "RELEASED"]
        /\ Return(o, "BLOCKED")
        /\ UNCHANGED <<calls, faults>>
  /\ UNCHANGED <<records, risk, stopped, target, net, clock, full, posts>>

\* A valid answer commits the model reservation; an error releases it or leaves it UNKNOWN.
answer(o) ==
  /\ At(o, "answered")
  /\ \/ /\ actor' = [actor EXCEPT ![o] = "COMMITTED"]
        /\ Continue(o, "propose")
     \/ \E status \in {"UNKNOWN", "RELEASED"} :
          /\ actor' = [actor EXCEPT ![o] = status]
          /\ Return(o, "BLOCKED")
          /\ UNCHANGED faults
  /\ UNCHANGED <<records, risk>> /\ UNCHANGED world

propose(o) ==
  /\ At(o, "propose")
  /\ ~full
  /\ \E p \in Proposals : Store(o, "proposal", p)
  /\ Continue(o, "decide")
  /\ UNCHANGED <<actor, risk>> /\ UNCHANGED world

-----------------------------------------------------------------------------
(* _allowed, and the way to the intent *)

Approved(o)  == records[o].approval # NoApproval
Consented(o) == Approved(o) /\ ~records[o].revoked
InForce(o)   == records[o].approval.from <= clock /\ clock < records[o].approval.until

\* What was read of the target is still what the owner approved and the model proposed.
Current(o) ==
  LET v == run[o].seen
      a == records[o].approval
  IN  /\ v.rev = a.rev /\ v.count = a.count /\ v.mode = "NORMAL"
      /\ records[o].proposal = v.rev

Allowed(o) == Consented(o) /\ InForce(o) /\ Current(o)

\* Seen by _allowed before it looks at the target: the consent ran out, which is final.
Expired(o) == Consented(o) /\ ~InForce(o)

\* An expiry is filed as it is found, before any handler runs, if there is room for it.
Filed(o, expired) == IF expired /\ ~full THEN Put(o, "blocked") ELSE UNCHANGED records

decide(o) ==
  /\ At(o, "decide")
  /\ See(o, "allow")
  /\ UNCHANGED <<report, lock, faults>> /\ UNCHANGED durable /\ UNCHANGED world

allow(o) ==
  /\ At(o, "allow")
  /\ \/ /\ Allowed(o)
        /\ Continue(o, "reserve")
        /\ UNCHANGED records
     \/ /\ ~Allowed(o)
        /\ Filed(o, Expired(o))
        /\ Return(o, "BLOCKED")
        /\ UNCHANGED faults
  /\ UNCHANGED <<actor, risk>> /\ UNCHANGED world

\* A reservation that is there already is handed back, whatever its state.
reserve(o) ==
  /\ At(o, "reserve")
  /\ \/ /\ risk' = [risk EXCEPT ![o] = IF @ = "ABSENT" THEN "RESERVED" ELSE @]
        /\ Continue(o, "intend")
     \/ /\ UNCHANGED <<risk, faults>>
        /\ Return(o, "BLOCKED")
  /\ UNCHANGED <<records, actor>> /\ UNCHANGED world

intend(o) ==
  /\ At(o, "intend")
  /\ Room(o, "intent")
  /\ Put(o, "intent")
  /\ Continue(o, "enter")
  /\ UNCHANGED <<actor, risk>> /\ UNCHANGED world

-----------------------------------------------------------------------------
(* The effect boundary: authorization.consume, _boundary_check and the POST, all under *)
(* _effect_lock                                                                        *)

\* A GuardError at the boundary: the risk is given back and the operation blocked for ever;
\* if the governor refuses, the audit quota is reached, or one of the two commits is lost,
\* less is recorded.
Deny(o, expired) ==
  /\ \/ /\ risk[o] = "RESERVED"
        /\ risk' = [risk EXCEPT ![o] = "RELEASED"]
        /\ \/ Filed(o, TRUE) /\ UNCHANGED faults
              /\ Return(o, IF full THEN "UNKNOWN" ELSE "BLOCKED")
           \/ Fault /\ Return(o, "UNKNOWN") /\ (Filed(o, expired) \/ Filed(o, TRUE))
     \/ /\ UNCHANGED <<risk, faults>>
        /\ Filed(o, expired)
        /\ Return(o, "UNKNOWN")
  /\ UNCHANGED actor

enter(o) ==
  /\ At(o, "enter")
  /\ lock = "None"
  /\ \/ /\ o \notin stopped
        /\ Go(o, "reread")
        /\ lock' = o
        /\ UNCHANGED <<report, faults>> /\ UNCHANGED durable
     \/ /\ o \in stopped
        /\ Deny(o, FALSE)
  /\ UNCHANGED world

\* The intent is stored and has no outcome.
Unspent(o) == records[o].intent /\ ~records[o].receipt /\ ~records[o].blocked

reread(o) ==
  /\ At(o, "reread")
  /\ See(o, "recheck")
  /\ UNCHANGED <<report, lock, faults>> /\ UNCHANGED durable /\ UNCHANGED world

recheck(o) ==
  /\ At(o, "recheck")
  /\ \/ /\ Allowed(o) /\ Unspent(o)
        /\ Continue(o, "commit")
        /\ UNCHANGED durable
     \/ /\ ~(Allowed(o) /\ Unspent(o))
        /\ Deny(o, Expired(o))
  /\ UNCHANGED world

\* governor.dispatch_commit; without its acknowledgement nothing is sent.
commit(o) ==
  /\ At(o, "commit")
  /\ \/ /\ risk[o] = "RESERVED"
        /\ risk' = [risk EXCEPT ![o] = "DISPATCHED"]
        /\ \/ Continue(o, "post")
           \/ Fault /\ Return(o, "UNKNOWN")
        /\ UNCHANGED <<records, actor>>
     \/ Deny(o, FALSE)
  /\ UNCHANGED world

post(o) ==
  /\ At(o, "post")
  /\ net' = [net EXCEPT ![o] = "sent"]
  /\ posts' = [posts EXCEPT ![o] = @ + 1]
  /\ Continue(o, "wait")
  /\ UNCHANGED <<stopped, target, clock, full, calls>> /\ UNCHANGED durable

\* The lock is held until the answer is in.
answered(o) ==
  /\ At(o, "wait")
  /\ net[o] = "applied"
  /\ Go(o, "receipt")
  /\ lock' = "None"
  /\ UNCHANGED <<report, faults>> /\ UNCHANGED durable /\ UNCHANGED world

\* Mutant of AfterUnknown: an unanswered POST is sent again.
AfterUnknownRetry == "post"

AfterUnknown == "unknown"

\* No answer in time, or a refusal, which the client cannot tell from a failure.
unanswered(o) ==
  /\ At(o, "wait")
  /\ \/ net[o] = "refused" /\ UNCHANGED faults
     \/ Fault
  /\ Go(o, AfterUnknown)
  /\ lock' = "None"
  /\ UNCHANGED report /\ UNCHANGED durable /\ UNCHANGED world

\* Mutants of RiskUnknown and UnknownRecords: a timed-out effect is refunded, or filed as
\* a denial.
RiskUnknownRefunded(r) == IF r = "DISPATCHED" THEN "RELEASED" ELSE r

RiskUnknown(r) == IF r = "DISPATCHED" THEN "UNKNOWN" ELSE r
UnknownRecords(o) == records

mark_unknown(o) ==
  /\ At(o, "unknown")
  /\ \/ risk' = [risk EXCEPT ![o] = RiskUnknown(@)]
     \/ UNCHANGED risk
  /\ records' = UnknownRecords(o)
  /\ Return(o, "UNKNOWN")
  /\ UNCHANGED <<actor, faults>> /\ UNCHANGED world

-----------------------------------------------------------------------------
(* _reconcile: reads only *)

Receipted(o) == target.receipts[o] # NoReceipt

\* A receipt that is dated after the expiry of the consent is refused, on every later cycle
\* too.
Accepted(o) == Receipted(o) /\ ~target.receipts[o].late

receipt(o) ==
  /\ At(o, "receipt")
  /\ \/ /\ Accepted(o)
        /\ Continue(o, "record")
     \/ /\ ~Accepted(o)
        /\ Return(o, "UNKNOWN")
        /\ UNCHANGED faults
  /\ UNCHANGED durable /\ UNCHANGED world

record(o) ==
  /\ At(o, "record")
  /\ Room(o, "receipt")
  /\ Put(o, "receipt")
  /\ Continue(o, "measure")
  /\ UNCHANGED <<actor, risk>> /\ UNCHANGED world

\* The target as measured now is what the receipt says the effect left behind.
Measured(o) ==
  /\ target.rev = target.receipts[o].rev
  /\ target.count = target.receipts[o].count
  /\ target.mode = "MAINTENANCE"

measure(o) ==
  /\ At(o, "measure")
  /\ \/ /\ Measured(o)
        /\ Continue(o, "verify")
     \/ /\ ~Measured(o)
        /\ Return(o, "UNKNOWN")
        /\ UNCHANGED faults
  /\ UNCHANGED durable /\ UNCHANGED world

verify(o) ==
  /\ At(o, "verify")
  /\ Room(o, "verified")
  /\ Put(o, "verified")
  /\ Continue(o, "settle")
  /\ UNCHANGED <<actor, risk>> /\ UNCHANGED world

settle(o) ==
  /\ At(o, "settle")
  /\ \/ Settle(o) /\ Return(o, "VERIFIED")
     \/ UNCHANGED risk /\ Return(o, "UNKNOWN")
  /\ UNCHANGED <<records, actor, faults>> /\ UNCHANGED world

\* GUARD_AUDIT_QUOTA ends the cycle with nothing stored.
overflow(o) ==
  /\ \/ At(o, "propose") /\ full /\ Return(o, "BLOCKED")
     \/ At(o, "intend") /\ ~Room(o, "intent") /\ Return(o, "BLOCKED")
     \/ At(o, "record") /\ ~Room(o, "receipt") /\ Return(o, "UNKNOWN")
     \/ At(o, "verify") /\ ~Room(o, "verified") /\ Return(o, "UNKNOWN")
  /\ UNCHANGED faults /\ UNCHANGED durable /\ UNCHANGED world

\* Every commit and every read of the cycle can be lost.
lose(o) ==
  \/ At(o, "propose") /\ \E p \in Proposals : PutLost(o, "proposal", p)
  \/ run[o].at \in {"allow", "recheck"} /\ Expired(o) /\ PutLost(o, "blocked", TRUE)
  \/ At(o, "reserve") /\ risk[o] = "ABSENT" /\ RiskLost(o, "RESERVED")
  \/ At(o, "intend") /\ PutLost(o, "intent", TRUE)
  \/ At(o, "record") /\ PutLost(o, "receipt", TRUE)
  \/ At(o, "verify") /\ PutLost(o, "verified", TRUE)
  \/ At(o, "settle") /\ Settleable(o) /\ RiskLost(o, "COMMITTED")
  \/ At(o, "idle") /\ o \notin stopped /\ records[o].verified /\ Settleable(o)
       /\ RiskLost(o, "COMMITTED")
  \/ \E step \in {"observe", "decide", "reread", "receipt", "measure"} : ReadLost(o, step)

-----------------------------------------------------------------------------
(* The owner: approve and revoke, under _effect_lock *)

approve(o, validity) ==
  /\ lock = "None"
  /\ ~Approved(o)
  /\ ~full
  /\ target.mode = "NORMAL"
  /\ records' = [records EXCEPT ![o].approval =
                   [rev |-> target.rev, count |-> target.count,
                    from |-> clock, until |-> clock + validity]]
  /\ UNCHANGED <<actor, risk, run, lock, report, faults>> /\ UNCHANGED world

\* Mutant of Revocable: revoke does not wait for the effect boundary.
RevocableAnyTime(o) == Approved(o) /\ ~records[o].revoked

\* A revocation, too, needs room for its audit row.
Revocable(o) == lock = "None" /\ Approved(o) /\ ~records[o].revoked

revoke(o) ==
  /\ Revocable(o)
  /\ Room(o, "revoked")
  /\ Put(o, "revoked")
  /\ UNCHANGED <<actor, risk, run, lock, report, faults>> /\ UNCHANGED world

-----------------------------------------------------------------------------
(* The target process *)

\* Mutant of ApplyOK: the target only looks at its mode.
ApplyOKByMode(o) == target.mode = "NORMAL"

\* The command carries the approval's revision, count and expiry.
ApplyOK(o) ==
  /\ clock < records[o].approval.until
  /\ target.mode = "NORMAL"
  /\ target.rev = records[o].approval.rev
  /\ target.count = records[o].approval.count

\* State and receipt are written together; a command seen before is answered from its
\* receipt.  The receipt is dated by a second reading of the clock, which may be past the
\* expiry that the first was before.
apply(o) ==
  /\ net[o] = "sent"
  /\ \/ /\ Receipted(o)
        /\ net' = [net EXCEPT ![o] = "applied"]
        /\ UNCHANGED target
     \/ /\ ~Receipted(o) /\ ApplyOK(o)
        /\ \E past \in BOOLEAN :
             target' = [mode |-> "MAINTENANCE", rev |-> target.rev + 1, count |-> target.count + 1,
                        receipts |-> [target.receipts EXCEPT ![o] =
                          [rev |-> target.rev + 1, count |-> target.count + 1, late |-> past]]]
        /\ net' = [net EXCEPT ![o] = "applied"]
     \/ /\ ~Receipted(o) /\ ~ApplyOK(o)
        /\ net' = [net EXCEPT ![o] = "refused"]
        /\ UNCHANGED target
  /\ UNCHANGED <<run, lock, stopped, report, clock, full, faults, posts, calls>>
  /\ UNCHANGED durable

operator_advance(mode) ==
  /\ target.rev < MaxRevision
  /\ target' = [target EXCEPT !.mode = mode, !.rev = @ + 1]
  /\ UNCHANGED <<run, lock, stopped, report, net, clock, full, faults, posts, calls>>
  /\ UNCHANGED durable

-----------------------------------------------------------------------------
(* The host *)

request_stop(o) ==
  /\ stopped' = stopped \cup {o}
  /\ o \notin stopped
  /\ Fault
  /\ UNCHANGED <<run, lock, report, target, net, clock, full, posts, calls>> /\ UNCHANGED durable

\* Opening the journal again turns a model call without an outcome into UNKNOWN.
Reopened(o) == IF actor[o] = "RESERVED" THEN "UNKNOWN" ELSE actor[o]

\* A fresh scheduler after a stop.
restart(o) ==
  /\ o \in stopped
  /\ At(o, "idle")
  /\ stopped' = stopped \ {o}
  /\ actor' = [actor EXCEPT ![o] = Reopened(o)]
  /\ UNCHANGED <<records, risk, run, lock, report, target, net, clock, full, faults, posts, calls>>

\* The Core process dies and is started again; requests on their way stay on their way.
crash ==
  /\ Fault
  /\ run' = [o \in Ops |-> [at |-> "idle", seen |-> NoView]]
  /\ lock' = "None"
  /\ stopped' = {}
  /\ actor' = [o \in Ops |-> Reopened(o)]
  /\ UNCHANGED <<records, risk, report, target, net, clock, full, posts, calls>>

\* The network loses a request.
drop(o) ==
  /\ net[o] = "sent"
  /\ Fault
  /\ net' = [net EXCEPT ![o] = "refused"]
  /\ UNCHANGED <<run, lock, stopped, report, target, clock, full, posts, calls>>
  /\ UNCHANGED durable

set_clock(t) ==
  /\ clock' = t
  /\ UNCHANGED <<run, lock, stopped, report, target, net, full, faults, posts, calls>>
  /\ UNCHANGED durable

\* The other writers of the namespace use up its audit rows.
fill ==
  /\ ~full
  /\ full' = TRUE
  /\ UNCHANGED <<run, lock, stopped, report, target, net, clock, faults, posts, calls>>
  /\ UNCHANGED durable

-----------------------------------------------------------------------------

\* What the scheduler does for one operation.
cycle(o) ==
  \/ begin(o) \/ replay(o) \/ show_blocked(o)
  \/ observe(o) \/ request(o) \/ answer(o) \/ propose(o)
  \/ decide(o) \/ allow(o) \/ reserve(o) \/ intend(o)
  \/ enter(o) \/ reread(o) \/ recheck(o) \/ commit(o) \/ post(o)
  \/ answered(o) \/ mark_unknown(o)
  \/ receipt(o) \/ record(o) \/ measure(o) \/ verify(o) \/ settle(o) \/ overflow(o)

Environment ==
  \/ \E o \in Ops :
       \/ unanswered(o) \/ begin_unread(o) \/ lose(o) \/ drop(o)
       \/ \E validity \in Validity : approve(o, validity)
       \/ revoke(o) \/ request_stop(o) \/ restart(o) \/ apply(o)
  \/ \E mode \in Modes : operator_advance(mode)
  \/ \E t \in Time : set_clock(t)
  \/ crash \/ fill

Next == (\E o \in Ops : cycle(o)) \/ Environment

Spec == Init /\ [][Next]_vars

\* run() ticks for ever and every call of a cycle returns; a stopped scheduler is replaced.
Fairness == \A o \in Ops : WF_vars(cycle(o)) /\ WF_vars(unanswered(o)) /\ WF_vars(restart(o))

FairSpec == Spec /\ Fairness

-----------------------------------------------------------------------------
(* Properties *)

ViewType == [mode : Modes, rev : Nat, count : Nat]

\* Records, journal and reservation states are ones the code stores, and _effect_lock is held
\* by exactly the cycle that is between its authorization and the answer to its POST.
TypeOK ==
  /\ records \in [Ops -> [approval : [rev : Nat, count : Nat, from : Time, until : Nat],
                          revoked : BOOLEAN, proposal : Proposals \cup {NoProposal},
                          intent : BOOLEAN, receipt : BOOLEAN, verified : BOOLEAN,
                          blocked : BOOLEAN]]
  /\ actor \in [Ops -> {"NONE", "RESERVED", "UNKNOWN", "RELEASED", "COMMITTED"}]
  /\ risk \in [Ops -> RiskStates]
  /\ run \in [Ops -> [at : Steps, seen : ViewType]]
  /\ \A o \in Ops :
       lock = o <=> run[o].at \in {"reread", "recheck", "commit", "post", "wait"}
  /\ lock \in Ops \cup {"None"}
  /\ stopped \subseteq Ops
  /\ report \in [Ops -> [status : {"NONE", "UNKNOWN", "BLOCKED", "VERIFIED", "REPLAY"},
                         sent : BOOLEAN]]
  /\ net \in [Ops -> {"none", "sent", "applied", "refused"}]
  /\ clock \in Time /\ full \in BOOLEAN /\ faults \in 0 .. MaxFaults

\* However often the process crashes, an answer is lost or the scheduler is replaced, the
\* POST of an operation is sent at most once and the model is asked at most once (cycle,
\* _proposal, _boundary_check).
OneAttempt == \A o \in Ops : posts[o] <= 1 /\ calls[o] <= 1

\* An effect lands on exactly the state the owner approved, however late its POST arrives
\* and whatever an operator or another operation did to the target in between.
EffectOnApprovedState ==
  \A o \in Ops : Receipted(o) =>
    /\ target.receipts[o].rev = records[o].approval.rev + 1
    /\ target.receipts[o].count = records[o].approval.count + 1

\* A sent operation keeps its risk charged whatever became of the answer, and is settled
\* only after its effect is verified; what is stored as verified did happen at the target,
\* by the one POST of that operation (mark_unknown, _settle_effect_risk, _reconcile).
RiskFollowsEffect ==
  \A o \in Ops :
    /\ posts[o] > 0 => risk[o] \in {"DISPATCHED", "UNKNOWN", "COMMITTED"}
    /\ risk[o] = "COMMITTED" => records[o].verified
    /\ records[o].verified => Receipted(o) /\ posts[o] = 1

\* The boundary and revoke exclude each other: once the revocation is stored no POST of the
\* operation is sent.
NothingSentAfterRevoke ==
  [][\A o \in Ops : posts'[o] > posts[o] => ~records[o].revoked]_vars

\* An effect that happened is eventually verified, through crashes and lost answers.  Three
\* things leave it unverified for ever: the target has moved on, it dated the receipt past the
\* consent's expiry, or the namespace has no audit row left for the receipt or the verdict.
EffectIsVerified ==
  \A o \in Ops :
    Accepted(o) ~> (records[o].verified \/ target.rev # target.receipts[o].rev \/ full)

\* domain_mutations of describe(): None (here -1) while UNKNOWN, 1 for a verified effect.
Displayed(o) ==
  CASE report[o].status = "UNKNOWN"                 -> -1
    [] report[o].status \in {"VERIFIED", "REPLAY"} -> 1
    [] OTHER                                        -> 0

\* docs/NV09_GUARDED_SERVICE.md: "The displayed mutation count is unknown while the outcome
\* is unresolved."  A cycle that returns after the POST was sent never displays 0.
UnresolvedIsNotZero == \A o \in Ops : report[o].sent => Displayed(o) # 0
=============================================================================
