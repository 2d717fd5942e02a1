------------------------- MODULE ServiceGuardProofs -------------------------
(* Safety of the service guard's cycle, for any operations, proposals,       *)
(* validities, clock and number of faults, and of the remote Git route that  *)
(* runs through the guard, for any number of request and worker threads.     *)
EXTENDS ServiceGuard, TLAPS

-----------------------------------------------------------------------------
(* The invariant *)

Boundary == {"reread", "recheck", "commit", "post", "wait"}   \* under _effect_lock

ApprovalType == [rev : Nat, count : Nat, from : Time, until : Nat]
RecordType   == [approval : ApprovalType, revoked : BOOLEAN,
                 proposal : Proposals \cup {NoProposal}, intent : BOOLEAN, receipt : BOOLEAN,
                 verified : BOOLEAN, blocked : BOOLEAN]
ReportType   == [status : {"NONE", "UNKNOWN", "BLOCKED", "VERIFIED", "REPLAY"}, sent : BOOLEAN]
RunType      == [at : Steps, seen : ViewType]

\* The target process keeps its revision, its count and one receipt per operation.
TargetOK ==
  /\ target.mode \in Modes /\ target.rev \in Nat /\ target.count \in Nat
  /\ target.receipts \in [Ops -> [rev : Nat, count : Nat, late : BOOLEAN]]

HistoryOK == posts \in [Ops -> 0 .. 1] /\ calls \in [Ops -> 0 .. 1]

\* The model is asked by a cycle that has just made the one reservation for it.
ActorInv(o) ==
  /\ actor[o] = "NONE" \/ At(o, "actor") => calls[o] = 0
  /\ At(o, "actor") => actor[o] # "NONE"

\* A sent POST is on the network and its risk charged for good; a cycle on its way to send
\* one holds the owner's consent and, once it has dispatched, is the first to send.
PostInv(o) ==
  /\ net[o] = "none" <=> posts[o] = 0
  /\ posts[o] > 0 => risk[o] \in {"DISPATCHED", "UNKNOWN", "COMMITTED"} /\ Approved(o)
  /\ run[o].at \in {"commit", "post"} => Consented(o)
  /\ At(o, "post") => risk[o] = "DISPATCHED" /\ posts[o] = 0

\* A receipt is of the operation's own POST and on the approved state; what is recorded as
\* verified, or about to be, has one, and only that is settled.
ReceiptInv(o) ==
  /\ Receipted(o) => /\ posts[o] = 1
                     /\ target.receipts[o].rev = records[o].approval.rev + 1
                     /\ target.receipts[o].count = records[o].approval.count + 1
  /\ run[o].at \in {"record", "measure", "verify"} => Receipted(o)
  /\ At(o, "settle") => records[o].verified
  /\ records[o].verified => Receipted(o)
  /\ risk[o] = "COMMITTED" => records[o].verified

OpInv(o) == ActorInv(o) /\ PostInv(o) /\ ReceiptInv(o)

GuardInv == TypeOK /\ TargetOK /\ HistoryOK /\ \A o \in Ops : OpInv(o)

\* The three parts of TypeOK: what is stored, where the cycles stand, the rest of the host.
StoreOK ==
  /\ records \in [Ops -> RecordType]
  /\ actor \in [Ops -> {"NONE", "RESERVED", "UNKNOWN", "RELEASED", "COMMITTED"}]
  /\ risk \in [Ops -> RiskStates]

CyclesOK ==
  /\ run \in [Ops -> RunType]
  /\ \A o \in Ops : lock = o <=> run[o].at \in Boundary
  /\ lock \in Ops \cup {"None"}
  /\ report \in [Ops -> ReportType]
  /\ faults \in 0 .. MaxFaults

HostOK ==
  /\ stopped \subseteq Ops
  /\ net \in [Ops -> {"none", "sent", "applied", "refused"}]
  /\ clock \in Time
  /\ full \in BOOLEAN

LEMMA TypeParts == TypeOK <=> StoreOK /\ CyclesOK /\ HostOK
BY DEF TypeOK, StoreOK, CyclesOK, HostOK, RecordType, ApprovalType, RunType, ReportType, Boundary

-----------------------------------------------------------------------------
(* What the pieces of an action leave *)

Others(o) == \A q \in Ops \ {o} : run'[q] = run[q]

LEMMA Went ==
  ASSUME CyclesOK, NEW o \in Ops, NEW step \in Steps, Go(o, step)
  PROVE  run' \in [Ops -> RunType] /\ run'[o].at = step /\ Others(o)
<1>1. [at |-> step, seen |-> NoView] \in RunType
  BY DEF RunType, ViewType, NoView, Modes
<1>. QED
  BY <1>1 DEF CyclesOK, Go, Others

LEMMA Seen ==
  ASSUME CyclesOK, TargetOK, NEW o \in Ops, NEW step \in Steps, See(o, step),
         step \in Boundary <=> run[o].at \in Boundary,
         UNCHANGED <<report, lock, faults>>
  PROVE  CyclesOK' /\ run'[o].at = step /\ Others(o)
<1>1. [at |-> step, seen |-> [mode |-> target.mode, rev |-> target.rev, count |-> target.count]]
        \in RunType
  BY DEF RunType, ViewType, TargetOK
<1>2. run' \in [Ops -> RunType] /\ run'[o].at = step /\ Others(o)
  BY <1>1 DEF CyclesOK, See, Others
<1>. QED
  BY <1>2 DEF CyclesOK, Others

LEMMA Continued ==
  ASSUME CyclesOK, NEW o \in Ops, NEW step \in Steps, Continue(o, step),
         step \in Boundary <=> run[o].at \in Boundary
  PROVE  CyclesOK' /\ run'[o].at = step /\ Others(o)
<1>1. run' \in [Ops -> RunType] /\ run'[o].at = step /\ Others(o)
  BY Went DEF Continue
<1>. QED
  BY <1>1 DEF CyclesOK, Others, Continue

LEMMA Returned ==
  ASSUME CyclesOK, NEW o \in Ops, NEW status \in {"UNKNOWN", "BLOCKED", "VERIFIED", "REPLAY"},
         Return(o, status), UNCHANGED faults \/ Fault
  PROVE  CyclesOK' /\ run'[o].at = "idle" /\ Others(o)
<1>1. run' \in [Ops -> RunType] /\ run'[o].at = "idle" /\ Others(o)
  BY Went DEF Return, Steps
<1>2. [status |-> status, sent |-> posts[o] > 0] \in ReportType
  BY DEF ReportType
<1>3. report' \in [Ops -> ReportType]
  BY <1>2 DEF Return, CyclesOK
<1>4. faults' \in 0 .. MaxFaults
  BY GuardAssumption DEF CyclesOK, Fault
<1>5. lock' \in Ops \cup {"None"} /\ \A q \in Ops : lock' = q <=> run'[q].at \in Boundary
  BY <1>1, GuardAssumption DEF Return, CyclesOK, Others, Boundary
<1>. QED
  BY <1>1, <1>3, <1>4, <1>5 DEF CyclesOK

\* The lock is given back without a result.
LEMMA LeftBoundary ==
  ASSUME CyclesOK, NEW o \in Ops, run[o].at \in Boundary, NEW step \in Steps \ Boundary,
         Go(o, step), lock' = "None", UNCHANGED report, UNCHANGED faults \/ Fault
  PROVE  CyclesOK' /\ run'[o].at = step /\ Others(o)
<1>1. run' \in [Ops -> RunType] /\ run'[o].at = step /\ Others(o)
  BY Went
<1>2. faults' \in 0 .. MaxFaults
  BY GuardAssumption DEF CyclesOK, Fault
<1>3. \A q \in Ops : lock' = q <=> run'[q].at \in Boundary
  BY <1>1, GuardAssumption DEF CyclesOK, Others, Boundary
<1>. QED
  BY <1>1, <1>2, <1>3 DEF CyclesOK

\* The approval, its revocation and the verification stay as they are.
SameConsent(q) ==
  /\ records'[q].approval = records[q].approval
  /\ records'[q].revoked = records[q].revoked
  /\ records'[q].verified = records[q].verified

\* Every other phase may be filed without touching them.
LEMMA Filing ==
  ASSUME records \in [Ops -> RecordType], NEW o \in Ops,
         \/ UNCHANGED records
         \/ \E p \in Proposals : Store(o, "proposal", p)
         \/ Put(o, "intent") \/ Put(o, "receipt") \/ Put(o, "blocked")
  PROVE  records' \in [Ops -> RecordType] /\ \A q \in Ops : SameConsent(q)
<1>1. ASSUME NEW p \in Proposals, Store(o, "proposal", p)
      PROVE  records' \in [Ops -> RecordType] /\ \A q \in Ops : SameConsent(q)
  BY <1>1 DEF Store, RecordType, SameConsent
<1>2. CASE Put(o, "intent")
  BY <1>2 DEF Put, Store, RecordType, SameConsent
<1>3. CASE Put(o, "receipt")
  BY <1>3 DEF Put, Store, RecordType, SameConsent
<1>4. CASE Put(o, "blocked")
  BY <1>4 DEF Put, Store, RecordType, SameConsent
<1>. QED
  BY <1>1, <1>2, <1>3, <1>4 DEF SameConsent

\* So may the verification and the revocation, which change just that.
LEMMA FilingVerified ==
  ASSUME records \in [Ops -> RecordType], NEW o \in Ops, Put(o, "verified")
  PROVE  /\ records' \in [Ops -> RecordType]
         /\ records'[o].approval = records[o].approval /\ records'[o].revoked = records[o].revoked
         /\ records'[o].verified
         /\ \A q \in Ops \ {o} : SameConsent(q)
BY DEF Put, Store, RecordType, SameConsent

LEMMA FilingRevoked ==
  ASSUME records \in [Ops -> RecordType], NEW o \in Ops, Put(o, "revoked")
  PROVE  /\ records' \in [Ops -> RecordType]
         /\ records'[o].approval = records[o].approval /\ records'[o].verified = records[o].verified
         /\ \A q \in Ops \ {o} : SameConsent(q)
BY DEF Put, Store, RecordType, SameConsent

-----------------------------------------------------------------------------
(* What keeps the invariant of one operation *)

SameOutside(q) ==
  /\ posts'[q] = posts[q] /\ calls'[q] = calls[q]
  /\ net'[q] = net[q] /\ target'.receipts[q] = target.receipts[q]

\* Nothing the invariant of q speaks of changes.
Untouched(q) ==
  /\ run'[q].at = run[q].at
  /\ SameConsent(q) /\ SameOutside(q)
  /\ actor'[q] = actor[q] /\ risk'[q] = risk[q]

LEMMA UntouchedKeeps ==
  ASSUME NEW q \in Ops, OpInv(q), Untouched(q)
  PROVE  OpInv(q)'
BY DEF OpInv, Untouched, SameConsent, SameOutside, ActorInv, PostInv, ReceiptInv, At, Approved,
       Consented, Receipted

Spent == {"DISPATCHED", "UNKNOWN", "COMMITTED"}

\* What a call of the governor may do to the reservation of q.
RiskStep(q) ==
  \/ risk'[q] = risk[q]
  \/ risk[q] \notin Spent /\ risk'[q] # "COMMITTED"
  \/ risk[q] = "DISPATCHED" /\ risk'[q] = "UNKNOWN"
  \/ risk[q] \in Spent /\ risk'[q] = "COMMITTED" /\ records[q].verified

\* Steps the invariant demands something for.
Marked == {"actor", "commit", "post", "record", "measure", "verify", "settle"}

\* A cycle that goes on to any other step, or ends, needs no more than this.
LEMMA PlainKeeps ==
  ASSUME NEW q \in Ops, OpInv(q), run'[q].at \notin Marked, SameConsent(q), SameOutside(q),
         actor'[q] = "NONE" => actor[q] = "NONE", RiskStep(q)
  PROVE  OpInv(q)'
BY DEF OpInv, SameConsent, SameOutside, ActorInv, PostInv, ReceiptInv, At, Approved,
       Consented, Receipted, RiskStep, Spent, Marked

\* A step of o's cycle that leaves the others alone keeps the whole invariant.
LEMMA CycleKeeps ==
  ASSUME GuardInv, NEW o \in Ops, StoreOK', CyclesOK', HostOK', TargetOK', HistoryOK',
         OpInv(o)', \A q \in Ops \ {o} : Untouched(q)
  PROVE  GuardInv'
<1>1. \A q \in Ops \ {o} : OpInv(q)'
  BY UntouchedKeeps DEF GuardInv
<1>2. TypeOK'
  BY TypeParts, PTL
<1>. QED
  BY <1>1, <1>2 DEF GuardInv

LEMMA WorldStays ==
  ASSUME GuardInv, UNCHANGED world
  PROVE  HostOK' /\ TargetOK' /\ HistoryOK' /\ \A q \in Ops : SameOutside(q)
BY TypeParts DEF GuardInv, world, HostOK, TargetOK, HistoryOK, SameOutside

\* The ordinary step of a cycle: records filed, a governor call, on to an unmarked step.
LEMMA PlainStep ==
  ASSUME GuardInv, NEW o \in Ops, StoreOK', CyclesOK', UNCHANGED world,
         run'[o].at \notin Marked, Others(o), \A q \in Ops : SameConsent(q),
         actor'[o] = "NONE" => actor[o] = "NONE", RiskStep(o),
         \A q \in Ops \ {o} : actor'[q] = actor[q] /\ risk'[q] = risk[q]
  PROVE  GuardInv'
<1>1. HostOK' /\ TargetOK' /\ HistoryOK' /\ \A q \in Ops : SameOutside(q)
  BY WorldStays
<1>2. OpInv(o)'
  BY <1>1, PlainKeeps DEF GuardInv
<1>3. \A q \in Ops \ {o} : Untouched(q)
  BY <1>1 DEF Untouched, Others
<1>. QED
  BY <1>1, <1>2, <1>3, CycleKeeps

LEMMA StoreStays ==
  ASSUME GuardInv, NEW o \in Ops, UNCHANGED durable
  PROVE  /\ StoreOK' /\ \A q \in Ops : SameConsent(q) /\ actor'[q] = actor[q] /\ risk'[q] = risk[q]
         /\ RiskStep(o)
BY TypeParts DEF GuardInv, durable, StoreOK, SameConsent, RiskStep

\* Steps that only read, and end the cycle or go on to an unmarked step.
LEMMA ReadingStep ==
  ASSUME GuardInv, NEW o \in Ops, CyclesOK', UNCHANGED durable, UNCHANGED world,
         run'[o].at \notin Marked, Others(o)
  PROVE  GuardInv'
BY StoreStays, PlainStep

\* What the invariant says of types, in one place.
LEMMA GuardTypes ==
  ASSUME GuardInv
  PROVE  StoreOK /\ CyclesOK /\ HostOK /\ TargetOK /\ HistoryOK /\ \A q \in Ops : OpInv(q)
BY TypeParts DEF GuardInv

\* A governor call on o's reservation: its new state is one the governor stores.
LEMMA RiskStored ==
  ASSUME StoreOK, NEW o \in Ops, NEW state \in RiskStates, UNCHANGED actor,
         risk' = [risk EXCEPT ![o] = state]
  PROVE  /\ risk' \in [Ops -> RiskStates] /\ risk'[o] = state
         /\ \A q \in Ops \ {o} : risk'[q] = risk[q]
BY DEF StoreOK

-----------------------------------------------------------------------------
(* The start of a cycle *)

LEMMA BeginKeeps ==
  ASSUME GuardInv, NEW o \in Ops, begin(o)
  PROVE  GuardInv'
<1>1. Resume(o) \in {"receipt", "observe"} /\ Resume(o) \in Steps
  BY DEF Resume, Steps
<1>2. CyclesOK' /\ run'[o].at = Resume(o) /\ Others(o)
  BY <1>1, GuardTypes, Continued DEF begin, At, Boundary
<1>. QED
  BY <1>1, <1>2, ReadingStep DEF begin, Marked

\* Settling what is verified.
LEMMA SettleKeeps ==
  ASSUME GuardInv, NEW o \in Ops, records[o].verified, Settle(o) \/ UNCHANGED risk,
         UNCHANGED <<records, actor>>, UNCHANGED world, CyclesOK', run'[o].at = "idle", Others(o)
  PROVE  GuardInv'
<1>1. StoreOK
  BY GuardTypes
<1>2. /\ StoreOK' /\ RiskStep(o) /\ \A q \in Ops : SameConsent(q)
      /\ \A q \in Ops \ {o} : actor'[q] = actor[q] /\ risk'[q] = risk[q]
      /\ actor'[o] = actor[o]
  BY <1>1 DEF StoreOK, RiskStates, RiskStep, Settle, Settleable, Spent, SameConsent
<1>. QED
  BY <1>2, PlainStep DEF Marked

LEMMA ReplayKeeps ==
  ASSUME GuardInv, NEW o \in Ops, replay(o)
  PROVE  GuardInv'
<1>1. CyclesOK' /\ run'[o].at = "idle" /\ Others(o)
  BY GuardTypes, Returned DEF replay
<1>. QED
  BY <1>1, SettleKeeps DEF replay

LEMMA ShowBlockedKeeps ==
  ASSUME GuardInv, NEW o \in Ops, show_blocked(o) \/ begin_unread(o)
  PROVE  GuardInv'
<1>1. CyclesOK' /\ run'[o].at = "idle" /\ Others(o)
  BY GuardTypes, Returned DEF show_blocked, begin_unread
<1>. QED
  BY <1>1, ReadingStep DEF show_blocked, begin_unread, Marked

-----------------------------------------------------------------------------
(* The proposal *)

LEMMA ObserveKeeps ==
  ASSUME GuardInv, NEW o \in Ops, observe(o)
  PROVE  GuardInv'
<1>0. StoreOK /\ CyclesOK /\ OpInv(o) /\ run[o].at = "observe" /\ UNCHANGED world
  BY GuardTypes DEF observe, At
<1>1. CASE /\ Continue(o, "decide") /\ UNCHANGED actor
  <2>1. CyclesOK' /\ run'[o].at = "decide" /\ Others(o)
    BY <1>0, <1>1, Continued DEF Boundary, Steps
  <2>. QED
    BY <1>0, <1>1, <2>1, ReadingStep DEF observe, Marked, durable
<1>2. CASE /\ ActorFree(o) /\ actor' = [actor EXCEPT ![o] = "RESERVED"] /\ Continue(o, "actor")
  <2>1. CyclesOK' /\ run'[o].at = "actor" /\ Others(o)
    BY <1>0, <1>2, Continued DEF Boundary, Steps
  <2>2. UNCHANGED <<records, risk>>
    BY DEF observe
  <2>3. HostOK' /\ TargetOK' /\ HistoryOK' /\ \A q \in Ops : SameOutside(q)
    BY <1>0, WorldStays
  <2>4. StoreOK' /\ \A q \in Ops \ {o} : Untouched(q)
    BY <1>0, <1>2, <2>1, <2>2, <2>3 DEF StoreOK, Untouched, Others, SameConsent
  <2>5. OpInv(o)'
    BY <1>0, <1>2, <2>1, <2>2, <2>3
    DEF OpInv, SameOutside, ActorInv, PostInv, ReceiptInv, At, Approved, Consented, Receipted,
        ActorFree, StoreOK
  <2>. QED
    BY <2>1, <2>3, <2>4, <2>5, CycleKeeps
<1>3. CASE Return(o, "BLOCKED") /\ UNCHANGED <<actor, faults>>
  <2>1. CyclesOK' /\ run'[o].at = "idle" /\ Others(o)
    BY <1>0, <1>3, Returned
  <2>. QED
    BY <1>0, <1>3, <2>1, ReadingStep DEF observe, Marked, durable
<1>. QED
  BY <1>1, <1>2, <1>3 DEF observe

LEMMA RequestKeeps ==
  ASSUME GuardInv, NEW o \in Ops, request(o)
  PROVE  GuardInv'
<1>0. /\ StoreOK /\ CyclesOK /\ OpInv(o) /\ run[o].at = "actor" /\ HistoryOK
      /\ UNCHANGED <<records, risk, stopped, target, net, clock, full, posts>>
  BY GuardTypes DEF request, At
<1>1. CASE /\ calls' = [calls EXCEPT ![o] = @ + 1] /\ Continue(o, "answered") /\ UNCHANGED actor
  <2>1. CyclesOK' /\ run'[o].at = "answered" /\ Others(o)
    BY <1>0, <1>1, Continued DEF Boundary, Steps
  <2>2. calls[o] = 0 /\ actor[o] # "NONE"
    BY <1>0 DEF OpInv, ActorInv, At
  <2>3. /\ calls' \in [Ops -> 0 .. 1] /\ calls'[o] = 1
        /\ \A q \in Ops \ {o} : calls'[q] = calls[q]
    BY <1>0, <1>1, <2>2 DEF HistoryOK
  <2>4. StoreOK' /\ HostOK' /\ TargetOK' /\ HistoryOK'
    BY <1>0, <1>1, <2>3, GuardTypes DEF StoreOK, HostOK, TargetOK, HistoryOK
  <2>5. \A q \in Ops \ {o} : Untouched(q)
    BY <1>0, <1>1, <2>1, <2>3 DEF Untouched, Others, SameConsent, SameOutside
  <2>6. OpInv(o)'
    BY <1>0, <1>1, <2>1, <2>2, <2>3
    DEF OpInv, ActorInv, PostInv, ReceiptInv, At, Approved, Consented, Receipted
  <2>. QED
    BY <2>1, <2>4, <2>5, <2>6, CycleKeeps
<1>2. CASE /\ actor' = [actor EXCEPT ![o] = "RELEASED"] /\ Return(o, "BLOCKED")
           /\ UNCHANGED <<calls, faults>>
  <2>1. CyclesOK' /\ run'[o].at = "idle" /\ Others(o)
    BY <1>0, <1>2, Returned
  <2>. QED
    BY <1>0, <1>2, <2>1, PlainStep DEF Marked, StoreOK, world, SameConsent, RiskStep
<1>. QED
  BY <1>1, <1>2 DEF request

LEMMA AnswerKeeps ==
  ASSUME GuardInv, NEW o \in Ops, answer(o)
  PROVE  GuardInv'
<1>0. /\ StoreOK /\ CyclesOK /\ run[o].at = "answered" /\ UNCHANGED <<records, risk>>
      /\ UNCHANGED world
  BY GuardTypes DEF answer, At
<1>1. PICK status \in {"COMMITTED", "UNKNOWN", "RELEASED"} :
        /\ actor' = [actor EXCEPT ![o] = status]
        /\ Continue(o, "propose") \/ (Return(o, "BLOCKED") /\ UNCHANGED faults)
  BY DEF answer
<1>2. CyclesOK' /\ run'[o].at \in {"propose", "idle"} /\ Others(o)
  BY <1>0, <1>1, Continued, Returned DEF Boundary, Steps
<1>. QED
  BY <1>0, <1>1, <1>2, PlainStep DEF Marked, StoreOK, SameConsent, RiskStep

LEMMA ProposeKeeps ==
  ASSUME GuardInv, NEW o \in Ops, propose(o)
  PROVE  GuardInv'
<1>0. StoreOK /\ CyclesOK /\ run[o].at = "propose" /\ UNCHANGED <<actor, risk>> /\ UNCHANGED world
  BY GuardTypes DEF propose, At
<1>1. records' \in [Ops -> RecordType] /\ \A q \in Ops : SameConsent(q)
  BY <1>0, Filing DEF propose, StoreOK
<1>2. CyclesOK' /\ run'[o].at = "decide" /\ Others(o)
  BY <1>0, Continued DEF propose, Boundary, Steps
<1>. QED
  BY <1>0, <1>1, <1>2, PlainStep DEF Marked, StoreOK, RiskStep

-----------------------------------------------------------------------------
(* The way to the intent *)

LEMMA LookKeeps ==
  ASSUME GuardInv, NEW o \in Ops, decide(o) \/ reread(o)
  PROVE  GuardInv'
<1>1. CyclesOK' /\ run'[o].at \in {"allow", "recheck"} /\ Others(o)
  BY GuardTypes, Seen DEF decide, reread, At, Boundary, Steps
<1>. QED
  BY <1>1, ReadingStep DEF decide, reread, Marked

\* A cycle that files at most a block or another plain phase, and calls no governor.
LEMMA FilingStep ==
  ASSUME GuardInv, NEW o \in Ops, UNCHANGED <<actor, risk>>, UNCHANGED world, CyclesOK',
         run'[o].at \notin Marked, Others(o),
         \/ UNCHANGED records
         \/ \E p \in Proposals : Store(o, "proposal", p)
         \/ Put(o, "intent") \/ Put(o, "receipt") \/ Put(o, "blocked")
  PROVE  GuardInv'
<1>0. StoreOK
  BY GuardTypes
<1>1. records' \in [Ops -> RecordType] /\ \A q \in Ops : SameConsent(q)
  BY <1>0, Filing DEF StoreOK
<1>. QED
  BY <1>0, <1>1, PlainStep DEF StoreOK, RiskStep

LEMMA AllowKeeps ==
  ASSUME GuardInv, NEW o \in Ops, allow(o)
  PROVE  GuardInv'
<1>1. CyclesOK' /\ run'[o].at \in {"reserve", "idle"} /\ Others(o)
  BY GuardTypes, Continued, Returned DEF allow, At, Boundary, Steps
<1>. QED
  BY <1>1, FilingStep DEF allow, Filed, Marked

LEMMA ReserveKeeps ==
  ASSUME GuardInv, NEW o \in Ops, reserve(o)
  PROVE  GuardInv'
<1>0. /\ StoreOK /\ CyclesOK /\ run[o].at = "reserve"
      /\ UNCHANGED <<records, actor>> /\ UNCHANGED world
  BY GuardTypes DEF reserve, At
<1>1. CyclesOK' /\ run'[o].at \in {"intend", "idle"} /\ Others(o)
  BY <1>0, Continued, Returned DEF reserve, Boundary, Steps
<1>2. /\ risk' \in [Ops -> RiskStates] /\ RiskStep(o)
      /\ \A q \in Ops \ {o} : risk'[q] = risk[q]
  BY <1>0 DEF reserve, StoreOK, RiskStates, RiskStep, Spent
<1>. QED
  BY <1>0, <1>1, <1>2, PlainStep DEF Marked, StoreOK, SameConsent

LEMMA IntendKeeps ==
  ASSUME GuardInv, NEW o \in Ops, intend(o)
  PROVE  GuardInv'
<1>1. CyclesOK' /\ run'[o].at = "enter" /\ Others(o)
  BY GuardTypes, Continued DEF intend, At, Boundary, Steps
<1>. QED
  BY <1>1, FilingStep DEF intend, Marked

-----------------------------------------------------------------------------
(* The effect boundary *)

LEMMA DenyKeeps ==
  ASSUME GuardInv, NEW o \in Ops, NEW expired \in BOOLEAN, Deny(o, expired), UNCHANGED world
  PROVE  GuardInv'
<1>0. StoreOK /\ CyclesOK /\ UNCHANGED actor
  BY GuardTypes DEF Deny
<1>1. CyclesOK' /\ run'[o].at = "idle" /\ Others(o)
  BY <1>0, Returned DEF Deny
<1>2. records' \in [Ops -> RecordType] /\ \A q \in Ops : SameConsent(q)
  BY <1>0, Filing DEF Deny, Filed, StoreOK
<1>3. /\ risk' \in [Ops -> RiskStates] /\ RiskStep(o)
      /\ \A q \in Ops \ {o} : risk'[q] = risk[q]
  BY <1>0 DEF Deny, StoreOK, RiskStates, RiskStep, Spent
<1>. QED
  BY <1>0, <1>1, <1>2, <1>3, PlainStep DEF Marked, StoreOK

LEMMA EnterKeeps ==
  ASSUME GuardInv, NEW o \in Ops, enter(o)
  PROVE  GuardInv'
<1>0. CyclesOK /\ run[o].at = "enter" /\ lock = "None" /\ UNCHANGED world
  BY GuardTypes DEF enter, At
<1>1. CASE Go(o, "reread") /\ lock' = o /\ UNCHANGED <<report, faults>> /\ UNCHANGED durable
  <2>1. run' \in [Ops -> RunType] /\ run'[o].at = "reread" /\ Others(o)
    BY <1>0, <1>1, Went DEF Steps
  <2>2. CyclesOK'
    BY <1>0, <1>1, <2>1, GuardAssumption DEF CyclesOK, Others, Boundary
  <2>. QED
    BY <1>0, <1>1, <2>1, <2>2, ReadingStep DEF Marked
<1>2. CASE Deny(o, FALSE)
  BY <1>0, <1>2, DenyKeeps
<1>. QED
  BY <1>1, <1>2 DEF enter

LEMMA RecheckKeeps ==
  ASSUME GuardInv, NEW o \in Ops, recheck(o)
  PROVE  GuardInv'
<1>0. CyclesOK /\ run[o].at = "recheck" /\ OpInv(o) /\ UNCHANGED world
  BY GuardTypes DEF recheck, At
<1>1. CASE Allowed(o) /\ Continue(o, "commit") /\ UNCHANGED durable
  <2>1. CyclesOK' /\ run'[o].at = "commit" /\ Others(o)
    BY <1>0, <1>1, Continued DEF Boundary, Steps
  <2>2. HostOK' /\ TargetOK' /\ HistoryOK' /\ \A q \in Ops : SameOutside(q)
    BY <1>0, WorldStays
  <2>3. StoreOK' /\ \A q \in Ops : SameConsent(q) /\ actor'[q] = actor[q] /\ risk'[q] = risk[q]
    BY <1>1, StoreStays
  <2>4. \A q \in Ops \ {o} : Untouched(q)
    BY <2>1, <2>2, <2>3 DEF Untouched, Others
  <2>5. OpInv(o)'
    BY <1>0, <1>1, <2>1, <2>2, <2>3
    DEF OpInv, SameOutside, SameConsent, ActorInv, PostInv, ReceiptInv, At, Approved, Consented,
        Receipted, Allowed
  <2>. QED
    BY <2>1, <2>2, <2>3, <2>4, <2>5, CycleKeeps
<1>2. CASE Deny(o, Expired(o))
  BY <1>0, <1>2, DenyKeeps DEF Expired
<1>. QED
  BY <1>1, <1>2 DEF recheck

LEMMA CommitKeeps ==
  ASSUME GuardInv, NEW o \in Ops, commit(o)
  PROVE  GuardInv'
<1>0. StoreOK /\ CyclesOK /\ run[o].at = "commit" /\ OpInv(o) /\ HistoryOK /\ UNCHANGED world
  BY GuardTypes DEF commit, At
<1>1. ASSUME risk[o] = "RESERVED", risk' = [risk EXCEPT ![o] = "DISPATCHED"],
             Continue(o, "post") \/ (Fault /\ Return(o, "UNKNOWN")), UNCHANGED <<records, actor>>
      PROVE  GuardInv'
  <2>1. StoreOK' /\ \A q \in Ops : SameConsent(q)
    BY <1>0, <1>1 DEF StoreOK, RiskStates, SameConsent
  <2>2. risk'[o] = "DISPATCHED" /\ \A q \in Ops \ {o} : risk'[q] = risk[q]
    BY <1>0, <1>1 DEF StoreOK
  <2>3. CyclesOK' /\ run'[o].at \in {"post", "idle"} /\ Others(o)
    BY <1>0, <1>1, Continued, Returned DEF Boundary, Steps
  <2>4. HostOK' /\ TargetOK' /\ HistoryOK' /\ \A q \in Ops : SameOutside(q)
    BY <1>0, WorldStays
  <2>5. \A q \in Ops \ {o} : Untouched(q)
    BY <1>1, <2>1, <2>2, <2>3, <2>4 DEF Untouched, Others
  <2>6. posts[o] = 0
    BY <1>0, <1>1 DEF OpInv, PostInv, HistoryOK
  <2>7. OpInv(o)'
    BY <1>0, <1>1, <2>1, <2>2, <2>3, <2>4, <2>6
    DEF OpInv, SameOutside, SameConsent, ActorInv, PostInv, ReceiptInv, At, Approved, Consented,
        Receipted
  <2>. QED
    BY <2>1, <2>3, <2>4, <2>5, <2>7, CycleKeeps
<1>2. CASE Deny(o, FALSE)
  BY <1>0, <1>2, DenyKeeps
<1>. QED
  BY <1>1, <1>2 DEF commit

LEMMA PostKeeps ==
  ASSUME GuardInv, NEW o \in Ops, post(o)
  PROVE  GuardInv'
<1>0. /\ StoreOK /\ CyclesOK /\ HostOK /\ TargetOK /\ HistoryOK /\ OpInv(o) /\ run[o].at = "post"
      /\ UNCHANGED <<stopped, target, clock, full, calls>> /\ UNCHANGED durable
  BY GuardTypes DEF post, At
<1>1. CyclesOK' /\ run'[o].at = "wait" /\ Others(o)
  BY <1>0, Continued DEF post, Boundary, Steps
<1>2. posts[o] = 0 /\ risk[o] = "DISPATCHED" /\ Approved(o)
  BY <1>0 DEF OpInv, PostInv, At, Consented
<1>3. /\ posts' \in [Ops -> 0 .. 1] /\ posts'[o] = 1
      /\ \A q \in Ops \ {o} : posts'[q] = posts[q]
  BY <1>0, <1>2 DEF post, HistoryOK
<1>4. /\ net' \in [Ops -> {"none", "sent", "applied", "refused"}] /\ net'[o] = "sent"
      /\ \A q \in Ops \ {o} : net'[q] = net[q]
  BY <1>0 DEF post, HostOK
<1>5. HostOK' /\ TargetOK' /\ HistoryOK'
  BY <1>0, <1>3, <1>4 DEF HostOK, TargetOK, HistoryOK
<1>6. StoreOK' /\ \A q \in Ops : SameConsent(q) /\ actor'[q] = actor[q] /\ risk'[q] = risk[q]
  BY <1>0, StoreStays
<1>7. \A q \in Ops \ {o} : Untouched(q)
  BY <1>0, <1>1, <1>3, <1>4, <1>6 DEF Untouched, Others, SameOutside
<1>8. OpInv(o)'
  BY <1>0, <1>1, <1>2, <1>3, <1>4, <1>6
  DEF OpInv, SameConsent, ActorInv, PostInv, ReceiptInv, At, Approved, Consented, Receipted
<1>. QED
  BY <1>1, <1>5, <1>6, <1>7, <1>8, CycleKeeps

LEMMA AnsweredKeeps ==
  ASSUME GuardInv, NEW o \in Ops, answered(o) \/ unanswered(o)
  PROVE  GuardInv'
<1>1. CyclesOK' /\ run'[o].at \in {"receipt", "unknown"} /\ Others(o)
  BY GuardTypes, LeftBoundary DEF answered, unanswered, AfterUnknown, At, Boundary, Steps
<1>. QED
  BY <1>1, ReadingStep DEF answered, unanswered, Marked

LEMMA MarkUnknownKeeps ==
  ASSUME GuardInv, NEW o \in Ops, mark_unknown(o)
  PROVE  GuardInv'
<1>0. StoreOK /\ CyclesOK /\ UNCHANGED <<records, actor>> /\ UNCHANGED world
  BY GuardTypes DEF mark_unknown, UnknownRecords
<1>1. CyclesOK' /\ run'[o].at = "idle" /\ Others(o)
  BY <1>0, Returned DEF mark_unknown
<1>2. /\ risk' \in [Ops -> RiskStates] /\ RiskStep(o)
      /\ \A q \in Ops \ {o} : risk'[q] = risk[q]
  BY <1>0 DEF mark_unknown, RiskUnknown, StoreOK, RiskStates, RiskStep, Spent
<1>. QED
  BY <1>0, <1>1, <1>2, PlainStep DEF Marked, StoreOK, SameConsent

-----------------------------------------------------------------------------
(* Reconciliation *)

\* On to a step of the reconciliation, with the receipt there.
LEMMA ReceiptStep ==
  ASSUME GuardInv, NEW o \in Ops, CyclesOK', UNCHANGED <<actor, risk>>, UNCHANGED world,
         run'[o].at \in {"record", "measure", "verify"}, Others(o), Receipted(o),
         UNCHANGED records \/ Put(o, "receipt")
  PROVE  GuardInv'
<1>0. StoreOK /\ OpInv(o)
  BY GuardTypes
<1>1. records' \in [Ops -> RecordType] /\ \A q \in Ops : SameConsent(q)
  BY <1>0, Filing DEF StoreOK
<1>2. HostOK' /\ TargetOK' /\ HistoryOK' /\ \A q \in Ops : SameOutside(q)
  BY WorldStays
<1>3. StoreOK' /\ \A q \in Ops \ {o} : Untouched(q)
  BY <1>0, <1>1, <1>2 DEF StoreOK, Untouched, Others
<1>4. OpInv(o)'
  BY <1>0, <1>1, <1>2
  DEF OpInv, SameOutside, SameConsent, ActorInv, PostInv, ReceiptInv, At, Approved, Consented,
      Receipted
<1>. QED
  BY <1>2, <1>3, <1>4, CycleKeeps

LEMMA ReceiptKeeps ==
  ASSUME GuardInv, NEW o \in Ops, receipt(o)
  PROVE  GuardInv'
<1>0. CyclesOK /\ run[o].at = "receipt" /\ UNCHANGED durable /\ UNCHANGED world
  BY GuardTypes DEF receipt, At
<1>1. CASE Accepted(o) /\ Continue(o, "record")
  <2>1. CyclesOK' /\ run'[o].at = "record" /\ Others(o)
    BY <1>0, <1>1, Continued DEF Boundary, Steps
  <2>. QED
    BY <1>0, <1>1, <2>1, ReceiptStep DEF durable, Accepted
<1>2. CASE Return(o, "UNKNOWN") /\ UNCHANGED faults
  <2>1. CyclesOK' /\ run'[o].at = "idle" /\ Others(o)
    BY <1>0, <1>2, Returned
  <2>. QED
    BY <1>0, <2>1, ReadingStep DEF Marked
<1>. QED
  BY <1>1, <1>2 DEF receipt

LEMMA RecordKeeps ==
  ASSUME GuardInv, NEW o \in Ops, record(o)
  PROVE  GuardInv'
<1>0. CyclesOK /\ run[o].at = "record" /\ Receipted(o)
  BY GuardTypes DEF record, At, OpInv, ReceiptInv
<1>1. CyclesOK' /\ run'[o].at = "measure" /\ Others(o)
  BY <1>0, Continued DEF record, Boundary, Steps
<1>. QED
  BY <1>0, <1>1, ReceiptStep DEF record

LEMMA MeasureKeeps ==
  ASSUME GuardInv, NEW o \in Ops, measure(o)
  PROVE  GuardInv'
<1>0. /\ CyclesOK /\ run[o].at = "measure" /\ Receipted(o)
      /\ UNCHANGED durable /\ UNCHANGED world
  BY GuardTypes DEF measure, At, OpInv, ReceiptInv
<1>1. CASE Continue(o, "verify")
  <2>1. CyclesOK' /\ run'[o].at = "verify" /\ Others(o)
    BY <1>0, <1>1, Continued DEF Boundary, Steps
  <2>. QED
    BY <1>0, <1>1, <2>1, ReceiptStep DEF durable
<1>2. CASE Return(o, "UNKNOWN") /\ UNCHANGED faults
  <2>1. CyclesOK' /\ run'[o].at = "idle" /\ Others(o)
    BY <1>0, <1>2, Returned
  <2>. QED
    BY <1>0, <2>1, ReadingStep DEF Marked
<1>. QED
  BY <1>1, <1>2 DEF measure

\* The verification is stored, acknowledged or not.
LEMMA VerifiedStep ==
  ASSUME GuardInv, NEW o \in Ops, At(o, "verify"), CyclesOK', UNCHANGED <<actor, risk>>,
         UNCHANGED world, run'[o].at \in {"settle", "idle"}, Others(o), Put(o, "verified")
  PROVE  GuardInv'
<1>0. StoreOK /\ OpInv(o) /\ Receipted(o)
  BY GuardTypes DEF OpInv, ReceiptInv, At
<1>1. /\ records' \in [Ops -> RecordType]
      /\ records'[o].approval = records[o].approval /\ records'[o].revoked = records[o].revoked
      /\ records'[o].verified
      /\ \A q \in Ops \ {o} : SameConsent(q)
  BY <1>0, FilingVerified DEF StoreOK
<1>2. HostOK' /\ TargetOK' /\ HistoryOK' /\ \A q \in Ops : SameOutside(q)
  BY WorldStays
<1>3. StoreOK' /\ \A q \in Ops \ {o} : Untouched(q)
  BY <1>0, <1>1, <1>2 DEF StoreOK, Untouched, Others
<1>4. OpInv(o)'
  BY <1>0, <1>1, <1>2
  DEF OpInv, SameOutside, ActorInv, PostInv, ReceiptInv, At, Approved, Consented, Receipted
<1>. QED
  BY <1>2, <1>3, <1>4, CycleKeeps

LEMMA VerifyKeeps ==
  ASSUME GuardInv, NEW o \in Ops, verify(o)
  PROVE  GuardInv'
<1>1. CyclesOK' /\ run'[o].at = "settle" /\ Others(o)
  BY GuardTypes, Continued DEF verify, At, Boundary, Steps
<1>. QED
  BY <1>1, VerifiedStep DEF verify

LEMMA SettleStepKeeps ==
  ASSUME GuardInv, NEW o \in Ops, settle(o)
  PROVE  GuardInv'
<1>1. CyclesOK' /\ run'[o].at = "idle" /\ Others(o)
  BY GuardTypes, Returned DEF settle
<1>2. records[o].verified
  BY GuardTypes DEF settle, At, OpInv, ReceiptInv
<1>. QED
  BY <1>1, <1>2, SettleKeeps DEF settle

LEMMA PutLostKeeps ==
  ASSUME GuardInv, NEW o \in Ops, NEW phase, NEW value, PutLost(o, phase, value),
         \/ phase = "proposal" /\ value \in Proposals
         \/ phase \in {"intent", "receipt", "blocked"} /\ value = TRUE
         \/ phase = "verified" /\ value = TRUE /\ At(o, "verify")
  PROVE  GuardInv'
<1>1. CyclesOK' /\ run'[o].at = "idle" /\ Others(o)
  BY GuardTypes, Returned DEF PutLost
<1>2. UNCHANGED <<actor, risk>> /\ UNCHANGED world /\ (Store(o, phase, value) \/ UNCHANGED records)
  BY DEF PutLost
<1>3. CASE phase = "verified" /\ Store(o, phase, value) /\ value = TRUE /\ At(o, "verify")
  BY <1>1, <1>2, <1>3, VerifiedStep DEF Put
<1>4. CASE UNCHANGED records
  BY <1>1, <1>2, <1>4, FilingStep DEF Marked
<1>5. CASE phase # "verified" /\ Store(o, phase, value)
  <2>1. \/ \E p \in Proposals : Store(o, "proposal", p)
        \/ Put(o, "intent") \/ Put(o, "receipt") \/ Put(o, "blocked")
    BY <1>5 DEF Put
  <2>. QED
    BY <1>1, <1>2, <2>1, FilingStep DEF Marked
<1>. QED
  BY <1>2, <1>3, <1>4, <1>5

LEMMA RiskLostKeeps ==
  ASSUME GuardInv, NEW o \in Ops, NEW state \in {"RESERVED", "COMMITTED"}, RiskLost(o, state),
         \/ state = "RESERVED" /\ risk[o] = "ABSENT"
         \/ state = "COMMITTED" /\ Settleable(o) /\ records[o].verified
  PROVE  GuardInv'
<1>0. StoreOK /\ CyclesOK /\ UNCHANGED <<records, actor>> /\ UNCHANGED world
  BY GuardTypes DEF RiskLost
<1>1. CyclesOK' /\ run'[o].at = "idle" /\ Others(o)
  BY <1>0, Returned DEF RiskLost
<1>2. /\ risk' \in [Ops -> RiskStates] /\ RiskStep(o)
      /\ \A q \in Ops \ {o} : risk'[q] = risk[q]
  BY <1>0 DEF RiskLost, Settleable, StoreOK, RiskStates, RiskStep, Spent
<1>. QED
  BY <1>0, <1>1, <1>2, PlainStep DEF Marked, StoreOK, SameConsent

LEMMA LoseKeeps ==
  ASSUME GuardInv, NEW o \in Ops, lose(o)
  PROVE  GuardInv'
<1>1. ASSUME NEW p \in Proposals, PutLost(o, "proposal", p) PROVE GuardInv'
  BY <1>1, PutLostKeeps
<1>2. ASSUME NEW phase \in {"intent", "receipt", "blocked"}, PutLost(o, phase, TRUE) PROVE GuardInv'
  BY <1>2, PutLostKeeps
<1>3. ASSUME At(o, "verify"), PutLost(o, "verified", TRUE) PROVE GuardInv'
  BY <1>3, PutLostKeeps
<1>4. ASSUME risk[o] = "ABSENT", RiskLost(o, "RESERVED") PROVE GuardInv'
  BY <1>4, RiskLostKeeps
<1>5. ASSUME At(o, "settle") \/ records[o].verified, Settleable(o), RiskLost(o, "COMMITTED")
      PROVE  GuardInv'
  <2>1. records[o].verified
    BY <1>5, GuardTypes DEF OpInv, ReceiptInv
  <2>. QED
    BY <1>5, <2>1, RiskLostKeeps
<1>6. ASSUME NEW step, ReadLost(o, step) PROVE GuardInv'
  <2>1. CyclesOK' /\ run'[o].at = "idle" /\ Others(o)
    BY <1>6, GuardTypes, Returned DEF ReadLost
  <2>. QED
    BY <1>6, <2>1, ReadingStep DEF ReadLost, Marked
<1>. QED
  BY <1>1, <1>2, <1>3, <1>4, <1>5, <1>6 DEF lose

-----------------------------------------------------------------------------
(* The owner, the target and the host *)

LEMMA ApproveKeeps ==
  ASSUME GuardInv, NEW o \in Ops, NEW validity \in Validity, approve(o, validity)
  PROVE  GuardInv'
<1> DEFINE a == [rev |-> target.rev, count |-> target.count, from |-> clock,
                 until |-> clock + validity]
<1>0. /\ StoreOK /\ CyclesOK /\ HostOK /\ TargetOK /\ OpInv(o) /\ ~Approved(o)
      /\ UNCHANGED <<actor, risk, run, lock, report, faults>> /\ UNCHANGED world
      /\ records' = [records EXCEPT ![o].approval = a]
  BY GuardTypes DEF approve
<1>1. a \in ApprovalType
  BY <1>0, GuardAssumption DEF TargetOK, HostOK, Time, ApprovalType
<1> HIDE DEF a
<1>2. /\ records' \in [Ops -> RecordType] /\ records'[o].verified = records[o].verified
      /\ \A q \in Ops \ {o} : SameConsent(q)
  BY <1>0, <1>1 DEF StoreOK, RecordType, SameConsent
<1>3. HostOK' /\ TargetOK' /\ HistoryOK' /\ \A q \in Ops : SameOutside(q)
  BY <1>0, WorldStays
<1>4. StoreOK' /\ CyclesOK' /\ \A q \in Ops \ {o} : Untouched(q)
  BY <1>0, <1>2, <1>3 DEF StoreOK, CyclesOK, Untouched
<1>5. posts[o] = 0 /\ ~Receipted(o) /\ run[o].at \notin {"commit", "post"}
  BY <1>0, GuardTypes DEF OpInv, PostInv, ReceiptInv, Consented, HistoryOK
<1>6. OpInv(o)'
  BY <1>0, <1>2, <1>3, <1>5
  DEF OpInv, SameOutside, ActorInv, PostInv, ReceiptInv, At, Approved, Consented, Receipted
<1>. QED
  BY <1>3, <1>4, <1>6, CycleKeeps

LEMMA RevokeKeeps ==
  ASSUME GuardInv, NEW o \in Ops, revoke(o)
  PROVE  GuardInv'
<1>0. /\ StoreOK /\ CyclesOK /\ OpInv(o) /\ lock = "None" /\ Put(o, "revoked")
      /\ UNCHANGED <<actor, risk, run, lock, report, faults>> /\ UNCHANGED world
  BY GuardTypes DEF revoke, Revocable
<1>1. run[o].at \notin Boundary
  BY <1>0, GuardAssumption DEF CyclesOK
<1>2. /\ records' \in [Ops -> RecordType]
      /\ records'[o].approval = records[o].approval /\ records'[o].verified = records[o].verified
      /\ \A q \in Ops \ {o} : SameConsent(q)
  BY <1>0, FilingRevoked DEF StoreOK
<1>3. HostOK' /\ TargetOK' /\ HistoryOK' /\ \A q \in Ops : SameOutside(q)
  BY <1>0, WorldStays
<1>4. StoreOK' /\ CyclesOK' /\ \A q \in Ops \ {o} : Untouched(q)
  BY <1>0, <1>2, <1>3 DEF StoreOK, CyclesOK, Untouched
<1>5. OpInv(o)'
  BY <1>0, <1>1, <1>2, <1>3
  DEF OpInv, SameOutside, ActorInv, PostInv, ReceiptInv, At, Approved, Consented, Receipted,
      Boundary
<1>. QED
  BY <1>3, <1>4, <1>5, CycleKeeps

\* The target or the network decides what becomes of a POST of o that is on its way.
LEMMA PostEnds ==
  ASSUME GuardInv, NEW o \in Ops, net[o] = "sent", NEW end \in {"applied", "refused"},
         net' = [net EXCEPT ![o] = end],
         UNCHANGED <<run, lock, stopped, report, clock, full, posts, calls>>, UNCHANGED durable,
         UNCHANGED faults \/ Fault,
         TargetOK', \A q \in Ops \ {o} : target'.receipts[q] = target.receipts[q],
         \/ target'.receipts[o] = target.receipts[o]
         \/ /\ ~Receipted(o)
            /\ target'.receipts[o].rev = records[o].approval.rev + 1
            /\ target'.receipts[o].count = records[o].approval.count + 1
  PROVE  GuardInv'
<1>0. StoreOK /\ CyclesOK /\ HostOK /\ HistoryOK /\ OpInv(o)
  BY GuardTypes
<1>1. /\ net' \in [Ops -> {"none", "sent", "applied", "refused"}] /\ net'[o] = end
      /\ \A q \in Ops \ {o} : net'[q] = net[q]
  BY <1>0 DEF HostOK
<1>2. HostOK' /\ HistoryOK'
  BY <1>0, <1>1 DEF HostOK, HistoryOK
<1>3. CyclesOK'
  BY <1>0, GuardAssumption DEF CyclesOK, Fault
<1>4. StoreOK' /\ \A q \in Ops : SameConsent(q) /\ actor'[q] = actor[q] /\ risk'[q] = risk[q]
  BY StoreStays
<1>5. \A q \in Ops \ {o} : Untouched(q)
  BY <1>1, <1>4 DEF Untouched, SameOutside
<1>6. posts[o] = 1
  BY <1>0 DEF OpInv, PostInv, HistoryOK
<1>7. OpInv(o)'
  <2>1. ActorInv(o)' /\ PostInv(o)'
    BY <1>0, <1>1, <1>4, <1>6 DEF OpInv, SameConsent, ActorInv, PostInv, At, Approved, Consented
  <2>2. CASE target'.receipts[o] = target.receipts[o]
    BY <1>0, <1>4, <2>1, <2>2 DEF OpInv, SameConsent, ReceiptInv, At, Receipted
  <2>3. CASE /\ ~Receipted(o)
             /\ target'.receipts[o].rev = records[o].approval.rev + 1
             /\ target'.receipts[o].count = records[o].approval.count + 1
    BY <1>0, <1>4, <1>6, <2>1, <2>3 DEF OpInv, SameConsent, ReceiptInv, At, Receipted
  <2>. QED
    BY <2>2, <2>3
<1>. QED
  BY <1>2, <1>3, <1>4, <1>5, <1>7, CycleKeeps

LEMMA ApplyKeeps ==
  ASSUME GuardInv, NEW o \in Ops, apply(o)
  PROVE  GuardInv'
<1>0. /\ TargetOK /\ net[o] = "sent" /\ UNCHANGED durable
      /\ UNCHANGED <<run, lock, stopped, report, clock, full, faults, posts, calls>>
  BY GuardTypes DEF apply
<1>1. CASE UNCHANGED target /\ \E end \in {"applied", "refused"} : net' = [net EXCEPT ![o] = end]
  <2>1. TargetOK'
    BY <1>0, <1>1 DEF TargetOK
  <2>. QED
    BY <1>0, <1>1, <2>1, PostEnds
<1>2. CASE ~Receipted(o) /\ ApplyOK(o) /\ net' = [net EXCEPT ![o] = "applied"]
  <2> DEFINE left(past) == [rev |-> target.rev + 1, count |-> target.count + 1, late |-> past]
  <2>1. CASE UNCHANGED target
    BY <1>1, <1>2, <2>1
  <2>2. ASSUME NEW past \in BOOLEAN,
               target' = [mode |-> "MAINTENANCE", rev |-> target.rev + 1,
                          count |-> target.count + 1,
                          receipts |-> [target.receipts EXCEPT ![o] = left(past)]]
        PROVE  GuardInv'
    <3>1. /\ left(past).rev = records[o].approval.rev + 1
          /\ left(past).count = records[o].approval.count + 1
      BY <1>2 DEF ApplyOK
    <3>2. left(past) \in [rev : Nat, count : Nat, late : BOOLEAN]
      BY <1>0 DEF TargetOK
    <3>3. target.rev + 1 \in Nat /\ target.count + 1 \in Nat
      BY <1>0 DEF TargetOK
    <3> HIDE DEF left
    <3>4. /\ TargetOK' /\ target'.receipts[o] = left(past)
          /\ \A q \in Ops \ {o} : target'.receipts[q] = target.receipts[q]
      BY <1>0, <2>2, <3>2, <3>3 DEF TargetOK, Modes
    <3>. QED
      BY <1>0, <1>2, <3>1, <3>4, PostEnds
  <2>. QED
    BY <1>2, <2>1, <2>2 DEF apply
<1>. QED
  BY <1>1, <1>2 DEF apply

LEMMA DropKeeps ==
  ASSUME GuardInv, NEW o \in Ops, drop(o)
  PROVE  GuardInv'
<1>1. TargetOK'
  BY GuardTypes DEF drop, TargetOK
<1>. QED
  BY <1>1, PostEnds DEF drop

\* Steps of the environment that touch no operation.
LEMMA AsideKeeps ==
  ASSUME GuardInv, StoreOK', CyclesOK', HostOK', TargetOK', HistoryOK',
         \A q \in Ops : Untouched(q)
  PROVE  GuardInv'
<1>1. \A q \in Ops : OpInv(q)'
  BY UntouchedKeeps DEF GuardInv
<1>2. TypeOK'
  BY TypeParts, PTL
<1>. QED
  BY <1>1, <1>2 DEF GuardInv

LEMMA AdvanceKeeps ==
  ASSUME GuardInv, NEW mode \in Modes, operator_advance(mode)
  PROVE  GuardInv'
<1>0. /\ StoreOK /\ CyclesOK /\ HostOK /\ TargetOK /\ HistoryOK /\ UNCHANGED durable
      /\ UNCHANGED <<run, lock, stopped, report, net, clock, full, faults, posts, calls>>
  BY GuardTypes DEF operator_advance
<1>1. /\ target'.mode = mode /\ target'.rev = target.rev + 1 /\ target'.count = target.count
      /\ target'.receipts = target.receipts
  BY DEF operator_advance
<1>2. CyclesOK' /\ HostOK' /\ TargetOK' /\ HistoryOK'
  BY <1>0, <1>1 DEF CyclesOK, HostOK, TargetOK, HistoryOK
<1>3. StoreOK' /\ \A q \in Ops : Untouched(q)
  BY <1>0, <1>1 DEF durable, StoreOK, Untouched, SameConsent, SameOutside
<1>. QED
  BY <1>2, <1>3, AsideKeeps

LEMMA HostKeeps ==
  ASSUME GuardInv, (\E o \in Ops : request_stop(o)) \/ (\E t \in Time : set_clock(t)) \/ fill
  PROVE  GuardInv'
<1>0. /\ StoreOK /\ CyclesOK /\ HostOK /\ TargetOK /\ HistoryOK /\ UNCHANGED durable
      /\ UNCHANGED <<run, lock, report, target, net, posts, calls>>
  BY GuardTypes DEF request_stop, set_clock, fill
<1>1. faults' \in 0 .. MaxFaults /\ stopped' \subseteq Ops /\ clock' \in Time
  BY <1>0, GuardAssumption DEF request_stop, set_clock, fill, Fault, CyclesOK, HostOK
<1>2. full' \in BOOLEAN
  BY <1>0 DEF request_stop, set_clock, fill, HostOK
<1>3. CyclesOK' /\ HostOK' /\ TargetOK' /\ HistoryOK'
  BY <1>0, <1>1, <1>2 DEF CyclesOK, HostOK, TargetOK, HistoryOK
<1>4. StoreOK' /\ \A q \in Ops : Untouched(q)
  BY <1>0 DEF durable, StoreOK, Untouched, SameConsent, SameOutside
<1>. QED
  BY <1>0, <1>3, <1>4, AsideKeeps

LEMMA RestartKeeps ==
  ASSUME GuardInv, NEW o \in Ops, restart(o)
  PROVE  GuardInv'
<1>0. /\ StoreOK /\ CyclesOK /\ HostOK /\ TargetOK /\ HistoryOK /\ OpInv(o) /\ run[o].at = "idle"
      /\ UNCHANGED <<records, risk, run, lock, report, target, net, clock, full, faults, posts,
                     calls>>
  BY GuardTypes DEF restart, At
<1>1. /\ StoreOK' /\ (actor'[o] = "NONE" => actor[o] = "NONE")
      /\ \A q \in Ops \ {o} : actor'[q] = actor[q]
  BY <1>0 DEF restart, Reopened, StoreOK
<1>2. CyclesOK' /\ HostOK' /\ TargetOK' /\ HistoryOK'
  BY <1>0 DEF restart, CyclesOK, HostOK, TargetOK, HistoryOK
<1>3. /\ \A q \in Ops : SameConsent(q) /\ SameOutside(q)
      /\ \A q \in Ops \ {o} : Untouched(q)
  BY <1>0, <1>1 DEF Untouched, SameConsent, SameOutside
<1>4. OpInv(o)'
  BY <1>0, <1>1, <1>3, PlainKeeps DEF RiskStep, Marked
<1>. QED
  BY <1>1, <1>2, <1>3, <1>4, CycleKeeps

LEMMA CrashKeeps ==
  ASSUME GuardInv, crash
  PROVE  GuardInv'
<1>0. /\ StoreOK /\ CyclesOK /\ HostOK /\ TargetOK /\ HistoryOK /\ \A q \in Ops : OpInv(q)
      /\ UNCHANGED <<records, risk, report, target, net, clock, full, posts, calls>>
  BY GuardTypes DEF crash
<1>1. StoreOK' /\ \A q \in Ops : actor'[q] = "NONE" => actor[q] = "NONE"
  BY <1>0 DEF crash, Reopened, StoreOK
<1>2. run' \in [Ops -> RunType] /\ \A q \in Ops : run'[q].at = "idle"
  <2>1. [at |-> "idle", seen |-> NoView] \in RunType
    BY DEF RunType, ViewType, NoView, Modes, Steps
  <2>. QED
    BY <2>1 DEF crash
<1>3. CyclesOK' /\ HostOK' /\ TargetOK' /\ HistoryOK'
  BY <1>0, <1>2, GuardAssumption
  DEF crash, Fault, CyclesOK, HostOK, TargetOK, HistoryOK, Boundary
<1>4. \A q \in Ops : OpInv(q)'
  BY <1>0, <1>1, <1>2, PlainKeeps DEF RiskStep, Marked, SameConsent, SameOutside
<1>5. TypeOK'
  BY <1>1, <1>3, TypeParts, PTL
<1>. QED
  BY <1>3, <1>4, <1>5 DEF GuardInv

\* The audit quota ends a cycle with nothing stored.
LEMMA OverflowKeeps ==
  ASSUME GuardInv, NEW o \in Ops, overflow(o)
  PROVE  GuardInv'
<1>1. \E status \in {"BLOCKED", "UNKNOWN"} : Return(o, status) /\ UNCHANGED faults
  BY DEF overflow
<1>2. CyclesOK' /\ run'[o].at = "idle" /\ Others(o)
  BY <1>1, GuardTypes, Returned
<1>. QED
  BY <1>2, ReadingStep DEF overflow, Marked

-----------------------------------------------------------------------------
(* The theorems *)

LEMMA GuardInit == Init => GuardInv
<1> SUFFICES ASSUME Init PROVE GuardInv
  OBVIOUS
<1>1. StoreOK
  <2>1. Nothing \in RecordType
    BY GuardAssumption DEF Nothing, RecordType, ApprovalType, NoApproval, Time
  <2>. QED
    BY <2>1 DEF Init, StoreOK, RiskStates
<1>2. CyclesOK
  <2>1. [at |-> "idle", seen |-> NoView] \in RunType
    BY DEF RunType, ViewType, NoView, Modes, Steps
  <2>2. [status |-> "NONE", sent |-> FALSE] \in ReportType
    BY DEF ReportType
  <2>. QED
    BY <2>1, <2>2, GuardAssumption DEF Init, CyclesOK, Boundary
<1>3. HostOK /\ TargetOK /\ HistoryOK
  <2>1. NoReceipt \in [rev : Nat, count : Nat, late : BOOLEAN]
    BY DEF NoReceipt
  <2>2. TargetOK
    BY <2>1 DEF Init, TargetOK, Modes
  <2>3. full \in BOOLEAN
    BY DEF Init
  <2>4. /\ stopped \subseteq Ops /\ clock \in Time
        /\ net \in [Ops -> {"none", "sent", "applied", "refused"}]
    BY GuardAssumption DEF Init, Time
  <2>5. HistoryOK
    BY DEF Init, HistoryOK
  <2>. QED
    BY <2>2, <2>3, <2>4, <2>5 DEF HostOK
<1>4. \A o \in Ops : OpInv(o)
  BY DEF Init, Nothing, OpInv, ActorInv, PostInv, ReceiptInv, At, Approved, Consented, Receipted
<1>. QED
  BY <1>1, <1>2, <1>3, <1>4, TypeParts DEF GuardInv

LEMMA GuardStep == GuardInv /\ [Next]_vars => GuardInv'
<1> SUFFICES ASSUME GuardInv, [Next]_vars PROVE GuardInv'
  OBVIOUS
<1>1. CASE UNCHANGED vars
  <2>1. StoreOK /\ CyclesOK /\ HostOK /\ TargetOK /\ HistoryOK
    BY GuardTypes
  <2>2. StoreOK' /\ CyclesOK' /\ HostOK' /\ TargetOK' /\ HistoryOK'
    BY <1>1, <2>1 DEF vars, StoreOK, CyclesOK, HostOK, TargetOK, HistoryOK
  <2>3. \A q \in Ops : Untouched(q)
    BY <1>1 DEF vars, Untouched, SameConsent, SameOutside
  <2>. QED
    BY <2>2, <2>3, AsideKeeps
<1>2. ASSUME NEW o \in Ops, cycle(o) PROVE GuardInv'
  BY <1>2, BeginKeeps, ReplayKeeps, ShowBlockedKeeps, ObserveKeeps, RequestKeeps, AnswerKeeps,
     ProposeKeeps, LookKeeps, AllowKeeps, ReserveKeeps, IntendKeeps, EnterKeeps, RecheckKeeps,
     CommitKeeps, PostKeeps, AnsweredKeeps, MarkUnknownKeeps, ReceiptKeeps, RecordKeeps,
     MeasureKeeps, VerifyKeeps, SettleStepKeeps, OverflowKeeps DEF cycle
<1>3. CASE Environment
  BY <1>3, AnsweredKeeps, ShowBlockedKeeps, LoseKeeps, DropKeeps, ApproveKeeps, RevokeKeeps,
     HostKeeps, RestartKeeps, ApplyKeeps, AdvanceKeeps, CrashKeeps DEF Environment
<1>. QED
  BY <1>1, <1>2, <1>3 DEF Next

\* Records, journal, reservations, lock and target stay well formed, and per operation the
\* model call, the POST and the receipt are bound to what is recorded of them (service.py,
\* cycle and the effect boundary): the inductive invariant.
THEOREM GuardIsInvariant == Spec => []GuardInv
BY GuardInit, GuardStep, PTL DEF Spec

\* The POST of an operation is sent at most once and the model asked at most once, however
\* often the process crashes, an answer is lost or the scheduler is replaced.
THEOREM GuardAttemptsOnce == Spec => []OneAttempt
<1>1. GuardInv => OneAttempt
  BY DEF GuardInv, HistoryOK, OneAttempt
<1>. QED
  BY <1>1, GuardIsInvariant, PTL

\* An effect lands on exactly the state the owner approved, however late its POST arrives.
THEOREM GuardEffectOnApprovedState == Spec => []EffectOnApprovedState
<1>1. GuardInv => EffectOnApprovedState
  BY DEF GuardInv, OpInv, ReceiptInv, EffectOnApprovedState
<1>. QED
  BY <1>1, GuardIsInvariant, PTL

\* A sent operation keeps its risk charged, only a verified effect is settled, and what is
\* stored as verified happened by the one POST of the operation.
THEOREM GuardRiskFollowsEffect == Spec => []RiskFollowsEffect
<1>1. GuardInv => RiskFollowsEffect
  BY DEF GuardInv, OpInv, PostInv, ReceiptInv, RiskFollowsEffect
<1>. QED
  BY <1>1, GuardIsInvariant, PTL

\* Once a revocation is stored no POST of the operation is sent: revoke and the boundary
\* exclude each other through _effect_lock.
THEOREM GuardNothingSentAfterRevoke == Spec => NothingSentAfterRevoke
<1>1. GuardInv /\ [Next]_vars => [\A o \in Ops : posts'[o] > posts[o] => ~records[o].revoked]_vars
  <2> SUFFICES ASSUME GuardInv, Next, NEW o \in Ops, posts'[o] > posts[o]
               PROVE  ~records[o].revoked
    OBVIOUS
  <2>0. posts \in [Ops -> 0 .. 1]
    BY GuardTypes DEF HistoryOK
  <2>1. posts' # posts
    BY <2>0
  <2>2. PICK p \in Ops : post(p)
    <3>1. ASSUME NEW q \in Ops, cycle(q), ~post(q) PROVE posts' = posts
      BY <3>1
      DEF cycle, begin, replay, show_blocked, observe, request, answer, propose, decide, allow,
          reserve, intend, enter, reread, recheck, commit, answered, mark_unknown, receipt,
          record, measure, verify, settle, overflow, world
    <3>2. Environment => posts' = posts
      BY DEF Environment, unanswered, begin_unread, lose, PutLost, RiskLost, ReadLost, drop,
             approve, revoke, request_stop, restart, apply, operator_advance, set_clock, crash,
             fill, world
    <3>. QED
      BY <2>1, <3>1, <3>2 DEF Next
  <2>3. p = o
    BY <2>0, <2>2 DEF post
  <2>4. OpInv(o) /\ run[o].at = "post"
    BY <2>2, <2>3, GuardTypes DEF post, At
  <2>. QED
    BY <2>4 DEF OpInv, PostInv, Consented
<1>. QED
  BY <1>1, GuardIsInvariant, PTL DEF Spec, NothingSentAfterRevoke

-----------------------------------------------------------------------------
(* The remote Git route *)

CONSTANTS Requests, Workers, None
VARIABLES row, held, rpc, current, mlock, fresh, same, kill, warrant, intent, mark, scope, result,
          wpc, write, at, wdata, obs, seen, cancelled, main, branch, pr, flight, done, matched,
          sends, late

R == INSTANCE RemoteGit WITH lock <- mlock, posts <- sends

\* Threads are told apart.
ThreadAssumption ==
    /\ Requests \cap Workers = {}
    /\ None \notin Requests \cup Workers

\* A worker past START, or reading back, holds the lock; so does a request
\* between its check and the start of its worker.
Section == {"bind", "main", "absent", "step", "marked", "cleared", "sent",
            "ref", "pulls", "pull", "again", "scope", "save"}

LockInv ==
    /\ \A w \in Workers : wpc[w] \in Section => mlock = w
    /\ \A r \in Requests :
          rpc[r] \in {"checked", "pending", "approved", "write", "read"} => mlock = r

\* Which request a worker is about to send, and that it was not sent before.
Sending == {"bind", "main", "absent", "step", "marked", "cleared", "sent"}
Reading == {"ref", "pulls", "pull", "again"}

StepInv ==
    \A w \in Workers :
        /\ wpc[w] \in {"born", "start"} => at[w] = 0
        /\ wpc[w] = "bind" => at[w] = 0
        /\ wpc[w] \in Sending \cup {"start"} => write[w]
        /\ wpc[w] = "absent" => at[w] = 0
        /\ wpc[w] = "main" => at[w] \in {0, 3, 4}
        /\ wpc[w] \in {"step", "marked", "cleared", "sent"} => at[w] \in R!Steps
        /\ wpc[w] \in Reading => at[w] = 5 \/ (at[w] = 4 /\ write[w])
        /\ wpc[w] \in {"scope", "save"} => at[w] = 5
        /\ wpc[w] \in {"marked", "cleared"} => mark[at[w]] # "none" /\ sends[at[w]] = 0

\* What was sent was marked first, and sent once.
SentInv ==
    /\ \A s \in R!Steps : sends[s] <= 1 /\ (sends[s] > 0 => mark[s] # "none")
    /\ \A s \in flight \cup done : sends[s] = 1

\* A worker has seen every earlier request take effect.
OrderInv ==
    /\ \A w \in Workers : wpc[w] \in Sending \cup Reading /\ write[w] =>
          \A t \in R!Steps : t < at[w] => t \in done
    /\ R!PostedInOrder

\* A verified readback has seen the branch and the pull request as planned.
SeenInv ==
    /\ branch = "ours" /\ pr = "open" => matched
    /\ \A w \in Workers : wpc[w] = "again" \/ obs[w] = "verified" => matched

ReportInv ==
    /\ intent = "applied" => matched
    /\ \A w \in Workers : obs[w] = "applied" => intent = "applied"
    /\ row.state = "VERIFIED" => intent = "applied"
    /\ \A r \in Requests : held[r].state = "VERIFIED" => intent = "applied"
    /\ \A w \in Workers : wdata[w].state = "VERIFIED" => intent = "applied"

\* The fourth request is marked after the other three took effect; when the effect is
\* applied all four are, and no worker is on its way to send one.
AppliedInv ==
    /\ mark[4] # "none" => \A s \in R!Steps \ {4} : s \in done
    /\ intent = "applied" => \A s \in R!Steps : mark[s] = "verified"
    /\ intent = "applied" => \A w \in Workers : wpc[w] \in Section => ~write[w]

\* Once a request was sent late, no other can pass its last check.
StopInv ==
    /\ late <= 1
    /\ late > 0 => row.stop /\ \A w \in Workers : wpc[w] # "cleared"

RouteInv ==
    /\ R!TypeOK /\ LockInv /\ StepInv /\ SentInv /\ OrderInv /\ SeenInv /\ ReportInv
    /\ AppliedInv /\ StopInv

\* The type invariant in three parts: the copies of the row, the threads, and
\* the rest.
RowsOK == row \in R!Rows /\ held \in [Requests -> R!Rows] /\ wdata \in [Workers -> R!Rows]

ThreadsOK ==
    /\ rpc \in [Requests -> R!RequestSteps]
    /\ current \in Workers \cup {None} /\ mlock \in Requests \cup Workers \cup {None}
    /\ wpc \in [Workers -> R!WorkerSteps] /\ write \in [Workers -> BOOLEAN]
    /\ at \in [Workers -> 0..5]
    /\ obs \in [Workers -> {"none", "branch", "verified", "applied"}]
    /\ seen \in [Workers -> BOOLEAN] /\ cancelled \in [Workers -> BOOLEAN]

RouteStoreOK ==
    /\ fresh \in BOOLEAN /\ same \in BOOLEAN /\ kill \in BOOLEAN
    /\ warrant \in {"none", "approved", "revoked"}
    /\ intent \in {"none", "open", "applied"}
    /\ mark \in [R!Steps -> {"none", "unknown", "verified"}]
    /\ scope \in BOOLEAN /\ result \in {"none", "unknown", "verified"}
    /\ main \in {"base", "moved"} /\ branch \in {"absent", "ours", "other"}
    /\ pr \in {"none", "open", "changed"}
    /\ flight \subseteq R!Steps /\ done \subseteq R!Steps /\ matched \in BOOLEAN
    /\ sends \in [R!Steps -> Nat] /\ late \in Nat

-----------------------------------------------------------------------------
\* What a save of the row keeps: the state that was asked for, and any stop.
LEMMA SaveFacts ==
    ASSUME NEW data \in R!Rows, row \in R!Rows, R!Save(data)
    PROVE  /\ row' \in R!Rows /\ row'.state = data.state
           /\ row'.stop = (data.stop \/ row.stop)
BY DEF R!Save, R!Rows

\* Every copy of the row is a row.
LEMMA RowsStep ==
    ASSUME RowsOK, R!Next
    PROVE  RowsOK'
<1>1. ASSUME NEW r \in Requests,
             (\E op \in {"approve", "reconcile", "stop"} : R!Request(r, op)) \/
             R!Approve(r) \/ R!ApproveWarrant(r) \/ (\E w \in Workers : R!Spawn(r, w)) \/
             R!StopCancel(r) \/ R!StopRevoke(r) \/ R!Refuse(r)
      PROVE  RowsOK'
    BY <1>1 DEF R!Request, R!Approve, R!ApproveWarrant, R!Spawn, R!StopCancel, R!StopRevoke,
                R!Refuse, R!To, R!Alive, R!env, R!store, R!work, R!hub, R!hist, R!host, RowsOK
<1>2. ASSUME NEW w \in Workers,
             R!Start(w) \/ R!Bind(w) \/ R!ReadMain(w) \/ R!ReadAbsent(w) \/ R!BeginStep(w) \/
             R!ClearPost(w) \/ R!Post(w) \/ R!Acknowledged(w) \/ R!ReadIntent(w) \/
             R!ReadRef(w) \/ R!ReadPulls(w) \/ R!ReadPull(w) \/ R!ReadRefAgain(w) \/
             R!ReadScope(w) \/ R!Complete(w) \/ R!Fail(w)
      PROVE  RowsOK'
    BY <1>2 DEF R!Start, R!Bind, R!ReadMain, R!ReadAbsent, R!BeginStep, R!ClearPost, R!Post,
                R!Acknowledged, R!ReadIntent, R!ReadRef, R!ReadPulls, R!ReadPull, R!ReadRefAgain,
                R!ReadScope, R!Complete, R!Fail, R!Go, R!Report, R!Observed, R!Observing, R!env,
                R!store,
                R!work, R!hub, R!hist, R!host, RowsOK
<1>3. CASE (\E s \in R!Steps : R!Deliver(s)) \/ R!Elsewhere \/ R!Environment \/ R!Crash
    BY <1>3 DEF R!Deliver, R!Elsewhere, R!Environment, R!Crash, R!Takes, R!Matching, R!env,
                R!store, R!work,
                R!hub,
                R!hist, R!host, RowsOK
<1>4. ASSUME NEW r \in Requests, R!ApprovePending(r)
      PROVE  RowsOK'
    <2>1. [held[r] EXCEPT !.state = "PENDING", !.candidate = TRUE] \in R!Rows
        BY <1>4 DEF RowsOK, R!Rows, R!RowStates
    <2>2. row' \in R!Rows
        BY <1>4, <2>1, SaveFacts DEF R!ApprovePending, RowsOK
    <2>. QED
        BY <1>4, <2>1, <2>2 DEF R!ApprovePending, R!To, R!work, RowsOK
<1>5. ASSUME NEW r \in Requests, R!ApproveSave(r)
      PROVE  RowsOK'
    <2>1. [held[r] EXCEPT !.state = "APPROVED", !.warrant = TRUE] \in R!Rows
        BY <1>5 DEF RowsOK, R!Rows, R!RowStates
    <2>2. row' \in R!Rows
        BY <1>5, <2>1, SaveFacts DEF R!ApproveSave, RowsOK
    <2>. QED
        BY <1>5, <2>1, <2>2 DEF R!ApproveSave, R!To, R!work, RowsOK
<1>6. ASSUME NEW r \in Requests, R!Reconcile(r)
      PROVE  RowsOK'
    <2>1. [held[r] EXCEPT !.state = "RECONCILING"] \in R!Rows
        BY <1>6 DEF RowsOK, R!Rows, R!RowStates
    <2>2. row' \in R!Rows
        BY <1>6, <2>1, SaveFacts DEF R!Reconcile, RowsOK
    <2>. QED
        BY <1>6, <2>1, <2>2 DEF R!Reconcile, R!To, R!work, RowsOK
<1>7. ASSUME NEW r \in Requests, R!StopSave(r)
      PROVE  RowsOK'
    <2>1. [held[r] EXCEPT !.stop = TRUE] \in R!Rows
        BY <1>7 DEF RowsOK, R!Rows, R!RowStates
    <2>2. row' \in R!Rows
        BY <1>7, <2>1, SaveFacts DEF R!StopSave, RowsOK
    <2>. QED
        BY <1>7, <2>1, <2>2 DEF R!StopSave, R!To, R!work, RowsOK
<1>8. ASSUME NEW w \in Workers, R!Run(w)
      PROVE  RowsOK'
    <2>1. [wdata[w] EXCEPT !.state = "RUNNING"] \in R!Rows
        BY <1>8 DEF RowsOK, R!Rows, R!RowStates
    <2>2. row' \in R!Rows
        BY <1>8, <2>1, SaveFacts DEF R!Run, RowsOK
    <2>. QED
        BY <1>8, <2>1, <2>2 DEF R!Run, R!env, RowsOK
<1>9. ASSUME NEW w \in Workers, R!Finish(w)
      PROVE  RowsOK'
    <2>1. [wdata[w] EXCEPT
               !.state = IF obs[w] = "applied" THEN "VERIFIED" ELSE "UNKNOWN"] \in R!Rows
        BY <1>9 DEF RowsOK, R!Rows, R!RowStates
    <2>2. row' \in R!Rows
        BY <1>9, <2>1, SaveFacts DEF R!Finish, RowsOK
    <2>. QED
        BY <1>9, <2>1, <2>2 DEF R!Finish, R!Go, RowsOK
<1>10. ASSUME NEW w \in Workers, R!Failed(w)
      PROVE  RowsOK'
    <2>1. [wdata[w] EXCEPT !.state = "UNKNOWN"] \in R!Rows
        BY <1>10 DEF RowsOK, R!Rows, R!RowStates
    <2>2. row' \in R!Rows
        BY <1>10, <2>1, SaveFacts DEF R!Failed, RowsOK
    <2>. QED
        BY <1>10, <2>1, <2>2 DEF R!Failed, R!Go, RowsOK
<1>11. CASE \E state \in {"PROPOSED", "FAILED"} : R!Propose(state)
    <2>1. PICK state \in {"PROPOSED", "FAILED"} : R!Propose(state)
        BY <1>11
    <2>2. [row EXCEPT !.state = state] \in R!Rows
        BY <2>1 DEF RowsOK, R!Rows, R!RowStates
    <2>. QED
        BY <2>1, <2>2, SaveFacts DEF R!Propose, R!work, RowsOK
<1>. QED
    BY <1>1, <1>2, <1>3, <1>4, <1>5, <1>6, <1>7, <1>8, <1>9, <1>10, <1>11
    DEF R!Next, R!RequestStep, R!WorkerStep

\* The threads are where they can be.
LEMMA ThreadsStep ==
    ASSUME ThreadsOK, RouteStoreOK, StepInv, R!Next
    PROVE  ThreadsOK'
<1>1. ASSUME NEW r \in Requests,
             R!Approve(r) \/ R!ApproveWarrant(r) \/ R!StopRevoke(r) \/ R!Refuse(r)
      PROVE  ThreadsOK'
    BY <1>1 DEF R!Approve, R!ApproveWarrant, R!StopRevoke, R!Refuse, R!To, R!env, R!store, R!work,
                R!hub,
                R!hist, R!host, ThreadsOK, StepInv, R!RequestSteps, R!WorkerSteps, R!Steps
<1>2. CASE (\E state \in {"PROPOSED", "FAILED"} : R!Propose(state)) \/
           (\E s \in R!Steps : R!Deliver(s)) \/ R!Elsewhere \/ R!Environment
    BY <1>2 DEF R!Propose, R!Deliver, R!Elsewhere, R!Environment, R!Save, R!Takes, R!Matching,
                R!env, R!store,
                R!work, R!hub, R!hist, R!host, ThreadsOK, StepInv, R!RequestSteps, R!WorkerSteps,
                R!Steps
<1>3. ASSUME NEW w \in Workers,
             R!Finish(w) \/ R!Fail(w) \/ R!Failed(w) \/ R!Bind(w) \/ R!BeginStep(w) \/
             R!ClearPost(w) \/ R!Post(w)
      PROVE  ThreadsOK'
    BY <1>3 DEF R!Finish, R!Fail, R!Failed, R!Bind, R!BeginStep, R!ClearPost, R!Post, R!Save, R!Go,
                R!env,
                R!store, R!work, R!hub, R!hist, R!host, ThreadsOK, StepInv, R!RequestSteps,
                R!WorkerSteps, R!Steps
<1>4. ASSUME NEW r \in Requests,
             \E op \in {"approve", "reconcile", "stop"} : R!Request(r, op)
      PROVE  ThreadsOK'
    BY <1>4 DEF R!Request, R!To, R!env, R!store, R!work, R!hub, R!hist, R!host, ThreadsOK, StepInv,
                R!RequestSteps, R!WorkerSteps, R!Steps
<1>5. ASSUME NEW r \in Requests, R!ApprovePending(r)
      PROVE  ThreadsOK'
    BY <1>5 DEF R!ApprovePending, R!To, R!Save, R!env, R!store, R!work, R!hub, R!hist, R!host,
                ThreadsOK,
                StepInv, R!RequestSteps, R!WorkerSteps, R!Steps
<1>6. ASSUME NEW r \in Requests, R!ApproveSave(r)
      PROVE  ThreadsOK'
    BY <1>6 DEF R!ApproveSave, R!To, R!Save, R!env, R!store, R!work, R!hub, R!hist, R!host,
                ThreadsOK,
                StepInv, R!RequestSteps, R!WorkerSteps, R!Steps
<1>7. ASSUME NEW r \in Requests, R!Reconcile(r)
      PROVE  ThreadsOK'
    BY <1>7 DEF R!Reconcile, R!To, R!Save, R!env, R!store, R!work, R!hub, R!hist, R!host, ThreadsOK,
                StepInv, R!RequestSteps, R!WorkerSteps, R!Steps
<1>8. ASSUME NEW r \in Requests, \E w \in Workers : R!Spawn(r, w)
      PROVE  ThreadsOK'
    BY <1>8 DEF R!Spawn, R!To, R!Alive, R!env, R!store, R!work, R!hub, R!hist, R!host, ThreadsOK,
                StepInv, R!RequestSteps, R!WorkerSteps, R!Steps
<1>9. ASSUME NEW r \in Requests, R!StopCancel(r)
      PROVE  ThreadsOK'
    <2>1. \A v \in Workers : (cancelled[v] \/ v = current) \in BOOLEAN
        OBVIOUS
    <2>2. cancelled' \in [Workers -> BOOLEAN]
        BY <1>9, <2>1, Zenon DEF R!StopCancel
    <2>. QED
        BY <1>9, <2>2 DEF R!StopCancel, R!To, ThreadsOK, R!RequestSteps
<1>10. ASSUME NEW r \in Requests, R!StopSave(r)
      PROVE  ThreadsOK'
    BY <1>10 DEF R!StopSave, R!To, R!Save, R!env, R!store, R!work, R!hub, R!hist, R!host, ThreadsOK,
                 StepInv, R!RequestSteps, R!WorkerSteps, R!Steps
<1>11. ASSUME NEW w \in Workers, R!Run(w)
      PROVE  ThreadsOK'
    BY <1>11 DEF R!Run, R!Save, R!env, R!store, R!work, R!hub, R!hist, R!host, ThreadsOK, StepInv,
                 R!RequestSteps, R!WorkerSteps, R!Steps
<1>12. ASSUME NEW w \in Workers, R!Start(w)
      PROVE  ThreadsOK'
    BY <1>12 DEF R!Start, R!Go, R!Report, R!env, R!store, R!work, R!hub, R!hist, R!host, ThreadsOK,
                 StepInv, R!RequestSteps, R!WorkerSteps, R!Steps
<1>13. ASSUME NEW w \in Workers, R!ReadMain(w)
      PROVE  ThreadsOK'
    BY <1>13 DEF R!ReadMain, R!Go, R!env, R!store, R!work, R!hub, R!hist, R!host, ThreadsOK,
                 StepInv,
                 R!RequestSteps, R!WorkerSteps, R!Steps
<1>14. ASSUME NEW w \in Workers, R!ReadAbsent(w)
      PROVE  ThreadsOK'
    BY <1>14 DEF R!ReadAbsent, R!Go, R!env, R!store, R!work, R!hub, R!hist, R!host, ThreadsOK,
                 StepInv,
                 R!RequestSteps, R!WorkerSteps, R!Steps
<1>15. ASSUME NEW w \in Workers, R!Acknowledged(w)
      PROVE  ThreadsOK'
    BY <1>15 DEF R!Acknowledged, R!Go, R!env, R!store, R!work, R!hub, R!hist, R!host, ThreadsOK,
                 StepInv, R!RequestSteps, R!WorkerSteps, R!Steps
<1>16. ASSUME NEW w \in Workers, R!ReadIntent(w)
      PROVE  ThreadsOK'
    BY <1>16 DEF R!ReadIntent, R!Go, R!env, R!store, R!work, R!hub, R!hist, R!host, ThreadsOK,
                 StepInv,
                 R!RequestSteps, R!WorkerSteps, R!Steps
<1>17. ASSUME NEW w \in Workers, R!ReadRef(w)
      PROVE  ThreadsOK'
    BY <1>17 DEF R!ReadRef, R!Observed, R!Observing, R!Go, R!env, R!store, R!work, R!hub, R!hist,
                 R!host,
                 ThreadsOK, StepInv, R!RequestSteps, R!WorkerSteps, R!Steps
<1>18. ASSUME NEW w \in Workers, R!ReadPulls(w)
      PROVE  ThreadsOK'
    BY <1>18 DEF R!ReadPulls, R!Observed, R!Observing, R!Go, R!env, R!store, R!work, R!hub, R!hist,
                 R!host,
                 ThreadsOK, StepInv, R!RequestSteps, R!WorkerSteps, R!Steps
<1>19. ASSUME NEW w \in Workers, R!ReadPull(w)
      PROVE  ThreadsOK'
    BY <1>19 DEF R!ReadPull, R!Observing, R!Go, R!env, R!store, R!work, R!hub, R!hist, R!host,
                 ThreadsOK,
                 StepInv, R!RequestSteps, R!WorkerSteps, R!Steps
<1>20. ASSUME NEW w \in Workers, R!ReadRefAgain(w)
      PROVE  ThreadsOK'
    BY <1>20 DEF R!ReadRefAgain, R!Observed, R!Go, R!env, R!store, R!work, R!hub, R!hist, R!host,
                 ThreadsOK, StepInv, R!RequestSteps, R!WorkerSteps, R!Steps
<1>21. ASSUME NEW w \in Workers, R!ReadScope(w)
      PROVE  ThreadsOK'
    <2>1. seen' \in [Workers -> BOOLEAN]
        BY <1>21 DEF R!ReadScope, ThreadsOK, RouteStoreOK
    <2>. QED
        BY <1>21, <2>1 DEF R!ReadScope, R!Go, ThreadsOK, R!WorkerSteps
<1>22. ASSUME NEW w \in Workers, R!Complete(w)
      PROVE  ThreadsOK'
    BY <1>22 DEF R!Complete, R!Go, R!Report, R!env, R!store, R!work, R!hub, R!hist, R!host,
                 ThreadsOK,
                 StepInv, R!RequestSteps, R!WorkerSteps, R!Steps
<1>23. CASE R!Crash
    BY <1>23 DEF R!Crash, R!env, R!store, R!work, R!hub, R!hist, R!host, ThreadsOK, StepInv,
                 R!RequestSteps, R!WorkerSteps, R!Steps
<1>. QED
    BY <1>1, <1>2, <1>3, <1>4, <1>5, <1>6, <1>7, <1>8, <1>9, <1>10, <1>11, <1>12,
       <1>13, <1>14, <1>15, <1>16, <1>17, <1>18, <1>19, <1>20, <1>21, <1>22, <1>23
    DEF R!Next, R!RequestStep, R!WorkerStep

\* The store and the repository hold what they can.
LEMMA StoreStep ==
    ASSUME RouteStoreOK, StepInv, R!Next
    PROVE  RouteStoreOK'
<1>1. ASSUME NEW r \in Requests,
             (\E op \in {"approve", "reconcile", "stop"} : R!Request(r, op)) \/
             R!Approve(r) \/ R!ApprovePending(r) \/ R!ApproveWarrant(r) \/ R!ApproveSave(r) \/
             R!Reconcile(r) \/ (\E w \in Workers : R!Spawn(r, w)) \/ R!StopCancel(r) \/
             R!StopSave(r) \/ R!StopRevoke(r) \/ R!Refuse(r)
      PROVE  RouteStoreOK'
    BY <1>1 DEF R!Request, R!Approve, R!ApprovePending, R!ApproveWarrant, R!ApproveSave,
                R!Reconcile, R!Spawn, R!StopCancel, R!StopSave, R!StopRevoke, R!Refuse, R!To,
                R!Save,
                R!Alive, R!env, R!store, R!work, R!hub, R!hist, R!host, RouteStoreOK, StepInv
<1>2. ASSUME NEW w \in Workers,
             R!Run(w) \/ R!ReadMain(w) \/ R!ReadAbsent(w) \/ R!ClearPost(w) \/
             R!Acknowledged(w) \/ R!Finish(w) \/ R!Fail(w) \/ R!Failed(w)
      PROVE  RouteStoreOK'
    BY <1>2 DEF R!Run, R!ReadMain, R!ReadAbsent, R!ClearPost, R!Acknowledged, R!Finish, R!Fail,
                R!Failed, R!Save, R!Go, R!env, R!store, R!work, R!hub, R!hist, R!host,
                RouteStoreOK, StepInv
<1>12. ASSUME NEW w \in Workers,
             R!ReadIntent(w) \/ R!ReadRef(w) \/ R!ReadPulls(w) \/ R!ReadPull(w) \/
             R!ReadRefAgain(w) \/ R!ReadScope(w)
      PROVE  RouteStoreOK'
    BY <1>12 DEF R!ReadIntent, R!ReadRef, R!ReadPulls, R!ReadPull, R!ReadRefAgain, R!ReadScope,
                R!Go, R!Observed, R!Observing, R!env, R!store, R!work, R!hub, R!hist, R!host,
                RouteStoreOK, StepInv
<1>3. ASSUME NEW w \in Workers, R!Start(w)
      PROVE  RouteStoreOK'
    <2>1. intent' \in {"none", "open", "applied"}
        BY <1>3 DEF R!Start, RouteStoreOK
    <2>2. UNCHANGED <<fresh, same, kill, warrant, mark, scope, result>>
        BY <1>3 DEF R!Start, R!Report, R!Go, R!env
    <2>3. UNCHANGED <<main, branch, pr, flight, done, matched, sends, late>>
        BY <1>3 DEF R!Start, R!hub, R!hist
    <2>. QED
        BY <2>1, <2>2, <2>3 DEF RouteStoreOK
<1>4. ASSUME NEW w \in Workers, R!Bind(w)
      PROVE  RouteStoreOK'
    BY <1>4 DEF R!Bind, R!Go, R!env, R!store, R!work, R!hub, R!hist, R!host, RouteStoreOK, StepInv
<1>5. ASSUME NEW w \in Workers, R!BeginStep(w)
      PROVE  RouteStoreOK'
    BY <1>5 DEF R!BeginStep, R!Go, R!env, R!store, R!work, R!hub, R!hist, R!host, RouteStoreOK,
                StepInv
<1>6. ASSUME NEW w \in Workers, R!Post(w)
      PROVE  RouteStoreOK'
    BY <1>6 DEF R!Post, R!Go, R!env, R!store, R!work, R!hub, R!hist, R!host, RouteStoreOK, StepInv
<1>7. ASSUME NEW w \in Workers, R!Complete(w)
      PROVE  RouteStoreOK'
    BY <1>7 DEF R!Complete, R!Go, R!Report, R!env, R!store, R!work, R!hub, R!hist, R!host,
                RouteStoreOK,
                StepInv
<1>8. CASE \E state \in {"PROPOSED", "FAILED"} : R!Propose(state)
    BY <1>8 DEF R!Propose, R!Save, R!env, R!store, R!work, R!hub, R!hist, R!host, RouteStoreOK,
                StepInv
<1>9. CASE (\E s \in R!Steps : R!Deliver(s)) \/ R!Elsewhere
    <2>1. matched' \in BOOLEAN
        BY <1>9 DEF R!Deliver, R!Elsewhere, R!Matching, RouteStoreOK
    <2>2. UNCHANGED <<fresh, same, kill, warrant, R!store, R!hist>>
        BY <1>9 DEF R!Deliver, R!Elsewhere, R!env
    <2>3. CASE \E s \in R!Steps : R!Deliver(s)
        <3>1. /\ flight' \subseteq R!Steps /\ done' \subseteq R!Steps
              /\ branch' \in {"absent", "ours", "other"} /\ pr' \in {"none", "open", "changed"}
              /\ UNCHANGED main
            BY <2>3 DEF R!Deliver, RouteStoreOK
        <3>. QED
            BY <2>1, <2>2, <3>1 DEF R!store, R!hist, RouteStoreOK
    <2>4. CASE R!Elsewhere
        BY <2>1, <2>2, <2>4 DEF R!Elsewhere, R!store, R!hist, RouteStoreOK
    <2>. QED
        BY <1>9, <2>3, <2>4
<1>10. CASE R!Environment
    <2>1. fresh' \in BOOLEAN /\ kill' \in BOOLEAN
        BY <1>10 DEF R!Environment
    <2>2. UNCHANGED <<same, warrant, R!store, R!hub, R!hist>>
        BY <1>10 DEF R!Environment
    <2>. QED
        BY <2>1, <2>2 DEF R!store, R!hub, R!hist, RouteStoreOK
<1>11. CASE R!Crash
    <2>1. same' \in BOOLEAN
        BY <1>11 DEF R!Crash
    <2>2. UNCHANGED <<fresh, kill, warrant, R!store, R!hub, R!hist>>
        BY <1>11 DEF R!Crash
    <2>. QED
        BY <2>1, <2>2 DEF R!store, R!hub, R!hist, RouteStoreOK
<1>. QED
    BY <1>1, <1>2, <1>3, <1>4, <1>5, <1>6, <1>7, <1>8, <1>9, <1>10, <1>11, <1>12
    DEF R!Next, R!RequestStep, R!WorkerStep

\* A step takes a free lock, or gives back its own.
LEMMA LockStep ==
    ASSUME ThreadAssumption, ThreadsOK, LockInv, R!Next
    PROVE  LockInv'
<1>1. ASSUME NEW r \in Requests,
             (\E op \in {"approve", "reconcile", "stop"} : R!Request(r, op)) \/
             R!Approve(r) \/ R!Reconcile(r) \/ (\E w \in Workers : R!Spawn(r, w))
      PROVE  LockInv'
    BY <1>1 DEF R!Request, R!Approve, R!Reconcile, R!Spawn, R!To, R!Save, R!Alive, R!env, R!store,
                R!work,
                R!hub, R!hist, R!host, ThreadAssumption, ThreadsOK, LockInv, Section
<1>2. ASSUME NEW r \in Requests, R!ApprovePending(r) \/ R!ApproveWarrant(r) \/
                                 R!ApproveSave(r)
      PROVE  LockInv'
    BY <1>2 DEF R!ApprovePending, R!ApproveWarrant, R!ApproveSave, R!To, R!Save, R!env, R!store,
                R!work, R!hub, R!hist, R!host, ThreadAssumption, ThreadsOK, LockInv, Section
<1>3. ASSUME NEW r \in Requests, R!StopCancel(r) \/ R!StopSave(r) \/ R!StopRevoke(r)
      PROVE  LockInv'
    BY <1>3 DEF R!StopCancel, R!StopSave, R!StopRevoke, R!To, R!Save, R!env, R!store, R!work, R!hub,
                R!hist, R!host, ThreadAssumption, ThreadsOK, LockInv, Section
<1>4. ASSUME NEW w \in Workers,
             R!Bind(w) \/ R!ReadMain(w) \/ R!ReadAbsent(w) \/ R!BeginStep(w)
      PROVE  LockInv'
    BY <1>4 DEF R!Bind, R!ReadMain, R!ReadAbsent, R!BeginStep, R!Go, R!env, R!store, R!work, R!hub,
                R!hist,
                R!host, ThreadAssumption, ThreadsOK, LockInv, Section
<1>5. ASSUME NEW w \in Workers, R!ClearPost(w) \/ R!Post(w) \/ R!Acknowledged(w)
      PROVE  LockInv'
    BY <1>5 DEF R!ClearPost, R!Post, R!Acknowledged, R!Go, R!env, R!store, R!work, R!hub, R!hist,
                R!host,
                ThreadAssumption, ThreadsOK, LockInv, Section
<1>6. ASSUME NEW w \in Workers,
             R!ReadRef(w) \/ R!ReadPulls(w) \/ R!ReadPull(w) \/ R!ReadRefAgain(w) \/
             R!ReadScope(w)
      PROVE  LockInv'
    BY <1>6 DEF R!ReadRef, R!ReadPulls, R!ReadPull, R!ReadRefAgain, R!ReadScope, R!Observed,
                R!Observing, R!Go, R!env, R!store, R!work, R!hub, R!hist, R!host, ThreadAssumption,
                ThreadsOK, LockInv, Section
<1>7. CASE (\E state \in {"PROPOSED", "FAILED"} : R!Propose(state)) \/
           (\E s \in R!Steps : R!Deliver(s)) \/ R!Elsewhere \/ R!Environment
    BY <1>7 DEF R!Propose, R!Deliver, R!Elsewhere, R!Environment, R!Save, R!Takes, R!Matching,
                R!env, R!store,
                R!work, R!hub, R!hist, R!host, ThreadAssumption, ThreadsOK, LockInv, Section
<1>8. ASSUME NEW r \in Requests, R!Refuse(r)
      PROVE  LockInv'
    BY <1>8 DEF R!Refuse, R!To, R!env, R!store, R!work, R!hub, R!hist, R!host, ThreadAssumption,
                ThreadsOK, LockInv, Section
<1>9. ASSUME NEW w \in Workers, R!Run(w)
      PROVE  LockInv'
    BY <1>9 DEF R!Run, R!Save, R!env, R!store, R!work, R!hub, R!hist, R!host, ThreadAssumption,
                ThreadsOK, LockInv, Section
<1>10. ASSUME NEW w \in Workers, R!Start(w)
      PROVE  LockInv'
    BY <1>10 DEF R!Start, R!Go, R!Report, R!env, R!store, R!work, R!hub, R!hist, R!host,
                 ThreadAssumption, ThreadsOK, LockInv, Section
<1>11. ASSUME NEW w \in Workers, R!ReadIntent(w)
      PROVE  LockInv'
    BY <1>11 DEF R!ReadIntent, R!Go, R!env, R!store, R!work, R!hub, R!hist, R!host,
                 ThreadAssumption,
                 ThreadsOK, LockInv, Section
<1>12. ASSUME NEW w \in Workers, R!Complete(w)
      PROVE  LockInv'
    BY <1>12 DEF R!Complete, R!Go, R!Report, R!env, R!store, R!work, R!hub, R!hist, R!host,
                 ThreadAssumption, ThreadsOK, LockInv, Section
<1>13. ASSUME NEW w \in Workers, R!Finish(w)
      PROVE  LockInv'
    BY <1>13 DEF R!Finish, R!Save, R!Go, R!env, R!store, R!work, R!hub, R!hist, R!host,
                 ThreadAssumption,
                 ThreadsOK, LockInv, Section
<1>14. ASSUME NEW w \in Workers, R!Fail(w)
      PROVE  LockInv'
    BY <1>14 DEF R!Fail, R!Go, R!env, R!store, R!work, R!hub, R!hist, R!host, ThreadAssumption,
                 ThreadsOK, LockInv, Section
<1>15. ASSUME NEW w \in Workers, R!Failed(w)
      PROVE  LockInv'
    BY <1>15 DEF R!Failed, R!Save, R!Go, R!env, R!store, R!work, R!hub, R!hist, R!host,
                 ThreadAssumption,
                 ThreadsOK, LockInv, Section
<1>16. CASE R!Crash
    BY <1>16 DEF R!Crash, R!env, R!store, R!work, R!hub, R!hist, R!host, ThreadAssumption,
                 ThreadsOK,
                 LockInv, Section
<1>. QED
    BY <1>1, <1>2, <1>3, <1>4, <1>5, <1>6, <1>7, <1>8, <1>9, <1>10, <1>11, <1>12,
       <1>13, <1>14, <1>15, <1>16
    DEF R!Next, R!RequestStep, R!WorkerStep

\* A worker keeps its place in the order of the requests.
LEMMA StepStep ==
    ASSUME ThreadAssumption, ThreadsOK, RouteStoreOK, LockInv, SentInv, StepInv, R!Next
    PROVE  StepInv'
<1>1. ASSUME NEW r \in Requests,
             (\E op \in {"approve", "reconcile", "stop"} : R!Request(r, op)) \/
             R!Approve(r) \/ R!ApprovePending(r) \/ R!ApproveWarrant(r) \/ R!ApproveSave(r) \/
             R!Reconcile(r) \/ R!StopCancel(r) \/ R!StopSave(r) \/ R!StopRevoke(r) \/ R!Refuse(r)
      PROVE  StepInv'
    BY <1>1 DEF R!Request, R!Approve, R!ApprovePending, R!ApproveWarrant, R!ApproveSave,
                R!Reconcile, R!StopCancel, R!StopSave, R!StopRevoke, R!Refuse, R!To, R!Save, R!env,
                R!store, R!work, R!hub, R!hist, R!host, ThreadAssumption, ThreadsOK, RouteStoreOK,
                LockInv, Section, StepInv, SentInv, Sending, Reading, R!Steps
<1>2. CASE (\E state \in {"PROPOSED", "FAILED"} : R!Propose(state)) \/
           (\E s \in R!Steps : R!Deliver(s)) \/ R!Elsewhere \/ R!Environment
    BY <1>2 DEF R!Propose, R!Deliver, R!Elsewhere, R!Environment, R!Save, R!Takes, R!Matching,
                R!env, R!store,
                R!work, R!hub, R!hist, R!host, ThreadAssumption, ThreadsOK, RouteStoreOK, LockInv,
                Section, StepInv, SentInv, Sending, Reading, R!Steps
<1>3. ASSUME NEW r \in Requests, \E w \in Workers : R!Spawn(r, w)
      PROVE  StepInv'
    BY <1>3 DEF R!Spawn, R!To, R!Alive, R!env, R!store, R!work, R!hub, R!hist, R!host,
                ThreadAssumption,
                ThreadsOK, RouteStoreOK, LockInv, Section, StepInv, SentInv, Sending,
                Reading, R!Steps
<1>4. ASSUME NEW w \in Workers, R!Run(w)
      PROVE  StepInv'
    BY <1>4 DEF R!Run, R!Save, R!env, R!store, R!work, R!hub, R!hist, R!host, ThreadAssumption,
                ThreadsOK, RouteStoreOK, LockInv, Section, StepInv, SentInv, Sending,
                Reading, R!Steps
<1>5. ASSUME NEW w \in Workers, R!Start(w)
      PROVE  StepInv'
    <2>1. CASE wpc' = [wpc EXCEPT ![w] = "bind"]
        BY <1>5, <2>1 DEF R!Start, R!Go, R!Report, R!hist, StepInv, ThreadsOK, Sending,
                       Reading, R!Steps
    <2>2. CASE wpc' = [wpc EXCEPT ![w] = "end"]
        BY <1>5, <2>2 DEF R!Start, R!Go, R!Report, R!hist, StepInv, ThreadsOK, Sending,
                       Reading, R!Steps
    <2>. QED
        BY <1>5, <2>1, <2>2 DEF R!Start, R!Go, R!Report
<1>6. ASSUME NEW w \in Workers, R!Bind(w)
      PROVE  StepInv'
    BY <1>6 DEF R!Bind, R!Go, R!env, R!store, R!work, R!hub, R!hist, R!host, ThreadAssumption,
                ThreadsOK, RouteStoreOK, LockInv, Section, StepInv, SentInv, Sending,
                Reading, R!Steps
<1>7. ASSUME NEW w \in Workers, R!ReadMain(w)
      PROVE  StepInv'
    BY <1>7 DEF R!ReadMain, R!Go, R!env, R!store, R!work, R!hub, R!hist, R!host, ThreadAssumption,
                ThreadsOK, RouteStoreOK, LockInv, Section, StepInv, SentInv, Sending,
                Reading, R!Steps
<1>8. ASSUME NEW w \in Workers, R!ReadAbsent(w)
      PROVE  StepInv'
    BY <1>8 DEF R!ReadAbsent, R!Go, R!env, R!store, R!work, R!hub, R!hist, R!host, ThreadAssumption,
                ThreadsOK, RouteStoreOK, LockInv, Section, StepInv, SentInv, Sending,
                Reading, R!Steps
<1>9. ASSUME NEW w \in Workers, R!BeginStep(w)
      PROVE  StepInv'
    BY <1>9 DEF R!BeginStep, R!Go, R!env, R!store, R!work, R!hub, R!hist, R!host, ThreadAssumption,
                ThreadsOK, RouteStoreOK, LockInv, Section, StepInv, SentInv, Sending,
                Reading, R!Steps
<1>10. ASSUME NEW w \in Workers, R!ClearPost(w)
      PROVE  StepInv'
    BY <1>10 DEF R!ClearPost, R!Go, R!env, R!store, R!work, R!hub, R!hist, R!host, ThreadAssumption,
                 ThreadsOK, RouteStoreOK, LockInv, Section, StepInv, SentInv, Sending,
                 Reading, R!Steps
<1>11. ASSUME NEW w \in Workers, R!Post(w)
      PROVE  StepInv'
    BY <1>11 DEF R!Post, R!Go, R!env, R!store, R!work, R!hub, R!hist, R!host, ThreadAssumption,
                 ThreadsOK, RouteStoreOK, LockInv, Section, StepInv, SentInv, Sending,
                 Reading, R!Steps
<1>12. ASSUME NEW w \in Workers, R!Acknowledged(w)
      PROVE  StepInv'
    BY <1>12 DEF R!Acknowledged, R!Go, R!env, R!store, R!work, R!hub, R!hist, R!host,
                 ThreadAssumption,
                 ThreadsOK, RouteStoreOK, LockInv, Section, StepInv, SentInv, Sending,
                 Reading, R!Steps
<1>13. ASSUME NEW w \in Workers, R!ReadIntent(w)
      PROVE  StepInv'
    BY <1>13 DEF R!ReadIntent, R!Go, R!env, R!store, R!work, R!hub, R!hist, R!host,
                 ThreadAssumption,
                 ThreadsOK, RouteStoreOK, LockInv, Section, StepInv, SentInv, Sending,
                 Reading, R!Steps
<1>14. ASSUME NEW w \in Workers, R!ReadRef(w)
      PROVE  StepInv'
    BY <1>14 DEF R!ReadRef, R!Observed, R!Observing, R!Go, R!env, R!store, R!work, R!hub, R!hist,
                 R!host,
                 ThreadAssumption, ThreadsOK, RouteStoreOK, LockInv, Section, StepInv,
                 SentInv, Sending, Reading, R!Steps
<1>15. ASSUME NEW w \in Workers, R!ReadPulls(w)
      PROVE  StepInv'
    BY <1>15 DEF R!ReadPulls, R!Observed, R!Observing, R!Go, R!env, R!store, R!work, R!hub, R!hist,
                 R!host,
                 ThreadAssumption, ThreadsOK, RouteStoreOK, LockInv, Section, StepInv,
                 SentInv, Sending, Reading, R!Steps
<1>16. ASSUME NEW w \in Workers, R!ReadPull(w)
      PROVE  StepInv'
    BY <1>16 DEF R!ReadPull, R!Observing, R!Go, R!env, R!store, R!work, R!hub, R!hist, R!host,
                 ThreadAssumption, ThreadsOK, RouteStoreOK, LockInv, Section, StepInv,
                 SentInv, Sending, Reading, R!Steps
<1>17. ASSUME NEW w \in Workers, R!ReadRefAgain(w)
      PROVE  StepInv'
    BY <1>17 DEF R!ReadRefAgain, R!Observed, R!Go, R!env, R!store, R!work, R!hub, R!hist, R!host,
                 ThreadAssumption, ThreadsOK, RouteStoreOK, LockInv, Section, StepInv,
                 SentInv, Sending, Reading, R!Steps
<1>18. ASSUME NEW w \in Workers, R!ReadScope(w)
      PROVE  StepInv'
    BY <1>18 DEF R!ReadScope, R!Go, R!env, R!store, R!work, R!hub, R!hist, R!host, ThreadAssumption,
                 ThreadsOK, RouteStoreOK, LockInv, Section, StepInv, SentInv, Sending,
                 Reading, R!Steps
<1>19. ASSUME NEW w \in Workers, R!Complete(w)
      PROVE  StepInv'
    BY <1>19 DEF R!Complete, R!Go, R!Report, R!env, R!store, R!work, R!hub, R!hist, R!host,
                 ThreadAssumption, ThreadsOK, RouteStoreOK, LockInv, Section, StepInv,
                 SentInv, Sending, Reading, R!Steps
<1>20. ASSUME NEW w \in Workers, R!Finish(w)
      PROVE  StepInv'
    BY <1>20 DEF R!Finish, R!Save, R!Go, R!env, R!store, R!work, R!hub, R!hist, R!host,
                 ThreadAssumption,
                 ThreadsOK, RouteStoreOK, LockInv, Section, StepInv, SentInv, Sending,
                 Reading, R!Steps
<1>21. ASSUME NEW w \in Workers, R!Fail(w)
      PROVE  StepInv'
    BY <1>21 DEF R!Fail, R!Go, R!env, R!store, R!work, R!hub, R!hist, R!host, ThreadAssumption,
                 ThreadsOK, RouteStoreOK, LockInv, Section, StepInv, SentInv, Sending,
                 Reading, R!Steps
<1>22. ASSUME NEW w \in Workers, R!Failed(w)
      PROVE  StepInv'
    BY <1>22 DEF R!Failed, R!Save, R!Go, R!env, R!store, R!work, R!hub, R!hist, R!host,
                 ThreadAssumption,
                 ThreadsOK, RouteStoreOK, LockInv, Section, StepInv, SentInv, Sending,
                 Reading, R!Steps
<1>23. CASE R!Crash
    BY <1>23 DEF R!Crash, R!env, R!store, R!work, R!hub, R!hist, R!host, ThreadAssumption,
                 ThreadsOK,
                 RouteStoreOK, LockInv, Section, StepInv, SentInv, Sending, Reading, R!Steps
<1>. QED
    BY <1>1, <1>2, <1>3, <1>4, <1>5, <1>6, <1>7, <1>8, <1>9, <1>10, <1>11, <1>12,
       <1>13, <1>14, <1>15, <1>16, <1>17, <1>18, <1>19, <1>20, <1>21, <1>22, <1>23
    DEF R!Next, R!RequestStep, R!WorkerStep

\* Only a marked request that was not sent is sent.
LEMMA PostStep ==
    ASSUME RouteStoreOK, StepInv, SentInv, R!Next
    PROVE  SentInv'
<1>1. ASSUME NEW r \in Requests,
             (\E op \in {"approve", "reconcile", "stop"} : R!Request(r, op)) \/
             R!Approve(r) \/ R!ApprovePending(r) \/ R!ApproveWarrant(r) \/ R!ApproveSave(r) \/
             R!Reconcile(r) \/ (\E w \in Workers : R!Spawn(r, w)) \/ R!StopCancel(r) \/
             R!StopSave(r) \/ R!StopRevoke(r) \/ R!Refuse(r)
      PROVE  SentInv'
    BY <1>1 DEF R!Request, R!Approve, R!ApprovePending, R!ApproveWarrant, R!ApproveSave,
                R!Reconcile, R!Spawn, R!StopCancel, R!StopSave, R!StopRevoke, R!Refuse, R!To,
                R!Save,
                R!Alive, R!env, R!store, R!work, R!hub, R!hist, R!host, RouteStoreOK, StepInv,
                SentInv
<1>2. CASE (\E state \in {"PROPOSED", "FAILED"} : R!Propose(state)) \/ R!Elsewhere \/
           R!Environment \/ R!Crash
    BY <1>2 DEF R!Propose, R!Elsewhere, R!Matching, R!Environment, R!Crash, R!Save, R!env,
                R!store, R!work,
                R!hub,
                R!hist, R!host, RouteStoreOK, StepInv, SentInv
<1>3. ASSUME NEW w \in Workers,
             R!Run(w) \/ R!Bind(w) \/ R!ReadMain(w) \/ R!ReadAbsent(w) \/ R!ClearPost(w) \/
             R!Acknowledged(w) \/ R!ReadIntent(w) \/ R!ReadRef(w) \/ R!ReadPulls(w) \/
             R!ReadPull(w) \/ R!ReadRefAgain(w) \/ R!ReadScope(w) \/ R!Finish(w) \/ R!Fail(w) \/
             R!Failed(w)
      PROVE  SentInv'
    BY <1>3 DEF R!Run, R!Bind, R!ReadMain, R!ReadAbsent, R!ClearPost, R!Acknowledged, R!ReadIntent,
                R!ReadRef, R!ReadPulls, R!ReadPull, R!ReadRefAgain, R!ReadScope, R!Finish, R!Fail,
                R!Failed, R!Save, R!Go, R!Observed, R!Observing, R!env, R!store, R!work, R!hub,
                R!hist,
                R!host, RouteStoreOK, StepInv, SentInv
<1>4. ASSUME NEW w \in Workers, R!Start(w)
      PROVE  SentInv'
    BY <1>4 DEF R!Start, R!Go, R!Report, R!env, R!store, R!work, R!hub, R!hist, R!host,
                RouteStoreOK, StepInv,
                SentInv
<1>5. ASSUME NEW w \in Workers, R!BeginStep(w)
      PROVE  SentInv'
    BY <1>5 DEF R!BeginStep, R!Go, R!env, R!store, R!work, R!hub, R!hist, R!host, RouteStoreOK,
                StepInv,
                SentInv
<1>6. ASSUME NEW w \in Workers, R!Post(w)
      PROVE  SentInv'
    BY <1>6 DEF R!Post, R!Go, R!env, R!store, R!work, R!hub, R!hist, R!host, RouteStoreOK, StepInv,
                SentInv
<1>7. ASSUME NEW w \in Workers, R!Complete(w)
      PROVE  SentInv'
    BY <1>7 DEF R!Complete, R!Go, R!Report, R!env, R!store, R!work, R!hub, R!hist, R!host,
                RouteStoreOK,
                StepInv, SentInv
<1>8. CASE \E s \in R!Steps : R!Deliver(s)
    BY <1>8 DEF R!Deliver, R!Takes, R!Matching, R!env, R!store, R!work, R!hub, R!hist, R!host,
                RouteStoreOK,
                StepInv,
                SentInv
<1>. QED
    BY <1>1, <1>2, <1>3, <1>4, <1>5, <1>6, <1>7, <1>8 DEF R!Next, R!RequestStep, R!WorkerStep

\* A worker goes on only after the answer to the request before.
LEMMA OrderStep ==
    ASSUME ThreadsOK, RouteStoreOK, StepInv, OrderInv, R!Next
    PROVE  OrderInv'
<1>1. ASSUME NEW r \in Requests,
             (\E op \in {"approve", "reconcile", "stop"} : R!Request(r, op)) \/
             R!Approve(r) \/ R!ApprovePending(r) \/ R!ApproveWarrant(r) \/ R!ApproveSave(r) \/
             R!Reconcile(r) \/ R!StopCancel(r) \/ R!StopSave(r) \/ R!StopRevoke(r) \/ R!Refuse(r)
      PROVE  OrderInv'
    BY <1>1 DEF R!Request, R!Approve, R!ApprovePending, R!ApproveWarrant, R!ApproveSave,
                R!Reconcile, R!StopCancel, R!StopSave, R!StopRevoke, R!Refuse, R!To, R!Save, R!env,
                R!store, R!work, R!hub, R!hist, R!host, ThreadsOK, RouteStoreOK, StepInv, OrderInv,
                R!PostedInOrder, Sending, Reading, R!Steps
<1>2. CASE (\E state \in {"PROPOSED", "FAILED"} : R!Propose(state)) \/ R!Elsewhere \/
           R!Environment
    BY <1>2 DEF R!Propose, R!Elsewhere, R!Environment, R!Save, R!env, R!store, R!work, R!hub,
                R!hist,
                R!host, ThreadsOK, RouteStoreOK, StepInv, OrderInv, R!PostedInOrder, Sending,
                Reading, R!Steps
<1>3. ASSUME NEW r \in Requests, \E w \in Workers : R!Spawn(r, w)
      PROVE  OrderInv'
    BY <1>3 DEF R!Spawn, R!To, R!Alive, R!env, R!store, R!work, R!hub, R!hist, R!host, ThreadsOK,
                RouteStoreOK, StepInv, OrderInv, R!PostedInOrder, Sending, Reading, R!Steps
<1>4. ASSUME NEW w \in Workers, R!Run(w)
      PROVE  OrderInv'
    BY <1>4 DEF R!Run, R!Save, R!env, R!store, R!work, R!hub, R!hist, R!host, ThreadsOK,
                RouteStoreOK,
                StepInv, OrderInv, R!PostedInOrder, Sending, Reading, R!Steps
<1>5. ASSUME NEW w \in Workers, R!Start(w)
      PROVE  OrderInv'
    <2>1. CASE wpc' = [wpc EXCEPT ![w] = "bind"]
        BY <1>5, <2>1 DEF R!Start, R!Go, R!Report, R!hub, R!hist, ThreadsOK, StepInv, OrderInv,
                       R!PostedInOrder, Sending, Reading, R!Steps
    <2>2. CASE wpc' = [wpc EXCEPT ![w] = "end"]
        BY <1>5, <2>2 DEF R!Start, R!Go, R!Report, R!hub, R!hist, ThreadsOK, OrderInv,
                       R!PostedInOrder, Sending, Reading
    <2>. QED
        BY <1>5, <2>1, <2>2 DEF R!Start, R!Go, R!Report
<1>6. ASSUME NEW w \in Workers, R!Bind(w)
      PROVE  OrderInv'
    BY <1>6 DEF R!Bind, R!Go, R!env, R!store, R!work, R!hub, R!hist, R!host, ThreadsOK,
                RouteStoreOK,
                StepInv, OrderInv, R!PostedInOrder, Sending, Reading, R!Steps
<1>7. ASSUME NEW w \in Workers, R!ReadMain(w)
      PROVE  OrderInv'
    BY <1>7 DEF R!ReadMain, R!Go, R!env, R!store, R!work, R!hub, R!hist, R!host, ThreadsOK,
                RouteStoreOK,
                StepInv, OrderInv, R!PostedInOrder, Sending, Reading, R!Steps
<1>8. ASSUME NEW w \in Workers, R!ReadAbsent(w)
      PROVE  OrderInv'
    BY <1>8 DEF R!ReadAbsent, R!Go, R!env, R!store, R!work, R!hub, R!hist, R!host, ThreadsOK,
                RouteStoreOK,
                StepInv, OrderInv, R!PostedInOrder, Sending, Reading, R!Steps
<1>9. ASSUME NEW w \in Workers, R!BeginStep(w)
      PROVE  OrderInv'
    BY <1>9 DEF R!BeginStep, R!Go, R!env, R!store, R!work, R!hub, R!hist, R!host, ThreadsOK,
                RouteStoreOK,
                StepInv, OrderInv, R!PostedInOrder, Sending, Reading, R!Steps
<1>10. ASSUME NEW w \in Workers, R!ClearPost(w)
      PROVE  OrderInv'
    BY <1>10 DEF R!ClearPost, R!Go, R!env, R!store, R!work, R!hub, R!hist, R!host, ThreadsOK,
                 RouteStoreOK,
                 StepInv, OrderInv, R!PostedInOrder, Sending, Reading, R!Steps
<1>11. ASSUME NEW w \in Workers, R!Post(w)
      PROVE  OrderInv'
    BY <1>11 DEF R!Post, R!Go, R!env, R!store, R!work, R!hub, R!hist, R!host, ThreadsOK,
                 RouteStoreOK,
                 StepInv, OrderInv, R!PostedInOrder, Sending, Reading, R!Steps
<1>12. ASSUME NEW w \in Workers, R!Acknowledged(w)
      PROVE  OrderInv'
    BY <1>12 DEF R!Acknowledged, R!Go, R!env, R!store, R!work, R!hub, R!hist, R!host, ThreadsOK,
                 RouteStoreOK, StepInv, OrderInv, R!PostedInOrder, Sending, Reading, R!Steps
<1>13. ASSUME NEW w \in Workers, R!ReadIntent(w)
      PROVE  OrderInv'
    BY <1>13 DEF R!ReadIntent, R!Go, R!env, R!store, R!work, R!hub, R!hist, R!host, ThreadsOK,
                 RouteStoreOK,
                 StepInv, OrderInv, R!PostedInOrder, Sending, Reading, R!Steps
<1>14. ASSUME NEW w \in Workers, R!ReadRef(w)
      PROVE  OrderInv'
    BY <1>14 DEF R!ReadRef, R!Observed, R!Observing, R!Go, R!env, R!store, R!work, R!hub, R!hist,
                 R!host,
                 ThreadsOK, RouteStoreOK, StepInv, OrderInv, R!PostedInOrder, Sending,
                 Reading, R!Steps
<1>15. ASSUME NEW w \in Workers, R!ReadPulls(w)
      PROVE  OrderInv'
    BY <1>15 DEF R!ReadPulls, R!Observed, R!Observing, R!Go, R!env, R!store, R!work, R!hub, R!hist,
                 R!host,
                 ThreadsOK, RouteStoreOK, StepInv, OrderInv, R!PostedInOrder, Sending,
                 Reading, R!Steps
<1>16. ASSUME NEW w \in Workers, R!ReadPull(w)
      PROVE  OrderInv'
    BY <1>16 DEF R!ReadPull, R!Observing, R!Go, R!env, R!store, R!work, R!hub, R!hist, R!host,
                 ThreadsOK,
                 RouteStoreOK, StepInv, OrderInv, R!PostedInOrder, Sending, Reading, R!Steps
<1>17. ASSUME NEW w \in Workers, R!ReadRefAgain(w)
      PROVE  OrderInv'
    BY <1>17 DEF R!ReadRefAgain, R!Observed, R!Go, R!env, R!store, R!work, R!hub, R!hist, R!host,
                 ThreadsOK, RouteStoreOK, StepInv, OrderInv, R!PostedInOrder, Sending,
                 Reading, R!Steps
<1>18. ASSUME NEW w \in Workers, R!ReadScope(w)
      PROVE  OrderInv'
    BY <1>18 DEF R!ReadScope, R!Go, R!env, R!store, R!work, R!hub, R!hist, R!host, ThreadsOK,
                 RouteStoreOK,
                 StepInv, OrderInv, R!PostedInOrder, Sending, Reading, R!Steps
<1>19. ASSUME NEW w \in Workers, R!Complete(w)
      PROVE  OrderInv'
    BY <1>19 DEF R!Complete, R!Go, R!Report, R!env, R!store, R!work, R!hub, R!hist, R!host,
                 ThreadsOK,
                 RouteStoreOK, StepInv, OrderInv, R!PostedInOrder, Sending, Reading, R!Steps
<1>20. ASSUME NEW w \in Workers, R!Finish(w)
      PROVE  OrderInv'
    BY <1>20 DEF R!Finish, R!Save, R!Go, R!env, R!store, R!work, R!hub, R!hist, R!host, ThreadsOK,
                 RouteStoreOK, StepInv, OrderInv, R!PostedInOrder, Sending, Reading, R!Steps
<1>21. ASSUME NEW w \in Workers, R!Fail(w)
      PROVE  OrderInv'
    BY <1>21 DEF R!Fail, R!Go, R!env, R!store, R!work, R!hub, R!hist, R!host, ThreadsOK,
                 RouteStoreOK,
                 StepInv, OrderInv, R!PostedInOrder, Sending, Reading, R!Steps
<1>22. ASSUME NEW w \in Workers, R!Failed(w)
      PROVE  OrderInv'
    BY <1>22 DEF R!Failed, R!Save, R!Go, R!env, R!store, R!work, R!hub, R!hist, R!host, ThreadsOK,
                 RouteStoreOK, StepInv, OrderInv, R!PostedInOrder, Sending, Reading, R!Steps
<1>23. CASE \E s \in R!Steps : R!Deliver(s)
    BY <1>23 DEF R!Deliver, R!Takes, R!Matching, R!env, R!store, R!work, R!hub, R!hist, R!host,
                 ThreadsOK,
                 RouteStoreOK,
                 StepInv, OrderInv, R!PostedInOrder, Sending, Reading, R!Steps
<1>24. CASE R!Crash
    BY <1>24 DEF R!Crash, R!env, R!store, R!work, R!hub, R!hist, R!host, ThreadsOK, RouteStoreOK,
                 StepInv,
                 OrderInv, R!PostedInOrder, Sending, Reading, R!Steps
<1>. QED
    BY <1>1, <1>2, <1>3, <1>4, <1>5, <1>6, <1>7, <1>8, <1>9, <1>10, <1>11, <1>12,
       <1>13, <1>14, <1>15, <1>16, <1>17, <1>18, <1>19, <1>20, <1>21, <1>22, <1>23,
       <1>24
    DEF R!Next, R!RequestStep, R!WorkerStep

\* Nobody else makes the branch or the pull request of the plan.
LEMMA SeenStep ==
    ASSUME ThreadsOK, RouteStoreOK, SeenInv, R!Next
    PROVE  SeenInv'
<1>1. ASSUME NEW r \in Requests,
             (\E op \in {"approve", "reconcile", "stop"} : R!Request(r, op)) \/
             R!Approve(r) \/ R!ApprovePending(r) \/ R!ApproveWarrant(r) \/ R!ApproveSave(r) \/
             R!Reconcile(r) \/ R!StopCancel(r) \/ R!StopSave(r) \/ R!StopRevoke(r) \/ R!Refuse(r)
      PROVE  SeenInv'
    BY <1>1 DEF R!Request, R!Approve, R!ApprovePending, R!ApproveWarrant, R!ApproveSave,
                R!Reconcile, R!StopCancel, R!StopSave, R!StopRevoke, R!Refuse, R!To, R!Save, R!env,
                R!store, R!work, R!hub, R!hist, R!host, ThreadsOK, RouteStoreOK, SeenInv
<1>2. CASE (\E state \in {"PROPOSED", "FAILED"} : R!Propose(state)) \/ R!Environment \/
           R!Crash
    BY <1>2 DEF R!Propose, R!Environment, R!Crash, R!Save, R!env, R!store, R!work, R!hub, R!hist,
                R!host,
                ThreadsOK, RouteStoreOK, SeenInv
<1>3. ASSUME NEW w \in Workers,
             R!Bind(w) \/ R!ReadMain(w) \/ R!ReadAbsent(w) \/ R!BeginStep(w) \/ R!ClearPost(w) \/
             R!Post(w) \/ R!Acknowledged(w)
      PROVE  SeenInv'
    BY <1>3 DEF R!Bind, R!ReadMain, R!ReadAbsent, R!BeginStep, R!ClearPost, R!Post, R!Acknowledged,
                R!Go, R!env, R!store, R!work, R!hub, R!hist, R!host, ThreadsOK, RouteStoreOK,
                SeenInv
<1>4. ASSUME NEW w \in Workers, R!Finish(w) \/ R!Fail(w) \/ R!Failed(w)
      PROVE  SeenInv'
    BY <1>4 DEF R!Finish, R!Fail, R!Failed, R!Save, R!Go, R!env, R!store, R!work, R!hub, R!hist,
                R!host,
                ThreadsOK, RouteStoreOK, SeenInv
<1>5. ASSUME NEW r \in Requests, \E w \in Workers : R!Spawn(r, w)
      PROVE  SeenInv'
    BY <1>5 DEF R!Spawn, R!To, R!Alive, R!env, R!store, R!work, R!hub, R!hist, R!host, ThreadsOK,
                RouteStoreOK, SeenInv
<1>6. ASSUME NEW w \in Workers, R!Run(w)
      PROVE  SeenInv'
    BY <1>6 DEF R!Run, R!Save, R!env, R!store, R!work, R!hub, R!hist, R!host, ThreadsOK,
                RouteStoreOK,
                SeenInv
<1>7. ASSUME NEW w \in Workers, R!Start(w)
      PROVE  SeenInv'
    BY <1>7 DEF R!Start, R!Go, R!Report, R!env, R!store, R!work, R!hub, R!hist, R!host, ThreadsOK,
                RouteStoreOK, SeenInv
<1>8. ASSUME NEW w \in Workers, R!ReadIntent(w)
      PROVE  SeenInv'
    BY <1>8 DEF R!ReadIntent, R!Go, R!env, R!store, R!work, R!hub, R!hist, R!host, ThreadsOK,
                RouteStoreOK,
                SeenInv
<1>9. ASSUME NEW w \in Workers, R!ReadRef(w)
      PROVE  SeenInv'
    BY <1>9 DEF R!ReadRef, R!Observed, R!Observing, R!Go, R!env, R!store, R!work, R!hub, R!hist,
                R!host,
                ThreadsOK, RouteStoreOK, SeenInv
<1>10. ASSUME NEW w \in Workers, R!ReadPulls(w)
      PROVE  SeenInv'
    BY <1>10 DEF R!ReadPulls, R!Observed, R!Observing, R!Go, R!env, R!store, R!work, R!hub, R!hist,
                 R!host,
                 ThreadsOK, RouteStoreOK, SeenInv
<1>11. ASSUME NEW w \in Workers, R!ReadPull(w)
      PROVE  SeenInv'
    BY <1>11 DEF R!ReadPull, R!Observing, R!Go, R!env, R!store, R!work, R!hub, R!hist, R!host,
                 ThreadsOK,
                 RouteStoreOK, SeenInv
<1>12. ASSUME NEW w \in Workers, R!ReadRefAgain(w)
      PROVE  SeenInv'
    BY <1>12 DEF R!ReadRefAgain, R!Observed, R!Go, R!env, R!store, R!work, R!hub, R!hist, R!host,
                 ThreadsOK, RouteStoreOK, SeenInv
<1>13. ASSUME NEW w \in Workers, R!ReadScope(w)
      PROVE  SeenInv'
    BY <1>13 DEF R!ReadScope, R!Go, R!env, R!store, R!work, R!hub, R!hist, R!host, ThreadsOK,
                 RouteStoreOK,
                 SeenInv
<1>14. ASSUME NEW w \in Workers, R!Complete(w)
      PROVE  SeenInv'
    BY <1>14 DEF R!Complete, R!Go, R!Report, R!env, R!store, R!work, R!hub, R!hist, R!host,
                 ThreadsOK,
                 RouteStoreOK, SeenInv
<1>15. CASE \E s \in R!Steps : R!Deliver(s)
    <2>1. PICK s \in R!Steps : R!Deliver(s)
        BY <1>15
    <2>2. UNCHANGED <<wpc, obs>> /\ matched' = (matched \/ (branch' = "ours" /\ pr' = "open"))
        BY <2>1 DEF R!Deliver, R!work, R!Matching
    <2>. QED
        BY <2>2 DEF SeenInv
<1>16. CASE R!Elsewhere
    BY <1>16 DEF R!Elsewhere, R!Matching, R!env, R!store, R!work, R!hub, R!hist, R!host, ThreadsOK,
                 RouteStoreOK,
                 SeenInv
<1>. QED
    BY <1>1, <1>2, <1>3, <1>4, <1>5, <1>6, <1>7, <1>8, <1>9, <1>10, <1>11, <1>12,
       <1>13, <1>14, <1>15, <1>16
    DEF R!Next, R!RequestStep, R!WorkerStep

\* Applied is saved with a verified readback, and reported after it.
LEMMA ReportStep ==
    ASSUME RowsOK, ThreadsOK, RouteStoreOK, SeenInv, ReportInv, R!Next
    PROVE  ReportInv'
<1>1. ASSUME NEW r \in Requests,
             (\E op \in {"approve", "reconcile", "stop"} : R!Request(r, op)) \/
             R!Approve(r) \/ R!ApproveWarrant(r) \/ (\E w \in Workers : R!Spawn(r, w)) \/
             R!StopCancel(r) \/ R!StopRevoke(r) \/ R!Refuse(r)
      PROVE  ReportInv'
    BY <1>1 DEF R!Request, R!Approve, R!ApproveWarrant, R!Spawn, R!StopCancel, R!StopRevoke,
                R!Refuse, R!To, R!Alive, R!env, R!store, R!work, R!hub, R!hist, R!host, RowsOK,
                R!Rows,
                ThreadsOK, RouteStoreOK, SeenInv, ReportInv
<1>2. CASE (\E s \in R!Steps : R!Deliver(s)) \/ R!Elsewhere \/ R!Environment \/ R!Crash
    BY <1>2 DEF R!Deliver, R!Elsewhere, R!Environment, R!Crash, R!Takes, R!Matching, R!env,
                R!store, R!work,
                R!hub,
                R!hist, R!host, RowsOK, R!Rows, ThreadsOK, RouteStoreOK, SeenInv, ReportInv
<1>3. ASSUME NEW w \in Workers,
             R!Bind(w) \/ R!ReadMain(w) \/ R!ReadAbsent(w) \/ R!BeginStep(w) \/ R!ClearPost(w) \/
             R!Post(w) \/ R!Acknowledged(w) \/ R!ReadIntent(w) \/ R!ReadPull(w) \/
             R!ReadRefAgain(w) \/ R!ReadScope(w) \/ R!Fail(w)
      PROVE  ReportInv'
    BY <1>3 DEF R!Bind, R!ReadMain, R!ReadAbsent, R!BeginStep, R!ClearPost, R!Post, R!Acknowledged,
                R!ReadIntent, R!ReadPull, R!ReadRefAgain, R!ReadScope, R!Fail, R!Go, R!Observing,
                R!Observed, R!env, R!store, R!work, R!hub, R!hist, R!host, RowsOK, R!Rows,
                ThreadsOK,
                RouteStoreOK, SeenInv, ReportInv
<1>4. ASSUME NEW r \in Requests, R!ApprovePending(r)
      PROVE  ReportInv'
    BY <1>4 DEF R!ApprovePending, R!To, R!Save, R!env, R!store, R!work, R!hub, R!hist, R!host,
                RowsOK,
                R!Rows, ThreadsOK, RouteStoreOK, SeenInv, ReportInv
<1>5. ASSUME NEW r \in Requests, R!ApproveSave(r)
      PROVE  ReportInv'
    BY <1>5 DEF R!ApproveSave, R!To, R!Save, R!env, R!store, R!work, R!hub, R!hist, R!host, RowsOK,
                R!Rows,
                ThreadsOK, RouteStoreOK, SeenInv, ReportInv
<1>6. ASSUME NEW r \in Requests, R!Reconcile(r)
      PROVE  ReportInv'
    BY <1>6 DEF R!Reconcile, R!To, R!Save, R!env, R!store, R!work, R!hub, R!hist, R!host, RowsOK,
                R!Rows,
                ThreadsOK, RouteStoreOK, SeenInv, ReportInv
<1>7. ASSUME NEW r \in Requests, R!StopSave(r)
      PROVE  ReportInv'
    BY <1>7 DEF R!StopSave, R!To, R!Save, R!env, R!store, R!work, R!hub, R!hist, R!host, RowsOK,
                R!Rows,
                ThreadsOK, RouteStoreOK, SeenInv, ReportInv
<1>8. ASSUME NEW w \in Workers, R!Run(w)
      PROVE  ReportInv'
    BY <1>8 DEF R!Run, R!Save, R!env, R!store, R!work, R!hub, R!hist, R!host, RowsOK, R!Rows,
                ThreadsOK,
                RouteStoreOK, SeenInv, ReportInv
<1>9. ASSUME NEW w \in Workers, R!Start(w)
      PROVE  ReportInv'
    <2>1. intent' = "applied" <=> intent = "applied"
        BY <1>9 DEF R!Start
    <2>2. \A v \in Workers : 
              obs'[v] = "applied" => obs[v] = "applied" \/ intent' = "applied"
        BY <1>9 DEF R!Start, R!Go, R!Report, ThreadsOK
    <2>. QED
        BY <1>9, <2>1, <2>2 DEF R!Start, R!Go, R!Report, R!hub, ReportInv
<1>10. ASSUME NEW w \in Workers, R!ReadRef(w)
      PROVE  ReportInv'
    BY <1>10 DEF R!ReadRef, R!Observed, R!Observing, R!Go, R!env, R!store, R!work, R!hub, R!hist,
                 R!host,
                 RowsOK, R!Rows, ThreadsOK, RouteStoreOK, SeenInv, ReportInv
<1>11. ASSUME NEW w \in Workers, R!ReadPulls(w)
      PROVE  ReportInv'
    BY <1>11 DEF R!ReadPulls, R!Observed, R!Observing, R!Go, R!env, R!store, R!work, R!hub, R!hist,
                 R!host,
                 RowsOK, R!Rows, ThreadsOK, RouteStoreOK, SeenInv, ReportInv
<1>12. ASSUME NEW w \in Workers, R!Complete(w)
      PROVE  ReportInv'
    BY <1>12 DEF R!Complete, R!Go, R!Report, R!env, R!store, R!work, R!hub, R!hist, R!host, RowsOK,
                 R!Rows,
                 ThreadsOK, RouteStoreOK, SeenInv, ReportInv
<1>13. ASSUME NEW w \in Workers, R!Finish(w)
      PROVE  ReportInv'
    BY <1>13 DEF R!Finish, R!Save, R!Go, R!env, R!store, R!work, R!hub, R!hist, R!host, RowsOK,
                 R!Rows,
                 ThreadsOK, RouteStoreOK, SeenInv, ReportInv
<1>14. ASSUME NEW w \in Workers, R!Failed(w)
      PROVE  ReportInv'
    BY <1>14 DEF R!Failed, R!Save, R!Go, R!env, R!store, R!work, R!hub, R!hist, R!host, RowsOK,
                 R!Rows,
                 ThreadsOK, RouteStoreOK, SeenInv, ReportInv
<1>15. CASE \E state \in {"PROPOSED", "FAILED"} : R!Propose(state)
    BY <1>15 DEF R!Propose, R!Save, R!env, R!store, R!work, R!hub, R!hist, R!host, RowsOK, R!Rows,
                 ThreadsOK, RouteStoreOK, SeenInv, ReportInv
<1>. QED
    BY <1>1, <1>2, <1>3, <1>4, <1>5, <1>6, <1>7, <1>8, <1>9, <1>10, <1>11, <1>12,
       <1>13, <1>14, <1>15
    DEF R!Next, R!RequestStep, R!WorkerStep

\* A worker that may still send holds the lock that the completion of another needs.
LEMMA AppliedInvStep ==
    ASSUME ThreadsOK, RouteStoreOK, LockInv, StepInv, OrderInv, AppliedInv, R!Next
    PROVE  AppliedInv'
<1>1. ASSUME NEW r \in Requests,
             (\E op \in {"approve", "reconcile", "stop"} : R!Request(r, op)) \/
             R!Approve(r) \/ R!ApprovePending(r) \/ R!ApproveWarrant(r) \/ R!ApproveSave(r) \/
             R!Reconcile(r) \/ R!StopCancel(r) \/ R!StopSave(r) \/ R!StopRevoke(r) \/ R!Refuse(r)
      PROVE  AppliedInv'
    BY <1>1 DEF R!Request, R!Approve, R!ApprovePending, R!ApproveWarrant, R!ApproveSave,
                R!Reconcile, R!StopCancel, R!StopSave, R!StopRevoke, R!Refuse, R!To,
                R!store, R!work, R!hub, AppliedInv
<1>2. ASSUME NEW r \in Requests, \E w \in Workers : R!Spawn(r, w)
      PROVE  AppliedInv'
    BY <1>2 DEF R!Spawn, R!To, R!store, R!hub, ThreadsOK, AppliedInv, Section
<1>3. CASE (\E state \in {"PROPOSED", "FAILED"} : R!Propose(state)) \/ R!Elsewhere \/
           R!Environment
    BY <1>3 DEF R!Propose, R!Elsewhere, R!Environment, R!store, R!work, R!hub, AppliedInv
<1>4. CASE R!Crash
    BY <1>4 DEF R!Crash, R!store, R!hub, AppliedInv, Section
<1>5. CASE \E s \in R!Steps : R!Deliver(s)
    BY <1>5 DEF R!Deliver, R!store, R!work, AppliedInv
<1>6. ASSUME NEW w \in Workers, R!Run(w)
      PROVE  AppliedInv'
    BY <1>6 DEF R!Run, R!store, R!hub, ThreadsOK, AppliedInv, Section
<1>7. ASSUME NEW w \in Workers, R!Start(w)
      PROVE  AppliedInv'
    <2>1. CASE intent = "none" /\ intent' = "open"
        BY <1>7, <2>1 DEF R!Start, R!hub, AppliedInv
    <2>2. CASE UNCHANGED intent /\ wpc' = [wpc EXCEPT ![w] = "end"]
        BY <1>7, <2>2 DEF R!Start, R!Report, R!Go, R!hub, ThreadsOK, AppliedInv, Section
    <2>. QED
        BY <1>7, <2>1, <2>2 DEF R!Start, R!Report, R!Go
<1>8. ASSUME NEW w \in Workers, R!Bind(w) \/ R!ReadMain(w) \/ R!ReadAbsent(w) \/ R!ClearPost(w) \/
             R!Post(w) \/ R!Acknowledged(w)
      PROVE  AppliedInv'
    BY <1>8 DEF R!Bind, R!ReadMain, R!ReadAbsent, R!ClearPost, R!Post, R!Acknowledged, R!Go,
                R!store, R!hub, ThreadsOK, AppliedInv, Section
<1>9. ASSUME NEW w \in Workers, R!BeginStep(w)
      PROVE  AppliedInv'
    <2>1. /\ at[w] \in R!Steps /\ write[w] /\ intent = "open" /\ UNCHANGED <<intent, done>>
          /\ mark' = [mark EXCEPT ![at[w]] = "unknown"]
        BY <1>9 DEF R!BeginStep, StepInv, Sending, R!hub
    <2>2. at[w] = 4 => \A s \in R!Steps \ {4} : s \in done
        BY <1>9, <2>1 DEF R!BeginStep, OrderInv, Sending, R!Steps
    <2>. QED
        BY <2>1, <2>2 DEF RouteStoreOK, AppliedInv, R!Steps
<1>10. ASSUME NEW w \in Workers,
              R!ReadIntent(w) \/ R!ReadRef(w) \/ R!ReadPulls(w) \/ R!ReadPull(w) \/
              R!ReadRefAgain(w) \/ R!ReadScope(w)
      PROVE  AppliedInv'
    BY <1>10 DEF R!ReadIntent, R!ReadRef, R!ReadPulls, R!ReadPull, R!ReadRefAgain, R!ReadScope,
                 R!Observed, R!Observing, R!Go, R!store, R!hub, ThreadsOK, AppliedInv, Section
<1>11. ASSUME NEW w \in Workers, R!Complete(w)
      PROVE  AppliedInv'
    <2>1. /\ UNCHANGED <<done, write>> /\ wpc' = [wpc EXCEPT ![w] = "end"]
          /\ \A x \in Workers : wpc'[x] \in Section => wpc[x] \in Section
        BY <1>11 DEF R!Complete, R!Report, R!Go, R!hub, ThreadsOK, Section
    <2>2. \A x \in Workers : wpc'[x] \notin Section
        BY <1>11, <2>1 DEF R!Complete, ThreadsOK, LockInv, Section
    <2>3. CASE UNCHANGED <<intent, mark>>
        BY <2>1, <2>2, <2>3 DEF AppliedInv
    <2>4. CASE mark' = [s \in R!Steps |-> "verified"] /\ \A s \in R!Steps : mark[s] # "none"
        BY <2>1, <2>2, <2>4 DEF AppliedInv, R!Steps
    <2>. QED
        BY <1>11, <2>3, <2>4 DEF R!Complete, R!store
<1>12. ASSUME NEW w \in Workers, R!Finish(w) \/ R!Fail(w) \/ R!Failed(w)
      PROVE  AppliedInv'
    BY <1>12 DEF R!Finish, R!Fail, R!Failed, R!Go, R!store, R!hub, ThreadsOK, AppliedInv, Section
<1>. QED
    BY <1>1, <1>2, <1>3, <1>4, <1>5, <1>6, <1>7, <1>8, <1>9, <1>10, <1>11, <1>12
    DEF R!Next, R!RequestStep, R!WorkerStep

\* No save drops a stop, and no check passes after one.
LEMMA StopStep ==
    ASSUME ThreadAssumption, RowsOK, ThreadsOK, RouteStoreOK, LockInv, StepInv, StopInv,
           R!Next
    PROVE  StopInv'
<1>1. ASSUME NEW r \in Requests,
             (\E op \in {"approve", "reconcile", "stop"} : R!Request(r, op)) \/
             R!Approve(r) \/ R!ApproveWarrant(r) \/ (\E w \in Workers : R!Spawn(r, w)) \/
             R!StopCancel(r) \/ R!StopRevoke(r) \/ R!Refuse(r)
      PROVE  StopInv'
    BY <1>1 DEF R!Request, R!Approve, R!ApproveWarrant, R!Spawn, R!StopCancel, R!StopRevoke,
                R!Refuse, R!To, R!Alive, R!env, R!store, R!work, R!hub, R!hist, R!host,
                ThreadAssumption,
                RowsOK, R!Rows, ThreadsOK, RouteStoreOK, LockInv, Section, StepInv, Sending,
                StopInv
<1>2. CASE (\E s \in R!Steps : R!Deliver(s)) \/ R!Elsewhere \/ R!Environment \/ R!Crash
    BY <1>2 DEF R!Deliver, R!Elsewhere, R!Environment, R!Crash, R!Takes, R!Matching, R!env,
                R!store, R!work,
                R!hub,
                R!hist, R!host, ThreadAssumption, RowsOK, R!Rows, ThreadsOK, RouteStoreOK,
                LockInv, Section, StepInv, Sending, StopInv
<1>3. ASSUME NEW w \in Workers,
             R!Start(w) \/ R!Bind(w) \/ R!ReadMain(w) \/ R!ReadAbsent(w) \/ R!BeginStep(w) \/
             R!Acknowledged(w) \/ R!ReadIntent(w) \/ R!ReadRef(w) \/ R!ReadPulls(w) \/
             R!ReadPull(w) \/ R!ReadRefAgain(w) \/ R!ReadScope(w) \/ R!Complete(w) \/ R!Fail(w)
      PROVE  StopInv'
    BY <1>3 DEF R!Start, R!Bind, R!ReadMain, R!ReadAbsent, R!BeginStep, R!Acknowledged,
                R!ReadIntent,
                R!ReadRef, R!ReadPulls, R!ReadPull, R!ReadRefAgain, R!ReadScope, R!Complete, R!Fail,
                R!Go, R!Report, R!Observed, R!Observing, R!env, R!store, R!work, R!hub, R!hist,
                R!host,
                ThreadAssumption, RowsOK, R!Rows, ThreadsOK, RouteStoreOK, LockInv, Section,
                StepInv, Sending, StopInv
<1>4. ASSUME NEW r \in Requests, R!ApprovePending(r)
      PROVE  StopInv'
    BY <1>4 DEF R!ApprovePending, R!To, R!Save, R!env, R!store, R!work, R!hub, R!hist, R!host,
                ThreadAssumption, RowsOK, R!Rows, ThreadsOK, RouteStoreOK, LockInv, Section,
                StepInv, Sending, StopInv
<1>5. ASSUME NEW r \in Requests, R!ApproveSave(r)
      PROVE  StopInv'
    BY <1>5 DEF R!ApproveSave, R!To, R!Save, R!env, R!store, R!work, R!hub, R!hist, R!host,
                ThreadAssumption, RowsOK, R!Rows, ThreadsOK, RouteStoreOK, LockInv, Section,
                StepInv, Sending, StopInv
<1>6. ASSUME NEW r \in Requests, R!Reconcile(r)
      PROVE  StopInv'
    BY <1>6 DEF R!Reconcile, R!To, R!Save, R!env, R!store, R!work, R!hub, R!hist, R!host,
                ThreadAssumption, RowsOK, R!Rows, ThreadsOK, RouteStoreOK, LockInv, Section,
                StepInv, Sending, StopInv
<1>7. ASSUME NEW r \in Requests, R!StopSave(r)
      PROVE  StopInv'
    BY <1>7 DEF R!StopSave, R!To, R!Save, R!env, R!store, R!work, R!hub, R!hist, R!host,
                ThreadAssumption, RowsOK, R!Rows, ThreadsOK, RouteStoreOK, LockInv, Section,
                StepInv, Sending, StopInv
<1>8. ASSUME NEW w \in Workers, R!Run(w)
      PROVE  StopInv'
    BY <1>8 DEF R!Run, R!Save, R!env, R!store, R!work, R!hub, R!hist, R!host, ThreadAssumption,
                RowsOK,
                R!Rows, ThreadsOK, RouteStoreOK, LockInv, Section, StepInv, Sending, StopInv
<1>9. ASSUME NEW w \in Workers, R!ClearPost(w)
      PROVE  StopInv'
    BY <1>9 DEF R!ClearPost, R!Go, R!Clear, R!Check, R!env, R!store, R!work, R!hub, R!hist, R!host,
                ThreadAssumption, RowsOK, R!Rows, ThreadsOK, RouteStoreOK, LockInv, Section,
                StepInv, Sending, StopInv
<1>10. ASSUME NEW w \in Workers, R!Post(w)
      PROVE  StopInv'
    BY <1>10 DEF R!Post, R!Go, R!env, R!store, R!work, R!hub, R!hist, R!host, ThreadAssumption,
                 RowsOK,
                 R!Rows, ThreadsOK, RouteStoreOK, LockInv, Section, StepInv, Sending, StopInv
<1>11. ASSUME NEW w \in Workers, R!Finish(w)
      PROVE  StopInv'
    BY <1>11 DEF R!Finish, R!Save, R!Go, R!env, R!store, R!work, R!hub, R!hist, R!host,
                 ThreadAssumption,
                 RowsOK, R!Rows, ThreadsOK, RouteStoreOK, LockInv, Section, StepInv, Sending,
                 StopInv
<1>12. ASSUME NEW w \in Workers, R!Failed(w)
      PROVE  StopInv'
    <2>1. [wdata[w] EXCEPT !.state = "UNKNOWN"] \in R!Rows
        BY <1>12 DEF RowsOK, R!Rows, R!RowStates
    <2>2. row.stop => row'.stop
        BY <1>12, <2>1, SaveFacts DEF R!Failed, RowsOK
    <2>. QED
        BY <1>12, <2>2 DEF R!Failed, R!Go, R!hist, ThreadsOK, StopInv
<1>13. CASE \E state \in {"PROPOSED", "FAILED"} : R!Propose(state)
    BY <1>13 DEF R!Propose, R!Save, R!env, R!store, R!work, R!hub, R!hist, R!host, ThreadAssumption,
                 RowsOK, R!Rows, ThreadsOK, RouteStoreOK, LockInv, Section, StepInv, Sending,
                 StopInv
<1>. QED
    BY <1>1, <1>2, <1>3, <1>4, <1>5, <1>6, <1>7, <1>8, <1>9, <1>10, <1>11, <1>12, <1>13
    DEF R!Next, R!RequestStep, R!WorkerStep

-----------------------------------------------------------------------------
\* The invariant holds at first.
LEMMA RouteInit ==
    ASSUME ThreadAssumption, R!Init
    PROVE  RouteInv
<1>1. R!NewRow \in R!Rows
    BY DEF R!NewRow, R!Rows, R!RowStates
<1>2. RowsOK /\ ThreadsOK
    BY <1>1 DEF R!Init, RowsOK, ThreadsOK, R!RequestSteps, R!WorkerSteps
<1>3. RouteStoreOK
    BY DEF R!Init, RouteStoreOK
<1>4. R!TypeOK
    BY <1>2, <1>3 DEF R!TypeOK, RowsOK, ThreadsOK, RouteStoreOK
<1>5. LockInv /\ StepInv
    BY DEF R!Init, LockInv, Section, StepInv, Sending, Reading
<1>6. SentInv /\ OrderInv
    BY DEF R!Init, SentInv, OrderInv, R!PostedInOrder, Sending, Reading
<1>7. SeenInv /\ ReportInv /\ StopInv
    BY DEF R!Init, R!NewRow, SeenInv, ReportInv, StopInv
<1>8. AppliedInv
    BY DEF R!Init, AppliedInv, Section, R!Steps
<1>. QED
    BY <1>4, <1>5, <1>6, <1>7, <1>8 DEF RouteInv

\* The invariant is inductive.
LEMMA RouteStep ==
    ASSUME ThreadAssumption, RouteInv, [R!Next]_(R!vars)
    PROVE  RouteInv'
<1>1. CASE R!Next
    <2>1. RowsOK /\ ThreadsOK /\ RouteStoreOK
        BY DEF RouteInv, R!TypeOK, RowsOK, ThreadsOK, RouteStoreOK
    <2>2. LockInv /\ StepInv /\ SentInv /\ OrderInv /\ SeenInv /\ ReportInv /\ AppliedInv
        /\ StopInv
        BY DEF RouteInv
    <2>3. RowsOK' /\ ThreadsOK' /\ RouteStoreOK'
        BY <1>1, <2>1, <2>2, RowsStep, ThreadsStep, StoreStep
    <2>4. R!TypeOK'
        BY <2>3 DEF R!TypeOK, RowsOK, ThreadsOK, RouteStoreOK
    <2>5. LockInv' /\ StepInv' /\ SentInv' /\ OrderInv'
        BY <1>1, <2>1, <2>2, LockStep, StepStep, PostStep, OrderStep
    <2>6. SeenInv' /\ ReportInv' /\ AppliedInv' /\ StopInv'
        BY <1>1, <2>1, <2>2, SeenStep, ReportStep, AppliedInvStep, StopStep
    <2>. QED
        BY <2>4, <2>5, <2>6 DEF RouteInv
<1>2. CASE UNCHANGED R!vars
    <2>1. R!TypeOK'
        BY <1>2 DEF RouteInv, R!TypeOK, R!vars
    <2>2. LockInv' /\ StepInv' /\ SentInv' /\ OrderInv'
        BY <1>2 DEF RouteInv, LockInv, StepInv, SentInv, OrderInv, R!PostedInOrder, R!vars
    <2>3. SeenInv' /\ ReportInv' /\ AppliedInv' /\ StopInv'
        BY <1>2 DEF RouteInv, SeenInv, ReportInv, AppliedInv, StopInv, R!vars
    <2>. QED
        BY <2>1, <2>2, <2>3 DEF RouteInv
<1>. QED
    BY <1>1, <1>2

\* The invariant holds throughout.
THEOREM RouteSafety ==
    ThreadAssumption => (R!Spec => []RouteInv)
<1> SUFFICES ASSUME ThreadAssumption
             PROVE  R!Spec => []RouteInv
    OBVIOUS
<1>1. R!Init => RouteInv
    BY RouteInit
<1>2. RouteInv /\ [R!Next]_(R!vars) => RouteInv'
    BY RouteStep
<1>. QED
    BY <1>1, <1>2, PTL DEF R!Spec

\* No request of the operation is sent twice, by whatever threads, instances,
\* lost answers and repeated requests (git_publish.py:374-386).
THEOREM RemotePostedOnce ==
    ThreadAssumption => (R!Spec => []R!PostedOnce)
<1> SUFFICES ASSUME ThreadAssumption
             PROVE  R!Spec => []R!PostedOnce
    OBVIOUS
<1>1. RouteInv => R!PostedOnce
    BY DEF RouteInv, SentInv, R!PostedOnce
<1>2. R!Spec => []RouteInv
    BY RouteSafety
<1>. QED
    BY <1>1, <1>2, PTL

\* The pull request is never asked for without the branch, nor the branch
\* without the commit (github_remote.py:260-275).
THEOREM RemotePostedInOrder ==
    ThreadAssumption => (R!Spec => []R!PostedInOrder)
<1> SUFFICES ASSUME ThreadAssumption
             PROVE  R!Spec => []R!PostedInOrder
    OBVIOUS
<1>1. RouteInv => R!PostedInOrder
    BY DEF RouteInv, OrderInv
<1>2. R!Spec => []RouteInv
    BY RouteSafety
<1>. QED
    BY <1>1, <1>2, PTL

\* What is reported as applied stood as planned; the first three requests of this operation
\* took effect, once each, and the fourth had its marker, whoever then opened the pull
\* request that the readback found (git_publish.py:457-475, github_remote.py:322-341,
\* github_write.py:296-316).
THEOREM RemoteAppliedWasPosted ==
    ThreadAssumption => (R!Spec => []R!AppliedWasPosted)
<1> SUFFICES ASSUME ThreadAssumption
             PROVE  R!Spec => []R!AppliedWasPosted
    OBVIOUS
<1>1. RouteInv => R!AppliedWasPosted
    <2> SUFFICES ASSUME RouteInv, intent = "applied" \/ row.state = "VERIFIED"
                 PROVE  /\ intent = "applied" /\ matched
                        /\ \A s \in R!Steps : mark[s] = "verified"
                        /\ \A s \in R!Steps \ {4} : sends[s] = 1 /\ s \in done
        BY DEF R!AppliedWasPosted
    <2>1. intent = "applied" /\ matched
        BY DEF RouteInv, ReportInv
    <2>2. \A s \in R!Steps : mark[s] = "verified"
        BY <2>1 DEF RouteInv, AppliedInv
    <2>3. \A s \in R!Steps \ {4} : s \in done
        BY <2>2 DEF RouteInv, AppliedInv, R!Steps
    <2>. QED
        BY <2>1, <2>2, <2>3 DEF RouteInv, SentInv
<1>2. R!Spec => []RouteInv
    BY RouteSafety
<1>. QED
    BY <1>1, <1>2, PTL

\* After the stop of the owner is recorded at most the one request that has
\* passed its last check is sent, although a stop takes no lock and every save
\* writes a whole row that may be old (github_write.py:94-103, 333-341).
THEOREM RemoteStopIsPrompt ==
    ThreadAssumption => (R!Spec => []R!StopIsPrompt)
<1> SUFFICES ASSUME ThreadAssumption
             PROVE  R!Spec => []R!StopIsPrompt
    OBVIOUS
<1>1. RouteInv => R!StopIsPrompt
    BY DEF RouteInv, StopInv, R!StopIsPrompt
<1>2. R!Spec => []RouteInv
    BY RouteSafety
<1>. QED
    BY <1>1, <1>2, PTL

\* After Applied no request passes, no marker and no result changes.
LEMMA AppliedStep ==
    ASSUME RouteInv, intent = "applied", R!Next
    PROVE  UNCHANGED <<intent, mark, scope, result, sends>>
<1>1. ASSUME NEW r \in Requests,
             (\E op \in {"approve", "reconcile", "stop"} : R!Request(r, op)) \/
             R!Approve(r) \/ R!ApprovePending(r) \/ R!ApproveWarrant(r) \/ R!ApproveSave(r) \/
             R!Reconcile(r) \/ (\E w \in Workers : R!Spawn(r, w)) \/ R!StopCancel(r) \/
             R!StopSave(r) \/ R!StopRevoke(r) \/ R!Refuse(r)
      PROVE  UNCHANGED <<intent, mark, scope, result, sends>>
    BY <1>1 DEF R!Request, R!Approve, R!ApprovePending, R!ApproveWarrant, R!ApproveSave,
                R!Reconcile, R!Spawn, R!StopCancel, R!StopSave, R!StopRevoke, R!Refuse, R!To,
                R!Save,
                R!Alive, R!env, R!store, R!work, R!hub, R!hist, R!host
<1>2. ASSUME (\E state \in {"PROPOSED", "FAILED"} : R!Propose(state)) \/
             (\E s \in R!Steps : R!Deliver(s)) \/ R!Elsewhere \/ R!Environment \/ R!Crash
      PROVE  UNCHANGED <<intent, mark, scope, result, sends>>
    BY <1>2 DEF R!Propose, R!Deliver, R!Elsewhere, R!Environment, R!Crash, R!Save, R!Takes,
                R!Matching, R!env,
                R!store, R!work, R!hub, R!hist, R!host
<1>3. ASSUME NEW w \in Workers,
             R!Run(w) \/ R!ReadMain(w) \/ R!ReadAbsent(w) \/ R!ClearPost(w) \/
             R!Acknowledged(w) \/ R!ReadIntent(w) \/ R!ReadRef(w) \/ R!ReadPulls(w) \/
             R!ReadPull(w) \/ R!ReadRefAgain(w) \/ R!ReadScope(w) \/ R!Finish(w) \/ R!Fail(w) \/
             R!Failed(w)
      PROVE  UNCHANGED <<intent, mark, scope, result, sends>>
    BY <1>3 DEF R!Run, R!ReadMain, R!ReadAbsent, R!ClearPost, R!Acknowledged, R!ReadIntent,
                R!ReadRef, R!ReadPulls, R!ReadPull, R!ReadRefAgain, R!ReadScope, R!Finish, R!Fail,
                R!Failed, R!Save, R!Go, R!Observed, R!Observing, R!env, R!store, R!work, R!hub,
                R!hist,
                R!host
<1>4. ASSUME NEW w \in Workers, R!Start(w)
      PROVE  UNCHANGED <<intent, mark, scope, result, sends>>
    BY <1>4 DEF R!Start, R!Go, R!Report, R!env, R!store, R!work, R!hub, R!hist, R!host
<1>5. ASSUME NEW w \in Workers, R!Bind(w)
      PROVE  UNCHANGED <<intent, mark, scope, result, sends>>
    BY <1>5 DEF R!Bind, R!Go, R!env, R!store, R!work, R!hub, R!hist, R!host
<1>6. ASSUME NEW w \in Workers, R!BeginStep(w)
      PROVE  UNCHANGED <<intent, mark, scope, result, sends>>
    BY <1>6 DEF R!BeginStep, R!Go, R!env, R!store, R!work, R!hub, R!hist, R!host
<1>7. ASSUME NEW w \in Workers, R!Post(w)
      PROVE  UNCHANGED <<intent, mark, scope, result, sends>>
    <2>1. wpc[w] = "cleared" /\ write[w]
        BY <1>7 DEF R!Post, RouteInv, StepInv, Sending
    <2>. QED
        BY <2>1 DEF RouteInv, AppliedInv, Section
<1>8. ASSUME NEW w \in Workers, R!Complete(w)
      PROVE  UNCHANGED <<intent, mark, scope, result, sends>>
    BY <1>8 DEF R!Complete, R!Go, R!Report, R!env, R!store, R!work, R!hub, R!hist, R!host
<1>. QED
    BY <1>1, <1>2, <1>3, <1>4, <1>5, <1>6, <1>7, <1>8 DEF R!Next, R!RequestStep, R!WorkerStep

\* An applied effect is final: later requests, readbacks, crashes and late
\* answers change neither the record nor what was sent.
THEOREM RemoteAppliedIsFinal ==
    ThreadAssumption => (R!Spec => R!AppliedIsFinal)
<1> SUFFICES ASSUME ThreadAssumption
             PROVE  R!Spec => R!AppliedIsFinal
    OBVIOUS
<1>1. RouteInv /\ [R!Next]_(R!vars) =>
          [intent = "applied" => UNCHANGED <<intent, mark, scope, result, sends>>]_(R!vars)
    BY AppliedStep
<1>2. R!Spec => []RouteInv
    BY RouteSafety
<1>. QED
    BY <1>1, <1>2, PTL DEF R!Spec, R!AppliedIsFinal
=============================================================================
