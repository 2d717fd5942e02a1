# AIOA-spArkHAT: verification of the Core authority path

This directory holds TLA+ models of the part of AIOA that decides whether
something may happen in the world and records whether it did: the dual governor,
advisory jobs, the warrant ledger and effect-intent journal, the service guard,
the transaction runner and schema migration under them, and the subsystems that
act through them: the LITE watch with the critical loop, CloudOps, device
pairing, the provider permit gate, the owner's memory and the publication of an
approved commit on GitHub. The models are checked with TLC on small instances;
their safety is proved with TLAPS for every instance, and so are the two
refinements.

The models follow `src/runtime`, whose names they keep: an action is named after
the method it models, and `PROJECT.json` maps every definition to its lines.

## 1. The system

AIOA is a Python host for advisory language-model agents. Models only ever
*propose*. What turns a proposal into money spent, a request sent or a target
changed is a small deterministic Core over a transactional store. Its callers
are threads and processes that may be killed at any instruction, its commits may
succeed without an acknowledgement (`CommitOutcomeUnknown`), and its targets may
do the work and lose the answer. The Core's rule is the same everywhere: record
durably *before* acting, treat everything in between as spent and unknown, and
never act again to find out.

| Component (source) | State | Operations | Hard behaviour | What makes it correct |
|---|---|---|---|---|
| Dual governor (`mission/governor.py`) | one snapshot per write: reservations, circuits, epoch, kill switch, clock, money ceilings; reviews | start_epoch, set_kill, apply_money_policy, reserve, dispatch_commit, release_not_dispatched, mark_unknown, settle | lost acknowledgements, callers with an old epoch, clock steps, half-open circuits, bounded history | a request is permitted once and never refunded; ceilings hold; takeover fences |
| Advisory jobs, required-task completion (`mission/jobs.py`, `completion.py`) | one record per task: state, claim with fence and lease, result | submit, claim, takeover, renew, begin, finish | lease expiry during the durable START, racing workers, job and reservation changed by different methods, dependency cycles | one step per task, granted to the claim on record; nothing done before what it requires |
| Warrant ledger, effect-intent journal, Meta model API release (`mission/warrant.py`, `intent.py`, `providers/meta_model_api.py`) | one approval per nonce, one intent and outbox row per operation | approve, delegate, revoke, consume; START (three variants), reconcile, acknowledge; check, consume, dispatch | delegation, revocation and consumption race; the verifier is asked outside the transaction; owner-wide barrier | one decision is one permission; outcomes serial, true and delivered once |
| Service guard (`service_guard/`) | seven immutable phase records per operation, effect lock, the target's state and receipts | approve, revoke, cycle (propose, allow, reserve, intend, boundary, POST, reconcile) | crash between any two of ~20 calls; late POST; revoke racing the POST | at most one POST, on the approved state; what happened is verified |
| Transaction runner (`memory_patch/persistence`, `adapters/cockroach`) | a caller's attempt, pooled connections with a request context, OPERATION records | run with retries, execute_once, reconcile, pool checkout and return, close | serialization failures, acknowledgement lost, a commit that lands late | writes take effect at most once; the answer is never a lie |
| Schema migration (`migration_controller.py`) | tracking rows, catalog, certificate | inspect, plan, execute (roles, bootstrap, statements, prelude, certify) | DDL that cannot be rolled back, death between a statement and its row, overlapping executors, objects dropped meanwhile | rows are true; only a schema executed to the end, with everything that is looked for in place, is certified; an acknowledgement gap that shows in the catalog is not replayed |
| LITE watch and journal (`mission/lite_*.py`) | watch row and queue, reservation rows, repair claims | tick, drain, retry, private chat, stop, restart | every provider call is reserved and settled in different transactions by a process that may die between; clock set either way | budget given back only for unused calls; an uncertain call closes the watch |
| Critical loop (`critical_loop/service.py`) | the run's view, its worker thread, the worker claim | plan, start, cancel, deadline, wait | the view ends while the worker is about to send | what the caller settles by is what was sent |
| Nonzero CloudOps (`nonzero_cloudops/`) | run and checkpoint records, inventory with receipts, provenance log and head | start, request_approval, decide, resume | each file replacement may fail, take effect unreported or be the last before a crash | the resource changes only as approved; a change is recognised after a crash; execution ends |
| Mobile gateway (`mobile_gateway/`) | invitations, requests, devices, enrollment codes, sessions, challenges, recent nonces | invite, request, decide, complete, reconnect, enroll, revoke, restart | three paths to a session; owner decisions between the messages of a path; scans that read a limited number of records | no session outlives the consent it rests on; a signed packet is used again only past its window or after a clock set back |
| Provider live gate (`providers/live_gate.py`, `nvidia.py`) | permit, usage ledger, one-use authorization | issue, require, authorize, consume, transport | several processes with one permit; a repository that changes while it is hashed file by file | no more calls than permitted, each from the tested source |
| Memory patch (`memory_patch/personal`, `audit.py`) | slot, patches, challenges, approvals, receipts, outbox, Core log and head | create, configure, suspend, archive, delete; intake, advance, challenge, decide, commit, activate, revoke, supersede; publish, acknowledge, reconcile | configuration, manifest, evidence and publication change between any two of six steps | what a model is given is what the owner approved |
| Git publication (`meta_hackathon/github_write.py`, `mission/git_publish.py`, `mcp_bridge/github_remote.py`, `dispatch_registered_remote_git`) | the operation's row, warrant, intent, one marker per request, credential scope, receipt; the repository | propose, approve, stop, reconcile; START, four POSTs, readback, complete | requests that arrive late or never; a stop that takes no lock and saves an old row; others change the repository; a readback in a new process | every request is sent once and in order; what is reported as applied stood as planned, on a branch made here; a stop is prompt |

How they interact. Governor, jobs, ledger and journal share one store; each
public method is one serializable transaction on it, run by the transaction
runner. Jobs and the journal do not call the governor's methods: they run its
pure transitions (`_reserve_state`, `_dispatch_state`, `_unknown_state`,
`_settle_state`) inside their *own* transactions, next to the governor's own
callers. The service guard calls the governor's methods between its own commits,
and is called by the scheduler's tick. Git publication is a registered remote
route: the guard's static method runs its START in the journal and its effect
under the mission lock. The LITE watch consults the critical loop
and settles its budget by the numbers in the loop's view.

The list of what is hard to test, each at its line, is `hazards` in
`PROJECT.json`; the properties below were chosen from it.

## 2. Modules

| Module | Models | Notes |
|---|---|---|
| `GovernorState` | the snapshot and the pure transitions | `XxxOK` are the conditions the code denies on, `Xxx` the snapshot it hands to `_write` |
| `Governor` | the governor's methods as actions | every call may carry any epoch up to the present and any clock reading; two readings where the code takes two |
| `Jobs` | jobs and completion over `GovernorState` | `begin` and its return are two steps, as the code reads the clock again after the commit |
| `SerialEffects` | what the journal promises an owner | abstract: send, learn, deliver |
| `IntentJournal` | ledger, journal and provider release over `GovernorState` | refines `SerialEffects` |
| `ServiceGuard` | the guard's cycle, its target, the scheduler around it | the governor appears as the state of one reservation and may refuse any call |
| `CommitOnce` | what `TransactionRunner.run` promises its caller | abstract: at most one effect, and what "ok", "failed", "unknown" mean |
| `TransactionRunner` | retry loop, commit classification, idempotency, pool | refines `CommitOnce`; the database is external |
| `Migration` | the migration controller with several executors | |
| `CriticalLoop` | one run of the loop and its worker | composed into `LiteWatch` by EXTENDS |
| `LiteWatch` | scheduler, chat, journal, over `CriticalLoop` | |
| `CloudOps` | the four operations as sequences of file replacements | |
| `Pairing` | pairing, enrollment, reconnect and sessions | |
| `ReplayWindow` | time stamps and retained nonces of one device | proved only |
| `LiveGate` | permit, source reader, ledger and transport | proved only |
| `PersonalMemory` | slot, patches, owner decisions, publication | |
| `RemoteGit` | one approved commit and draft pull request, its threads, GitHub | proved only |
| `GovernorStateProofs`, `GovernorProofs`, `JobsProofs`, `IntentJournalProofs`, `ServiceGuardProofs`, `PersistenceProofs`, `ConsentProofs`, `GatewayProofs` | lemmas and theorems | section 6 |
| `MC*` | one instance each for TLC | |

### Correspondence

*Governor.* `gov` is the snapshot `_load` returns. Dictionaries are total
functions with the value `Absent` for a missing key; a circuit "exists" once its
provider has a reservation, as `setdefault` files it. `_change` is: load, clock
check, transition, `_validate`, append, which is `Loadable`, `ClockOK`, the
transition's guard and `Write` in each action. `permits`, `fenced` and `trial`
are history variables. `dispatch_commit` has a parameter `acked`: an
unacknowledged commit changes the snapshot and permits nothing. Digests and
principals are abstracted: two requests with one id are two bindings.

*Jobs.* `job` is the record `load_job` returns and `gov` the snapshot both are
written with. `now` in an action is any reading of a clock that may be set to any
time. The code samples it before the transaction, where it is compared with the
record's last reading, and again, in `begin`, after the commit, where it is compared
with the first reading and the lease only.
`issued` holds every claim a worker ever had in hand, so a call may come with any
old one. `Reach` is the walk of `require_task_completion`.

*IntentJournal.* `ledger` is keyed by nonce, `intents` by operation. `start` is
the whole of `_start_in_transaction` (barrier, reserve, dispatch, mark unknown,
consume, file), for its paid and zero-cost variants. `reconcile` is split at the
verifier call: `verify` reads and asks, `apply_resolution` applies any answer read
so far. The governor's own methods run beside the journal on *any* reservation, an
operation's own included: an operator may settle, release or mark unknown what an
intent reserved. A provider release is `check`, `consume`, `dispatch_commit` by a
caller that other callers interleave with. `target` and `act` are external: what
really happened.

*ServiceGuard.* `records` holds the phases `_put` has stored; they are immutable,
so booleans suffice, except for the approval (revision, effect count, window) and
the proposal (the revision it expects, 0 for "no effect"). `full` is the quota of
audit rows of the namespace, which other writers share: from then on `_put`
refuses every new record. The target reads the time twice, so its receipt may be
dated past the consent's expiry (`late`), and the guard refuses it then.
`run[o].at` names the next call of the cycle. The boundary (`enter` to `answered`)
holds `_effect_lock`, which `approve` and `revoke` also take. A commit may be lost
(`PutLost`, `RiskLost`: stored or not, the cycle ends UNKNOWN), a target read may
fail (`ReadLost`), the process may `crash` between any two calls, the POST may
arrive after the client gave up on it, or never.

*TransactionRunner.* A transaction is its snapshot of `db`; a COMMIT whose
snapshot is stale is refused with 40001. `inflight` holds commits whose
acknowledgement was lost: each lands later or never. `conn[x].ctx` is the request
context a connection carries; the pool must hand it out and take it back clean.

*Migration.* The catalog is the set of roles and statements done. Its fingerprint
is the part of it `catalog()` reads (`Visible`): a REVOKE FROM PUBLIC, for one,
leaves no trace there. `validate_catalog` notices the absence of what
it looks for by name (`Checked`): roles, tables, owners, policies, primary keys, functions with their
grants, triggers and the vector index, but not a column, a CHECK, a foreign key,
another index or a table grant. A statement and the row that counts it are two
steps; an executor may fail or die between them.

*LiteWatch, CriticalLoop.* One call at a time holds the mutex; `pc` names its next
step. A reservation row is written before a call and settled after it. `processed`
in a row is what the provider did, which the code cannot see. The loop's worker
goes on after the view was closed by the deadline or the operator.

*CloudOps.* `op` is the operation in progress and its next write. Every write has
four outcomes: done, failed, done but reported failed, or the last thing before a
crash. `traceOK`, `full` and `killed` are what refuses an operation before it
begins: a torn log, a log without room for what the operation may add, the kill
switch. `Unavailable` is the inventory not readable. The check of an execution's
output against its budget (`_check_execution_output`) looks only at the approval
and the evidence, which are fixed before the execution, and is not modelled.

*Pairing, ReplayWindow.* Every handler holds the gateway lock and is one step. A
scan returns some `Limit` of the records. In `ReplayWindow` a handler reads the
clock for the earlier bound of the time stamp (`Receive`), for the later one
(`Stamped`) and for each nonce on record (`Look`), and only then accepts or
refuses; the clock may be set to any time between any two readings.

*LiveGate.* A reading of the source state takes N + 2 steps: HEAD, each file, the
evidence. A caller reads three times (require, authorize, transport).

*PersonalMemory.* A stored record keeps what it was bound to: configuration
revision, manifest, evidence. `Configured`, `Current`, `Published`, `Approved`,
`Committed`, `Usable` are the `require_*` functions; `Usable` is what the
retrieval asks of each patch. A call with an outdated revision is refused and
changes nothing, so calls carry the current one; `operation`'s idempotency is
that of `TransactionRunner`. `newest` and `consent` are history: the last
challenge the owner asked for, and what held when the owner said yes to it. The
log (`logged`) and its head (`sealed`, the entries the head covers) are two files:
a publication may break between them, and `headOK` says that they agree.

*RemoteGit.* `row` is the record `native-github-<operation>`; `held` and `wdata`
are the copies a request and a worker thread read and save whole. `rpc` and `wpc`
name a thread's next step, `lock` is the mission lock (the target guard). `fresh`
stands for everything a review is bound to that may change and change back
(source, lease, session, epoch, expiry), `same` for the host instance. `Clear` is
`release` for a writing worker and the cancellation token for one that reads back.
A request is in `flight` until GitHub takes it, refuses it or never sees it;
`done` is what took effect at GitHub by these requests, `matched` whether branch
and pull request ever stood as planned, whoever made them: others may make the
branch at the planned commit and open a look-alike pull request. `Fail` stands for
every check, call or save of a worker that is refused or times out, `Refuse` for
the early answers of a request.

## 3. Runs

| Run | Instance | Distinct states | Shows |
|---|---|---|---|
| `governor` | 3 requests, 2 tasks, a second binding of one id, a review | 52,114 | permit once, budgets, fencing, circuits, kill barrier |
| `jobs` | a job and the one it requires, or a cycle of the two, 2 workers, any clock to 2 | 137,618 | one step, to the claim on record; job and reservation agree; required tasks first |
| `intent` | 4 warrants on 2 nonces, 2 sessions, 2 callers, an operator at the governor | 108,013 | one use per decision, records stay readable, delivery true, consumed before sent, refinement |
| `guard` | 1 operation, 3 faults, clock in both directions, any proposal, audit quota | 428,232 | effect on the approved state, one POST, nothing after revoke, risk follows effect, verified in the end |
| `transaction` | 2 callers, 1 key with 2 payloads, 2 connections | 60,366 | one mutation per key, pool isolation, refinement of `CommitOnce` |
| `migration` | 2 executors, 3 units, 3 faults, statements that leave no trace or are not looked for | 332,714 | rows true and in order, certified is complete, gap not replayed |
| `pairing` | 1 device, 2 invitations, 2 requests, 1 code, 2 Core instances | 550,582 | sessions need consent, one at a time, approval starts over |
| `cloudops` | 1 run, 2 challenges, 3 faults, log quota, kill switch | 502,336 | approved, logged, recognised, proved, and it ends |
| `lite` | 2 observations, 1 chat, loop of 2 calls, 4 reservation rows | 3,618,912 | released was unused, hourly limit, one chat, nothing after an uncertain call |
| `memory` | 2 candidates, 2 challenges, 2 manifests, 2 configurations, quota 0 to 2 | 2,610,112 | used is consented, within quota, record before act |
| `governor_history` | as `governor` | violation | section 7 |
| `guard_report` | 1 operation, 1 fault | violation | section 7 |

Deadlock is checked in `guard`, `guard_report` and `memory`. Elsewhere
`CHECK_DEADLOCK FALSE` is set because the system really may stop: a governor at
its history quota refuses every load (`governor`, `jobs`, `intent`), callers,
executors and operators may have nothing left to do within the bounds on runs,
faults, instances and time (`transaction`, `migration`, `pairing`, `cloudops`,
`lite`).

Each module's `TypeOK` (`SchemaTypeOK` of `Migration`) holds on the same instances
(add it to the cfg as an INVARIANT); the runs keep to properties that say more.

### Bounds, and why they are enough

* `HistoryLimit` (1024 in the code) is 6 to 16, the code's own bound on the length
  of a history. Six writes are enough for epoch, reserve, dispatch, takeover,
  policy and kill. A job's write takes two rows, so the jobs run has sixteen: an
  epoch, one job from submission to DONE in four writes and the job that requires
  it in four more, the last of which finds fifteen rows. Two runs add a CONSTRAINT
  of their own: `MCBound` of `MCJobs` admits `MaxOperated` 3 writes of the
  operator beside the workers' (`MaxJobVersion` 5 bounds those), and that of
  `MCIntent` histories of `MaxVersion` 5 writes, of one less after a takeover and of
  one less under the kill switch: enough for an effect resolved and another
  started, or for a call sent beside an effect.
* `MaxTime` 1 to 2 with `Cooldown` and `MaxStep` 1 or 2: enough for a step that
  is in time, at the limit, too long and backwards. `Threshold` 1 and `Recovery`
  2 let a circuit open, probe, fail and count towards recovery.
* Requests of the governor run share a task, a provider and the global ceiling,
  and together exceed each, so each of the three levels is the one that denies.
* `MaxFaults` 3 in `guard`, `cloudops` and `migration`: a lost write, a crash
  during the recovery and another during the recovery of that; in `migration`
  what others undo counts too.
* In `migration` three of the four statements show in `catalog()`, two of which
  `validate_catalog` looks for; one of each kind can be undone by others.
* `MaxRevision` 3: the target changes before, between and after two effects.
* `MaxAttempts` 2 and `MaximumIdle` 1 in `transaction`: one retry, and a pool
  that must turn a connection away.
* `Limit` 2 in `pairing`: two sessions or requests fill a scan.
* `lite`: a window of 2 seconds on a clock of 3 readings that may go either way,
  three requests per window and four rows, so that both limits deny.
* `memory`: quota 0 denies the first activation, 1 the second, 2 none; the
  second configuration makes everything bound to the first one stale; two
  challenges are enough for one patch asked twice, or two patches asked once.
* Symmetry is used for workers, callers, sessions, executors, connections,
  challenges and manifests where no operator tells them apart, and only in runs
  without liveness properties.

## 4. Properties

Each property's comment says which behaviour of the code it is about. Those that
take several actors and several steps to violate:

* *One effect.* `PermitOnceNeverRefunded`, `OneStepPerTask`, `OneUsePerDecision`,
  `OneAttempt`, `OneMutationPerKey`, `ChatOnce`, `GapNotReplayed`.
* *The record is true.* `JobMatchesReservation`, `IntentsStayReadable`,
  `DeliveredIsTrue`, `SentWasConsumed`, `RiskFollowsEffect`, `RowsAreTrue`,
  `CertifiedIsComplete`, `ReleasedWasUnused`, `SuccessIsProved`,
  `RecordPrecedesAct`.
* *Consent is current when used.* `EpochFencing`, `StepOnlyToHolder`,
  `RevokedGrantsNothing`, `NothingSentAfterRevoke`, `EffectOnApprovedState`,
  `ChangeWasApproved`, `LiveNeedsConsent`, `ApprovalStartsOver`,
  `UsedIsConsented`.
* *Limits.* `PermitsWithinBudget`, `CircuitIntegrity`, `RequestsWithinHour`,
  `PoolIsolation`, `QuotaHolds`.

*Refinement.* `IntentJournal` implements `SerialEffects` under the mapping that
reads `outcome` from the intents and `delivered` from the outbox.
`TransactionRunner` implements `CommitOnce`.

*Liveness.* `EffectIsVerified`: an effect that happened at the target is
eventually recorded as verified, through any finite number of faults. Three things
leave it UNKNOWN for ever: the target has moved on meanwhile (on purpose), it dated
the receipt past the consent's expiry (`Accepted` leaves such a receipt out), or
the namespace has no audit row left. `ExecutionEnds`: a CloudOps run under
execution reaches a final state, unless the provenance log was torn or has reached
its quota, and provided the kill switch is off again and again (`[]<>~killed`).

### Fairness

`FairSpec` of `ServiceGuard` asks for weak fairness of three things per
operation. `cycle`: `AgentRuntime.run` ticks in a loop for as long as the process
lives and each call inside a cycle returns. `unanswered`: the HTTP client has a
timeout. `restart`: a stopped scheduler is replaced by another on the same
journal, an assumption about the host's supervisor. `LiveSpec` of `CloudOps` asks
that the thread of an operation runs on (weak), and that the operator repeats a
resume that keeps being possible (strong, since the operation in progress
disables it); nothing in the code resumes by itself, so this is an assumption
about the operator. Nothing is assumed of the owner, of targets, of clocks or of
faults; faults are finitely many by `MaxFaults`.

## 5. Mutants

Each property is shown to be about the code by a mutant: a plausible mistake in a
mapped definition (a guard dropped, a slot not freed, a lock not taken, a fence
not advanced) that makes TLC report the property violated in the same run. The
mutated form stands just before the definition it mutates.

## 6. Proofs

| Module | Theorem | States |
|---|---|---|
| `GovernorProofs` | `TypeCorrect` | `[]TypeOK` |
| | `PermitSafety` | `[]PermitOnceNeverRefunded` |
| | `FencingSafety` | `[]EpochFencing` |
| | `CircuitSafety` | `[]CircuitIntegrity` |
| | `SingleFlightSafety` | `[]HalfOpenSingleFlight` |
| | `FinalitySafety` | `SpentIsFinal`, an action property |
| | `KillSafety` | `KillBarrier`, an action property |
| | `BudgetSafety` | `[]PermitsWithinBudget` |
| | `WatchReleasesUnused` | `LiteWatch`: `[]ReleasedWasUnused` |
| | `WatchWithinHour` | `[]RequestsWithinHour` |
| | `WatchAsksOnce` | `[]ChatOnce` |
| | `WatchStopsWhenUncertain` | `NoCallAfterUncertain`, an action property |
| `JobsProofs` | `StepsAreSingle` | `[]OneStepPerTask` |
| | `JobsMatchReservations` | `[]JobMatchesReservation` |
| | `RequirementsComeFirst` | `[]RequiredTasksFirst` |
| | `StepsGoToHolders` | `StepOnlyToHolder`, an action property |
| `IntentJournalProofs` | `DecisionsAreUsedOnce` | `[]OneUsePerDecision` |
| | `IntentsReadable` | `[]IntentsStayReadable` |
| | `DeliveryIsTrue` | `[]DeliveredIsTrue` |
| | `SentCallsConsumed` | `[]SentWasConsumed` |
| | `RevocationHolds` | `RevokedGrantsNothing`, an action property |
| | `JournalImplementsSerialEffects` | the journal implements `SerialEffects` |
| `ServiceGuardProofs` | `GuardAttemptsOnce` | `[]OneAttempt` |
| | `GuardEffectOnApprovedState` | `[]EffectOnApprovedState` |
| | `GuardRiskFollowsEffect` | `[]RiskFollowsEffect` |
| | `GuardNothingSentAfterRevoke` | `NothingSentAfterRevoke`, an action property |
| | `RemotePostedOnce` | `RemoteGit`: no request is sent twice |
| | `RemotePostedInOrder` | a request is sent only when the earlier ones took effect |
| | `RemoteAppliedWasPosted` | what is reported as applied stood as planned, and the requests up to the branch were sent by this operation and took effect |
| | `RemoteStopIsPrompt` | at most one request is sent after the stop is recorded |
| | `RemoteAppliedIsFinal` | an applied effect never changes, an action property |
| `PersistenceProofs` | `KeysMutateOnce` | `[]OneMutationPerKey` |
| | `PoolIsIsolated` | `[]PoolIsolation` |
| | `RunnerKeepsPromise` | the runner implements `CommitOnce` |
| | `MigrationRowsAreTrue` | `Migration`: `[]RowsAreTrue` |
| | `MigrationCertifiesComplete` | `[]CertifiedIsComplete` |
| | `MigrationGapNotReplayed` | `[]GapNotReplayed` |
| `ConsentProofs` | `OnlyConsentedMemoryIsUsed` | `PersonalMemory`: `[]UsedIsConsented` |
| | `MemoryWithinQuota` | `[]QuotaHolds` |
| | `MemoryRecordPrecedesAct` | `RecordPrecedesAct`, an action property |
| | `MemoryDeletionIsComplete` | `[]DeletionIsComplete` |
| | `CloudChangeWasApproved` | `CloudOps`: `[]ChangeWasApproved` |
| | `CloudChangeIsRecognised` | `[]ChangeIsRecognised` |
| | `CloudSuccessIsProved` | `[]SuccessIsProved` |
| `GatewayProofs` | `SessionsNeedConsent` | `Pairing`: `[]LiveNeedsConsent` |
| | `SessionsAreSingle` | `[]OneLiveSession` |
| | `ApprovalsStartOver` | `ApprovalStartsOver`, an action property |
| | `PacketReusedOnlyLate` | `ReplayWindow`: a packet is accepted again only past its window or after a clock set back, an action property |
| | `PacketUsesBounded` | it is used at most twice for every time the clock is set back, and twice if it never is |
| | `PermitBoundsCalls` | `LiveGate`: no more calls are sent than the permit allows |
| | `CallsFromTestedSource` | an undisturbed call is sent from the source its permit names |

All are about the component's `Spec`, for every value of the constants that meets
the named assumption of its module: typing of the constants, that an absent value
is not a present one, that limits are positive, and the few facts named below.
`GovernorProofs`, `PersistenceProofs` and `ConsentProofs` extend two components
each, which share no name and no state (hence `LiteSpec`, `SchemaSpec` and
`CloudSpec`). `RemoteGit`, `ReplayWindow` and `LiveGate` are taken in by a named
INSTANCE; there the component's assumption is the theorem's premise, as
`MemoryAssumption` is for the owner's memory, and nothing else is.

Each argument is an inductive invariant, because what a caller, an owner or a
target may rely on is seldom inductive alone. TLC evaluated these on the instances
of section 3: `JobsInv`, `JournalInv`, `GuardInv`, `PairingInv`, `RunnerInv`,
`MigrationInv`, `CloudInv`, `MemoryInv`, and `WatchInv` on that of `lite` (its
parts, with the types of the queue narrowed to what TLC can enumerate).

*Governor.* For any set of requests, any policy, any bounds and any clock. The
assumptions are typing of the constants, `Cooldown <= MaxStep` (which
`GovernorPolicy` requires) and that `None` is no request id and no evidence.
`GovernorStateProofs` shows of each transition what it does to a well-formed
snapshot: which reservation and which circuit it touches, and that the result is
well formed. The invariants then follow per action. `PermitOnceNeverRefunded` is
inductive with `TypeOK`: a permit needs `RESERVED` and leaves it, and no
transition leads from a spent state back. `EpochFencing` is not: a fenced
reservation is not dispatched because its epoch is *smaller* than the current
one, so the induction carries `FencedIsStale`. `CircuitIntegrity` needs to know
that whoever resolves a reservation that is the probe frees the slot in the same
transition. `HalfOpenSingleFlight` rests on both. The two action properties
follow from `OneEntryChanges`: a step changes at most one reservation, along one
of six edges, of which the kill switch leaves four.

`PermitsWithinBudget` is about a sum over the permitted requests. `Total` counts
it as a set with one element per unit a reservation binds, so that more
reservations have a larger total because they are a larger set, with no induction
over it. `BudgetInv` says that everything *charged* (reserved, dispatched,
unknown or settled) is within the ceilings in force, which `_validate` checks in
every write, also that of a policy that lowers them; what was permitted is among
it because a permit is never refunded.

*Jobs.* For any tasks, workers, leases, dependencies and any clock.
`OneStepPerTask` counts what workers were told; `StepInv` adds what they are
*about* to be told. A call on its way back from `begin` is the only one its task
ever had. Its claim is on record, or the record has a reading at or past the
claim's lease, so that only a reading *before* it, by a clock set back, can still
grant the step (`StepsGoToHolders`, section 7). `JobMatchesReservation` is
inductive since a job and its reservation are written in one transaction and a job
whose step may run is never reset.

*LITE watch.* For any budgets, window, group size, queue, chats and clock
(`LiteAssumption`: typing, positive limits, and that a chat's id is no trace id of
the scheduler). `OpenRows` says which rows may be open at each step of the call
that holds the mutex: none between calls, the last one around a call, those of the
latest group during the critical loop, and around a call everything before it is
settled for certain. `OpenWork` bounds what of the open rows the provider may have
worked on: nothing before it is sent, not more than the view counts while the loop
is waited for, not more than the verdict counts when it is settled. The view is
not the whole story, since the worker may outlive it: `WorkerRows` says that a
worker that still runs works on the latest rows, that each of them is open or
unknown, and that the mutex is with a call that waits for it or settles all of
them as unknown, or with nobody. As an unknown row admits no further reservation,
they stay the latest (`WorkerIsUncertain`). `RequestsWithinHour` is about hours
that end at any time, also before the present: an hour that holds a new row holds,
of the earlier rows, only some that the budget counted, since the budget also
counts rows made by a later clock (`ReservedWithinHour`). `ChatOnce` needs
`ChatRows` (one row per chat and per repair, which the durable claim names) and
`ChatAnswered`: while a chat is reviewed, looped on or repaired, its row is
committed. `NoCallAfterUncertain` follows because a call is sent only where every
earlier row is settled for certain, and released rows were unused.

*Effect-intent journal.* For any warrants, nonces, sessions and callers.
`IntentShape` pins an intent to three stages, each with its outcome and outbox
row, and says that one that is known tells what really happened. The operator's
own settle may take the reservation of an intent that is still unknown; the intent
then stays unreadable and open, and nothing else may (`IntentsReadable`). A provider
release is three transactions, so `UseInv` and `CallInv` follow the caller in
between: whoever has consumed a decision and not dispatched is alone with it,
which is why the sender of a call is the caller that consumed (`SentCallsConsumed`)
and the one call a revocation does not reach (`RevocationHolds`).
The refinement maps each action to a step of `SerialEffects` or to a stutter.

*Service guard.* For any operations, proposals, clock, number of faults and any
moment at which the audit quota is reached. Of each operation `PostInv` says that
the POST on the network, the count of POSTs and the charged risk agree, and that a
cycle on its way to send still holds the owner's consent and, once it dispatched,
is the first to do so. It holds because `_effect_lock` is held from the last check
to the answer. `ReceiptInv` says that a receipt is of the operation's own POST and
that only what has one is verified or settled.

*Transaction runner.* For any callers, keys, payloads, connections and attempts.
Who is about to write an OPERATION record has read that there is none (`Unseen`),
also when its commit is on the way without an acknowledgement; as a commit with a
stale snapshot is refused, one mutation lands per key. For the refinement,
`Harmless` says of which attempts nothing has landed or will (`Settled`), and
`FlightOK` that a commit on its way is the only one of its run and that its
caller was not told how it ended.

*Migration.* For any units, statements, executors and faults, and any division of
the statements into those the catalog shows, those it is searched for and those
others may undo. An executor is never ahead of the rows and has sent all it
counted (`ExecOK`), which gives true rows even when executors overlap; a
certificate is written when all rows are there, hence after every statement was
sent. Whether a statement is replayed depends on there being one executor:
`QuietOK` says what it knows while executions never overlapped, namely that the
catalog holds nothing but what the rows claim, the one statement after the last
row (`Gap`), the prelude and statements that leave no trace (`Spare`), of which
alone a replay goes unnoticed.

*Owner memory.* For any number of candidates, challenges, manifests, verdicts,
quotas and configurations (`MemoryAssumption`: finitely many candidates, typing).
`Usable` compares records with the present; the induction (`MemoryInv`) is over
the records alone, because the present may change at any step. `OpenIsNewest`:
an open challenge is the last the owner asked for, since issuing one supersedes
the others. `RecordInv`: a patch from `APPROVED` on is bound to exactly what held
when the owner said yes. `SealInv`: while the head is sound it covers the whole
log, and what it covers is never lost, so a patch that moves on does so on entries
under a sound head (`ActsUnderTheHead`), also after a broken publication was
repaired. `QuotaInv` counts only patches of the *present*
configuration: after a reconfiguration to a smaller quota more patches may be in
state ACTIVE than it allows, but none of them is usable.

*CloudOps.* For any runs, targets and failures. `RunIs(r, w, c)` says what state
and checkpoint of a run tell of each other, of the inventory and of the log;
`Ready(s, w, c)` what the operation in progress relies on at step s. Every write
is one lemma (`DurableStep`): if the new state and checkpoint fit and the next
step is ready for them, the invariant survives the write, its failure, and its
taking effect unreported. An operation that starts a run writes a checkpoint
without approval, so the induction must know that the run of a start has no
receipt yet.

*Pairing.* For any devices, codes, requests and any scan limit. A revocation
looks at what one scan returns, so the induction carries that sessions and codes
never outgrow a scan (`ScansComplete`); then whatever stands, the owner has
allowed (`Allowed`), and a device has one session that is not revoked, expired
or not (`OneOpen`).

*Live gate.* For any number of processes, files, commits, test runs and any limit
(`GateAssumption`: finitely many callers, `None` is no permit). `UnitsInv` counts
the callers between the ledger and the transport: each holds a unit the ledger
has charged, so posts and holders together never exceed it, even though callers
die holding one. `QuietInv` says that the part of the source the transport has
read so far is still there while nothing changed, which at N + 2 readings is the
whole of it.

*Nonce window.* For any packets, limit and clock, which may be set to any time
between any two readings. A packet that was used since the clock was last set back
is remembered while the clock is within its window: its nonce is on record and no
handler that looks at the nonces has dropped it. The second half counts how often a
packet may yet be accepted (`Chances`), which is twice at most after every time the
clock is set back (`WindowInv`).

*Git publication.* For any number of request and worker threads
(`ThreadAssumption`: they are told apart). None of the properties is inductive.
`PostedOnce` needs that the marker comes first and that only the lock's holder is
between marker and request (`LockInv`, `StepInv`, `PostInv`); a reconciliation
holds the same lock but never enters that section. `PostedInOrder` needs what the
sending worker has seen acknowledged (`OrderInv`). `AppliedWasPosted` must tell
these requests from what others made: the branch and the pull request a readback
found stood as planned (`SeenInv`), the fourth marker is set only after the first
three requests took effect (`AppliedInv`), and no stale copy of the row, in any
thread, claims more than the intent (`ReportInv`). `StopIsPrompt` rests on `_save`
keeping a recorded stop whatever row is written over it, and on the lock: one
thread at most is past its last check (`StopInv`). TLC explored one request
and one worker thread, while the review stays current and nothing is killed
(5,599,146 states, no violation; an applied effect, one whose pull request others
opened, and a late request all reached). This is close to what a run may take, so
no run repeats it; two threads of each are left to the proof.

Only model-checked: the bounds `TypeOK` puts on counters that only the bounds of
an instance stop; `EffectIsVerified` and `ExecutionEnds`, since liveness under
fairness is outside the prover.

## 7. Findings

* **The write that fills the history.** `_load` refuses a page of 1024 rows, but
  `_write` does not look at the count: the call that finds 1023 rows succeeds, and
  after it the governor can no longer be read, not even to set the kill switch,
  which `docs/integration/DUAL_GOVERNOR.md:62-66` says stays available. Run
  `governor_history`, property `WrittenIsLoadable`.
* **A sent effect displayed as zero.** `cycle` reports an error as BLOCKED unless
  *this* call attempted the effect or saw the intent. When the store cannot be
  read at the start of a later cycle, an effect sent earlier is reported BLOCKED
  and displayed as zero mutations, where
  `docs/NV09_GUARDED_SERVICE.md:45-46` says the count is unknown while the outcome
  is unresolved. Run `guard_report`, property `UnresolvedIsNotZero`.

Remarks met while modelling, with the exception or premise the models state for it:

* A worker whose job was taken over between its durable START and the second
  reading of the clock is told to step when the clock was set back meanwhile
  (`mission/jobs.py:221-225` compares only its own two readings and its lease),
  where `docs/integration/OFFLINE_ADVISORY_JOBS.md:7-9` says without caveat that
  expiry grants no step. `StepOnlyToHolder` has this exception; `OneStepPerTask`
  has none, since the taken-over job is UNKNOWN and gives no other step.
* `governor.settle` accepts the reservation of an effect intent whose outcome is
  unknown (`mission/governor.py:502-511`). The intent then fails its integrity
  check (`mission/intent.py:74-83`) on every later read: it can be neither resolved
  nor delivered, and as the barrier counts it, its owner can START nothing more.
  `IntentsStayReadable` has this exception.
* `revoke` does not reach a provider call that has consumed its decision and not
  dispatched yet. `RevokedGrantsNothing` has this exception.
* Once the namespace is at its quota of audit rows
  (`service_guard/service.py:184-186`), or when the target dates its receipt past
  the consent's expiry, which it may as it reads the time twice (`target.py:256`,
  `266`, `service.py:484`), an effect that happened stays unverified for ever.
  `EffectIsVerified` names both.
* `catalog()` does not show what some statements do (REVOKE FROM PUBLIC, for one):
  after an acknowledgement gap they are sent again. `validate_catalog`
  (`migration_controller.py:244-364`) does not look for columns, CHECK and foreign
  keys, most indexes, or table grants that are missing, so a schema in which one
  was dropped between two units is certified. `GapNotReplayed` and
  `CertifiedIsComplete` say what is left.
* A CloudOps run under execution when the provenance log nears its quota, or while
  the kill switch is on, can be neither resumed nor ended
  (`nonzero_cloudops/service.py:180-186`, `provenance.py:106-107`).
* When the request that opens the pull request was lost and somebody else opens one
  with the planned title, body, base and head, the readback takes it for the effect
  (`mcp_bridge/github_remote.py:322-341`) and reports it applied. The branch and its
  commit are the planned ones. `AppliedWasPosted` leaves the fourth request out.
* A packet repeated in the last second of its window is accepted again if the
  second changes between the time-stamp check and the dropping of old nonces
  (`mobile_gateway/pairing.py:46`, `119-120`), and a clock set back brings back the
  window of a nonce already dropped. `PacketReusedOnlyLate` says exactly when.
* Nothing keeps two migration executors apart. When they overlap a statement may
  be sent again although the catalog has it; `GapNotReplayed` therefore speaks of
  executions that never overlapped (`raced`).
* When the AUTHORIZED trace entry of a critical-loop run cannot be written, the
  worker stays claimed and no later run starts in that process
  (`critical_loop/service.py:239-242`); `StartRunFails` has this outcome.
* The live gate's source reader hashes file by file, so a tree edited meanwhile
  can be read as one that never existed; `CallsFromTestedSource` is about calls
  undisturbed since they entered the transport.
* With a quota of one, a patch can never be superseded: `supersede` needs the
  replacement usable, and its activation counts the patch it replaces
  (`management.py:322-362`, `lifecycle.py:508-523`). The owner has to revoke the
  old one first.
* A stop can take an approval back. `github_write_stop` saves the whole row it
  read before (`github_write.py:330-336`); if an approval ran in between, the row
  is PROPOSED again and names no warrant. The stop itself holds
  (`RemoteStopIsPrompt`). But if the host then dies while the intent is open,
  `github_write_reconcile` finds no warrant and answers 409
  (`github_write.py:365`), and the owner-wide barrier of unresolved intents stays.
  TLC shows it with two request threads in 13 steps.

## 8. Plan

Done: the governor and what is built on its transitions; the service guard; the
transaction runner and its abstract promise; migration; LITE watch with critical
loop; CloudOps; pairing and the nonce window; the live gate; the owner's memory;
Git publication; the theorems of section 6.

Next:

1. `LiabilityLedger` behind task completion, composed with `Jobs`.
2. `dispatch_registered_local`, the executor side of a local START, and
   `RemoteGit` composed with `IntentJournal` (here the journal is one intent).
3. MCP bridge: task bus claims and the approval replay barrier.
4. The steps inside publication (log append, fsync, head) with several owners.
5. The TEST scope of the live gate and the quarantine of unknown outcomes.

## 9. Not modelled

* Most of the repository's lines are text processing, retrieval, parsing,
  prompts, record contracts (field checks), views, knowledge-library builders and
  archived exports: pure functions over strings and documents with no state a
  model checker could explore.
* Liability ledger, the local tool route, the task bus of the MCP bridge: planned
  above. Of Git publication: the content of the plan and its object hashes, the
  minting of the credential, the request budget.
* Nebius routing, streaming formats, HTTP and provider formats; the answers of
  providers are inputs.
* Cryptographic digests and signatures are assumed collision free: equal digests
  are equal values. File permissions and paths, seals and scopes of principals.
* In the owner's memory: export snapshots, sharing proposals, byte and source
  quotas, an absent quota (it acts as one larger than the number of patches),
  the ranking of retrieved patches.
* Two operations of the service guard on one target: the guard run has one
  operation and lets an operator change the target, as another operation would;
  with two, the instance is too large for the liveness check.
* `NoCallAfterUncertain` constrains the watch's own calls: a loop worker that goes
  on after the wait timed out may still send.
* Web, terminal and console front ends: presentation over the components above.
