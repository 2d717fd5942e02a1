-------------------------------- MODULE Jobs --------------------------------
(***************************************************************************)
(* The governor-owned offline advisory jobs (runtime/mission/jobs.py) and  *)
(* their required-task completion (runtime/mission/completion.py).         *)
(*                                                                         *)
(* Every change_job call is one serializable transaction that loads the    *)
(* governor snapshot and the job, and writes both.  The governor's         *)
(* transitions are those of GovernorState.  Around the jobs the operator   *)
(* still moves the epoch and the kill switch, and reconciles a job's       *)
(* reservation through the governor's own methods.                         *)
(*                                                                         *)
(* The clock is time.time, which may be set in either direction, and every *)
(* method samples it before its transaction, which may commit later: a     *)
(* reading is any time.  begin_job reads the clock a second time after its *)
(* commit, so it is two steps here: begin, then begin_return or, when the  *)
(* commit's acknowledgement is lost, begin_lost.                           *)
(*                                                                         *)
(* Replays that only read (a repeated submit or claim, a begin of a        *)
(* started job, a finish of a finished one, inspect) change nothing and    *)
(* are stuttering steps.                                                   *)
(***************************************************************************)
EXTENDS GovernorState

CONSTANTS
  Workers,       \* worker_id values
  Leases,        \* the lease_seconds workers ask for, 1..60 in the code
  Deadline,      \* deadline_at of each task's envelope
  Bound,         \* tasks submitted with a TaskCompletionBinding
  Dependencies,  \* per task, the sets of required tasks its binding may be submitted with
  MaxJobVersion, \* rows one job may write, 128 in the code
  LeaseLost      \* the evidence digest of an expired lease

\* reservation_id: a task's one envelope reserves under one id.
Envelope(t) == CHOOSE q \in Requests : q.task = t
IdOf(t)     == Envelope(t).id

ASSUME JobsAssumption ==
  /\ \A q1, q2 \in Requests : q1.task = q2.task <=> q1.id = q2.id
  /\ \A q1, q2 \in Requests : q1.id = q2.id => q1 = q2
  /\ None \notin Workers
  /\ Leases \subseteq Nat \ {0}
  /\ Deadline \in [Tasks -> Nat \ {0}]
  /\ Bound \subseteq Tasks
  /\ Dependencies \in [Tasks -> SUBSET SUBSET Tasks]
  /\ \A t \in Tasks : \A R \in Dependencies[t] : t \notin R
  /\ MaxJobVersion \in Nat
  /\ LeaseLost \in Evidence

VARIABLES
  gov,      \* the governor's current snapshot
  job,      \* the current record of each task's job
  issued,   \* per task, every JobClaim a method has returned or stored
  pending,  \* per task, the begin call that has committed and not yet returned
  steps     \* history: per task, the claims that were told fixture_step_now, and the
            \* reading that granted it

vars == <<gov, job, issued, pending, steps>>

-----------------------------------------------------------------------------
(* Records *)

NoClaim == [worker |-> None, fence |-> 0, epoch |-> 0, lease |-> 0]

Claims == [worker : Workers, fence : Nat \ {0}, epoch : Nat \ {0}, lease : Nat]

\* `NONE' stands for a task with no job record.
JobState == {"NONE", "QUEUED", "CLAIMED", "STARTED", "UNKNOWN", "DONE"}

NoJob == [state |-> "NONE", requires |-> {}, claim |-> NoClaim, result |-> None,
          version |-> 0, last_now |-> -1]

JobType ==
  [state : JobState, requires : SUBSET Tasks, claim : Claims \cup {NoClaim},
   result : Evidence \cup {None}, version : Nat, last_now : Time \cup {-1}]

\* A begin call between its commit and its return: the claim it presented, its first reading.
NoCall == [claim |-> NoClaim, now |-> 0]

Init ==
  /\ gov = Initial
  /\ job = [t \in Tasks |-> NoJob]
  /\ issued = [t \in Tasks |-> {}]
  /\ pending = [t \in Tasks |-> NoCall]
  /\ steps = [t \in Tasks |-> {}]

\* OPERATION rows of every kind in the namespace.
Rows == gov.version + MapThenSumSet(LAMBDA t : job[t].version, Tasks)

\* What every mutating call checks first.
Callable(t, now) ==
  /\ gov.epoch > 0
  /\ now >= job[t].last_now
  /\ ClockOK(gov, now)
  /\ Loadable(gov)
  /\ Rows < HistoryLimit

\* gov._write and write_job, in one transaction.
Save(t, g, j, now) ==
  /\ Valid(g)
  /\ gov' = Written(gov, g, now)
  /\ job[t].version < MaxJobVersion
  /\ job' = [job EXCEPT ![t] = [j EXCEPT !.version = job[t].version + 1, !.last_now = now]]

-----------------------------------------------------------------------------
(* submit, claim, takeover, renew *)

submit(t, R, now) ==
  /\ job[t].state = "NONE"
  /\ Callable(t, now)
  /\ now < Deadline[t]
  /\ Save(t, gov, [job[t] EXCEPT !.state = "QUEUED", !.requires = R], now)
  /\ UNCHANGED <<issued, pending, steps>>

\* The lease a claim made now runs to.
LeaseUntil(t, lease, now) == Min({now + lease, Deadline[t]})

NewClaim(t, w, e, lease, now) ==
  [worker |-> w, fence |-> job[t].claim.fence + 1, epoch |-> e,
   lease |-> LeaseUntil(t, lease, now)]

Issue(t, c) == issued' = [issued EXCEPT ![t] = @ \cup {c}]

\* A QUEUED job has no reservation yet: claim makes it, under the claim's epoch.
claim(t, w, e, lease, now) ==
  /\ job[t].state = "QUEUED"
  /\ Callable(t, now)
  /\ EpochOK(gov, e)
  /\ ~gov.kill
  /\ now < Deadline[t]
  /\ ReserveOK(gov, Envelope(t), e, now)
  /\ LET c == NewClaim(t, w, e, lease, now)
     IN  /\ Save(t, Reserve(gov, Envelope(t), e),
                 [job[t] EXCEPT !.state = "CLAIMED", !.claim = c], now)
         /\ Issue(t, c)
  /\ UNCHANGED <<pending, steps>>

\* Mutant of TakenOver: started work is left DISPATCHED, and its epoch moved on.
TakenOverAlways(t, e, now) == [gov EXCEPT !.reservations[IdOf(t)].epoch = e]

\* The snapshot after a takeover: an unsent reservation moves to the current epoch, a sent
\* one becomes UNKNOWN.
TakenOver(t, e, now) ==
  CASE job[t].state = "CLAIMED" -> [gov EXCEPT !.reservations[IdOf(t)].epoch = e]
    [] job[t].state = "STARTED" /\ Entry(gov, IdOf(t)).state = "DISPATCHED"
                                -> MarkUnknown(gov, IdOf(t), LeaseLost, now)
    [] OTHER                    -> gov

AfterTakeover(state) == IF state = "CLAIMED" THEN "CLAIMED" ELSE "UNKNOWN"

takeover(t, w, e, lease, now) ==
  /\ job[t].state \in {"CLAIMED", "STARTED", "UNKNOWN"}
  /\ Callable(t, now)
  /\ EpochOK(gov, e)
  /\ ~gov.kill
  /\ now < Deadline[t]
  /\ now >= job[t].claim.lease
  /\ Existing(gov, Envelope(t))
  /\ job[t].state = "CLAIMED" /\ Entry(gov, IdOf(t)).epoch # e =>
       Entry(gov, IdOf(t)).state = "RESERVED"
  /\ LET c == NewClaim(t, w, e, lease, now)
     IN  /\ Save(t, TakenOver(t, e, now),
                 [job[t] EXCEPT !.state = AfterTakeover(@), !.claim = c], now)
         /\ Issue(t, c)
  /\ UNCHANGED <<pending, steps>>

\* The caller presents the claim on record, of the current epoch, unexpired.
Holds(t, c, now) ==
  /\ c = job[t].claim
  /\ EpochOK(gov, c.epoch)
  /\ now < c.lease
  /\ now < Deadline[t]

renew(t, c, lease, now) ==
  /\ job[t].state = "CLAIMED"
  /\ Callable(t, now)
  /\ Holds(t, c, now)
  /\ ~gov.kill
  /\ LeaseUntil(t, lease, now) > c.lease
  /\ LET r == [c EXCEPT !.lease = LeaseUntil(t, lease, now)]
     IN  Save(t, gov, [job[t] EXCEPT !.claim = r], now) /\ Issue(t, r)
  /\ UNCHANGED <<pending, steps>>

-----------------------------------------------------------------------------
(* begin: the durable START, then the second look at the clock *)

begin(t, c, now) ==
  /\ job[t].state = "CLAIMED"
  /\ Callable(t, now)
  /\ Holds(t, c, now)
  /\ DispatchOK(gov, IdOf(t), c.epoch, now)
  /\ Save(t, Dispatch(gov, IdOf(t)), [job[t] EXCEPT !.state = "STARTED"], now)
  /\ pending' = [pending EXCEPT ![t] = [claim |-> c, now |-> now]]
  /\ UNCHANGED <<issued, steps>>

\* Mutant of StillLeased: the clock is not read again after the commit.
StillLeasedUnread(call, after) == TRUE

\* now <= after < lease_until, and no clock jump during the commit.
StillLeased(call, after) ==
  /\ call.now <= after
  /\ after < call.claim.lease
  /\ after - call.now <= MaxStep

\* The acknowledged call returns: fixture_step_now only while the lease still runs by its
\* second reading.
begin_return(t, after) ==
  /\ pending[t] # NoCall
  /\ steps' = [steps EXCEPT ![t] = IF StillLeased(pending[t], after)
                                  THEN @ \cup {[claim |-> pending[t].claim, at |-> after]} ELSE @]
  /\ pending' = [pending EXCEPT ![t] = NoCall]
  /\ UNCHANGED <<gov, job, issued>>

\* The commit's acknowledgement is lost: the caller sees an error and takes no step.
begin_lost(t) ==
  /\ pending[t] # NoCall
  /\ pending' = [pending EXCEPT ![t] = NoCall]
  /\ UNCHANGED <<gov, job, issued, steps>>

-----------------------------------------------------------------------------
(* finish, with require_task_completion for a bound job *)

\* The dependencies on record, of the bindings the jobs were submitted with.
Requires == [t \in Tasks |-> job[t].requires]

\* The tasks visit() walks through from t: t and all it requires, directly or not.
Reach(t) ==
  {u \in Tasks : \A S \in SUBSET Tasks :
     (t \in S /\ \A s \in S : Requires[s] \subseteq S) => u \in S}

\* Mutant of Completed: only the job's own ledger is looked at.
CompletedAlone(t, applied) == t \in applied

\* No cycle is met; every required job is bound and DONE; and the ledgers of all of them
\* have their required effects applied now (`applied', from the liability ledger).
Completed(t, applied) ==
  /\ \A u \in Reach(t) : \A v \in Requires[u] : u \notin Reach(v)
  /\ \A u \in Reach(t) \ {t} : u \in Bound /\ job[u].state = "DONE"
  /\ Reach(t) \subseteq applied

\* A reservation the operator settled with the same evidence is accepted as it is.
SettledAs(g, id, ev) == Entry(g, id).state = "COMMITTED" /\ Entry(g, id).evidence = ev

finish(t, c, ev, now, applied) ==
  /\ job[t].state = "STARTED"
  /\ Callable(t, now)
  /\ Holds(t, c, now)
  /\ t \in Bound => ~gov.kill /\ Completed(t, applied)
  /\ SettleOK(gov, IdOf(t), c.epoch) \/ SettledAs(gov, IdOf(t), ev)
  /\ Save(t, IF SettledAs(gov, IdOf(t), ev) THEN gov ELSE Settle(gov, IdOf(t), ev),
          [job[t] EXCEPT !.state = "DONE", !.result = ev], now)
  /\ UNCHANGED <<issued, pending, steps>>

-----------------------------------------------------------------------------
(* The operator, and time *)

\* A governor method outside the jobs: writes the snapshot and no job.
Operate(g, now) ==
  /\ Valid(g)
  /\ gov' = Written(gov, g, now)
  /\ UNCHANGED <<job, issued, pending, steps>>

start_epoch(n1, n2) ==
  /\ Loadable(gov)
  /\ n1 >= gov.last_now
  /\ gov.epoch + 1 <= MaxAmount
  /\ Operate(StartEpoch(gov, n1), Max({n2, gov.last_now}))

set_kill(active, now) ==
  /\ Loadable(gov)
  /\ active \/ ClockOK(gov, now)
  /\ gov.kill # active
  /\ Operate([gov EXCEPT !.kill = active], Max({now, gov.last_now}))

release_not_dispatched(t, e, now) ==
  /\ Loadable(gov)
  /\ ReconciliationClockOK(gov, now)
  /\ ReleaseOK(gov, IdOf(t), e)
  /\ Operate(Release(gov, IdOf(t)), now)

mark_unknown(t, e, ev, n1, n2) ==
  /\ Loadable(gov)
  /\ ReconciliationClockOK(gov, n2)
  /\ UnknownOK(gov, IdOf(t), e)
  /\ Operate(MarkUnknown(gov, IdOf(t), ev, n1), n2)

settle(t, e, ev, now) ==
  /\ Loadable(gov)
  /\ ReconciliationClockOK(gov, now)
  /\ SettleOK(gov, IdOf(t), e)
  /\ Operate(Settle(gov, IdOf(t), ev), now)

-----------------------------------------------------------------------------

Worker(t) ==
  \/ \E now \in Time :
       \/ \E R \in Dependencies[t] : submit(t, R, now)
       \/ \E w \in Workers, e \in 0 .. gov.epoch, lease \in Leases :
            claim(t, w, e, lease, now) \/ takeover(t, w, e, lease, now)
       \/ \E c \in issued[t] :
            \/ \E lease \in Leases : renew(t, c, lease, now)
            \/ begin(t, c, now)
            \/ \E ev \in Evidence, applied \in SUBSET Tasks : finish(t, c, ev, now, applied)
  \/ \E after \in Time : begin_return(t, after)
  \/ begin_lost(t)

Operator ==
  \/ \E n1, n2 \in Time : start_epoch(n1, n2)
  \/ \E active \in BOOLEAN, now \in Time : set_kill(active, now)
  \/ \E t \in Tasks, e \in 0 .. gov.epoch, now \in Time :
       \/ release_not_dispatched(t, e, now)
       \/ \E ev \in Evidence : settle(t, e, ev, now)
       \/ \E ev \in Evidence, n2 \in Time : mark_unknown(t, e, ev, now, n2)

Next == (\E t \in Tasks : Worker(t)) \/ Operator

Spec == Init /\ [][Next]_vars

-----------------------------------------------------------------------------
(* Properties *)

\* Every record has the shape load_job insists on: a claim once the job left QUEUED, a
\* result exactly when it is DONE.
TypeOK ==
  /\ SnapshotOK(gov)
  /\ job \in [Tasks -> JobType]
  /\ issued \in [Tasks -> SUBSET Claims]
  /\ pending \in [Tasks -> [claim : Claims \cup {NoClaim}, now : Time]]
  /\ steps \in [Tasks -> SUBSET [claim : Claims, at : Time]]
  /\ \A t \in Tasks :
       /\ job[t].claim = NoClaim <=> job[t].state \in {"NONE", "QUEUED"}
       /\ job[t].result # None <=> job[t].state = "DONE"

\* "Lost ACK, redelivery and process reconstruction never yield a second synthetic step":
\* over all workers, fences and epochs a task is granted one step at most, and the money
\* and risk of a granted step stay charged.
OneStepPerTask ==
  \A t \in Tasks :
    /\ Cardinality(steps[t]) <= 1
    /\ steps[t] # {} => IdOf(t) \in InState(gov, SpentState)

\* "Expiry during durable START keeps its replay barrier and grants no step": a step goes
\* to the claim on record.  A worker whose job was taken over between its START and its
\* return can be told to step only by a clock that was set back: by a reading earlier than
\* the one the job's record already holds.
StepOnlyToHolder ==
  [][\A t \in Tasks : \A s \in steps'[t] \ steps[t] :
       s.claim = job'[t].claim \/ s.at < job'[t].last_now]_vars

\* The job and its reservation, two records written by different methods, never disagree
\* about whether the work was sent, and a DONE job's result is the evidence its full
\* reserved bound was charged on.
JobMatchesReservation ==
  \A t \in Tasks :
    LET r == Entry(gov, IdOf(t))
    IN  CASE job[t].state \in {"NONE", "QUEUED"} -> r = Absent
          [] job[t].state = "CLAIMED" -> r.state \in {"RESERVED", "RELEASED"}
          [] job[t].state = "STARTED" -> r.state \in SpentState
          [] job[t].state = "UNKNOWN" -> r.state \in {"UNKNOWN", "COMMITTED"}
          [] job[t].state = "DONE"    -> r.state = "COMMITTED" /\ r.evidence = job[t].result

\* A bound job is DONE only after everything it requires, directly or through other tasks,
\* is DONE; tasks that require one another are never DONE.
RequiredTasksFirst ==
  \A t \in Bound : job[t].state = "DONE" =>
    \A u \in Reach(t) : job[u].state = "DONE" /\ \A v \in Requires[u] : u \notin Reach(v)

=============================================================================
