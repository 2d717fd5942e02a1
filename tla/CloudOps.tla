------------------------------ MODULE CloudOps ------------------------------
(* The CloudOps module of the Core (nonzero_cloudops): investigation of a    *)
(* resource, the operator's decision on the proposal, the one protected      *)
(* change and its verification.                                              *)
(*                                                                           *)
(* A process lease and a lock admit one operation at a time. Its state is in *)
(* three files, each replaced atomically: run and checkpoint records         *)
(* (checkpoints.json), inventory with receipts (inventory.json) and the      *)
(* provenance log with its head. An operation is a sequence of replacements; *)
(* each may fail, may take effect and still be reported as failed (the       *)
(* directory fsync or the audit event after it fails), and the process may   *)
(* die between any two. Nothing is resumed but by a new operator call.       *)
(* With one operation at a time the expected versions of the records always  *)
(* match, so they are left out.                                              *)
EXTENDS Naturals, FiniteSets

CONSTANTS
    Runs, Targets, Nothing,
    MaxRequests,   \* bound: approval challenges of a run
    MaxFaults      \* bound: failures and crashes

Decisions == {"APPROVED", "DENIED"}

\* TERMINAL_WORKFLOW_STATES, with RECOVERY_REQUIRED that no operation leaves.
Final == {"SUCCESS_WITH_EVIDENCE", "NO_ACTION_REQUIRED", "RECOMMENDATION_ONLY",
          "DENIED_BY_HUMAN", "DENIED_BY_POLICY", "MODEL_OUTPUT_INVALID",
          "DEPENDENCY_UNAVAILABLE", "BUDGET_EXHAUSTED", "VERIFICATION_FAILED",
          "RECOVERY_REQUIRED"}

WorkflowStates == Final \cup
    {"RECEIVED", "INVESTIGATING", "EVIDENCE_READY", "REMEDIATION_PROPOSED",
     "AWAITING_APPROVAL", "APPROVED", "EXECUTING", "VERIFYING"}

ResourceStates == {"exposed", "untagged", "clean"}

\* A decision with the challenge it answers.
Approvals == [request : Nat, decision : Decisions]

Checkpoints ==
    [safe : WorkflowStates, evidence : ResourceStates, proposal : BOOLEAN, request : Nat,
     approval : Approvals \cup {Nothing}, intent : BOOLEAN, receipt : BOOLEAN, verified : BOOLEAN]

Steps == {"request", "run", "received", "query", "evidence", "abort", "plan", "planned",
          "await", "apply", "safe", "expiry", "go", "lost", "receipt", "close", "answer",
          "result"}

\* An operation in progress: what it was asked, and its next step.
Operations ==
    [kind : {"start", "request", "decide", "resume"}, run : Runs, sent : Approvals \cup {Nothing},
     step : Steps]

ASSUME CloudOpsAssumption ==
    /\ MaxRequests \in Nat /\ MaxFaults \in Nat
    /\ Nothing \notin WorkflowStates \cup Approvals \cup Checkpoints \cup Operations

VARIABLES
    run,        \* workflow state of each run
    cp,         \* its checkpoint
    target,     \* what the run is about
    resource,   \* inventory: the state of each target
    changed,    \* inventory: the runs whose change was made
    traceOK,    \* the provenance log matches its head
    full,       \* the log has no room left for what an operation may add to it
    killed,     \* external: the kill switch is on
    provenance, \* requests in the provenance log: <<run, operation>>
    op,         \* the operation in progress
    given,      \* challenges the operator holds: <<run, request>>
    said,       \* decisions the operator has sent: <<run, request, decision>>
    expired,    \* proposals past their time
    stale,      \* runs whose current challenge is past its time
    faults

cloudVars == <<run, cp, target, resource, changed, traceOK, full, killed, provenance, op,
          given, said, expired, stale, faults>>

CloudInit ==
    /\ run = [r \in Runs |-> Nothing]
    /\ cp = [r \in Runs |-> Nothing]
    /\ target \in [Runs -> Targets]
    /\ resource \in [Targets -> {"exposed", "untagged"}]
    /\ changed = {} /\ provenance = {} /\ given = {} /\ said = {}
    /\ traceOK = TRUE /\ full = FALSE /\ killed = FALSE /\ op = Nothing
    /\ expired = {} /\ stale = {}
    /\ faults = 0

-----------------------------------------------------------------------------
(* One operation at a time *)

Fault == faults < MaxFaults /\ faults' = faults + 1

At(step) == op' = [op EXCEPT !.step = step]

Doing(kind, step) == op # Nothing /\ op.kind = kind /\ op.step = step

\* _perform: the request is logged, the operation runs, the result is logged. It
\* is refused under the kill switch, and when the log is torn or lacks the room.
Begin(kind, r, sent) ==
    /\ op = Nothing /\ traceOK /\ ~full /\ ~killed
    /\ op' = [kind |-> kind, run |-> r, sent |-> sent, step |-> "request"]
    /\ UNCHANGED <<run, cp, target, resource, changed, traceOK, full, killed, provenance,
                   given, expired, stale, faults>>

Start(r) == run[r] = Nothing /\ Begin("start", r, Nothing) /\ UNCHANGED said

RequestApproval(r) == run[r] # Nothing /\ Begin("request", r, Nothing) /\ UNCHANGED said

SendDecision(r, id, d) ==
    /\ <<r, id>> \in given
    /\ Begin("decide", r, [request |-> id, decision |-> d])
    /\ said' = said \cup {<<r, id, d>>}

Resume(r) == run[r] # Nothing /\ Begin("resume", r, Nothing) /\ UNCHANGED said

\* What is left of an operation when the log cannot be written.
Unlogged == Nothing

\* CoreEvidenceLink.append, before and after the operation: log, then head. A
\* failure ends the operation; between the two it closes the service for good.
\* The answer reaches the operator only when its result was logged. Any entry may
\* be the last the quota has room for, and the log never shrinks.
AppendEvidence ==
    /\ op # Nothing /\ op.step \in {"request", "result", "answer"}
    /\ \/ /\ provenance' = provenance \cup {<<op.run, op.kind>>}
          /\ op' = IF op.step = "request" THEN [op EXCEPT !.step = "run"] ELSE Nothing
          /\ given' = IF op.step = "answer" /\ op.kind = "request"
                      THEN given \cup {<<op.run, cp[op.run].request>>} ELSE given
          /\ UNCHANGED <<traceOK, faults>>
       \/ /\ Fault
          /\ op' = Unlogged
          /\ \E torn \in BOOLEAN : traceOK' = ~torn
          /\ UNCHANGED <<provenance, given>>
    /\ full' \in {full, TRUE}
    /\ UNCHANGED <<run, cp, target, resource, changed, killed, said, expired, stale>>

\* The process dies. The next one only opens and checks the files.
Crash ==
    /\ op # Nothing /\ Fault
    /\ op' = Nothing
    /\ UNCHANGED <<run, cp, target, resource, changed, traceOK, full, killed, provenance,
                   given, said, expired, stale>>

\* One replacement of checkpoints.json, with the audit event that follows it.
Durable(newRun, newCp, next, failed) ==
    \/ run' = newRun /\ cp' = newCp /\ At(next) /\ UNCHANGED faults
    \/ Fault /\ At(failed) /\ UNCHANGED <<run, cp>>
    \/ Fault /\ At("result") /\ run' = newRun /\ cp' = newCp

\* transition_run of the run in progress.
Move(state, next, failed) == Durable([run EXCEPT ![op.run] = state], cp, next, failed)

\* save_checkpoint of the run in progress.
Save(checkpoint, next, failed) == Durable(run, [cp EXCEPT ![op.run] = checkpoint], next, failed)

\* A typed refusal: nothing is written.
Go(step) == At(step) /\ UNCHANGED <<run, cp, faults>>

Rest == UNCHANGED <<target, resource, changed, traceOK, full, killed, provenance, given,
                    said, expired, stale>>

-----------------------------------------------------------------------------
(* Investigation, up to the approval boundary *)

EmptyCheckpoint(seen) ==
    [safe |-> "EVIDENCE_READY", evidence |-> seen, proposal |-> FALSE, request |-> 0,
     approval |-> Nothing, intent |-> FALSE, receipt |-> FALSE, verified |-> FALSE]

\* The plan the policy derives from the evidence.
Planned(seen) ==
    CASE seen = "exposed" -> "REMEDIATION_PROPOSED"
      [] seen = "untagged" -> "RECOMMENDATION_ONLY"
      [] OTHER -> "NO_ACTION_REQUIRED"

Investigate ==
    /\ \/ Doing("start", "run") /\ Move("RECEIVED", "received", "result")
       \/ Doing("start", "received") /\ Move("INVESTIGATING", "query", "result")
       \/ Doing("start", "query") /\ Move("EVIDENCE_READY", "evidence", "abort")
       \/ /\ Doing("start", "evidence")
          /\ Save(EmptyCheckpoint(resource[target[op.run]]), "plan", "abort")
       \/ Doing("start", "abort") /\ Move("DEPENDENCY_UNAVAILABLE", "result", "result")
    /\ Rest

\* The advisor answers, and the policy accepts its plan or the run ends.
Plan ==
    /\ Doing("start", "plan")
    /\ \/ Move(Planned(cp[op.run].evidence), "planned", "result")
       \/ Fault /\ At("abort") /\ UNCHANGED <<run, cp>>
       \/ \E state \in {"MODEL_OUTPUT_INVALID", "DENIED_BY_POLICY", "BUDGET_EXHAUSTED"} :
             Move(state, "result", "result")
    /\ Rest

\* The second checkpoint, and for a protected proposal the wait for approval.
Propose ==
    /\ \/ /\ Doing("start", "planned")
          /\ LET proposed == run[op.run] = "REMEDIATION_PROPOSED" IN
             Save([cp[op.run] EXCEPT !.safe = IF proposed THEN "AWAITING_APPROVAL" ELSE run[op.run],
                                     !.proposal = run[op.run] # "NO_ACTION_REQUIRED"],
                  IF proposed THEN "await" ELSE "answer", "result")
       \/ Doing("start", "await") /\ Move("AWAITING_APPROVAL", "answer", "result")
    /\ Rest

-----------------------------------------------------------------------------
(* The decision *)

\* request_approval: an undecided, unexpired proposal.
Challengeable(r) ==
    /\ run[r] = "AWAITING_APPROVAL" /\ cp[r].proposal
    /\ cp[r].approval = Nothing /\ r \notin expired

IssueChallenge ==
    /\ Doing("request", "run")
    /\ LET r == op.run IN
       IF Challengeable(r) /\ cp[r].request < MaxRequests
       THEN /\ Save([cp[r] EXCEPT !.request = @ + 1, !.approval = Nothing], "answer", "result")
            /\ stale' = stale \ {r}
       ELSE Go("result") /\ UNCHANGED stale
    /\ UNCHANGED <<target, resource, changed, traceOK, full, killed, provenance, given, said,
                   expired>>

\* Mutant of Matches: any challenge of the run will do.
MatchesAny(r) == cp[r].request > 0

\* _decision_matches_request: the decision answers the challenge on record.
Matches(r) == cp[r].request = op.sent.request

\* decide: an exact repetition is reconciled, anything else is refused.
RecordDecision ==
    /\ Doing("decide", "run")
    /\ LET r == op.run IN
       IF cp[r] = Nothing \/ ~Matches(r) THEN Go("result")
       ELSE IF cp[r].approval # Nothing
            THEN Go(IF cp[r].approval.decision = op.sent.decision THEN "apply" ELSE "result")
       ELSE IF r \in expired \cup stale THEN Go("result")
       ELSE Save([cp[r] EXCEPT !.approval = [request |-> cp[r].request,
                                             decision |-> op.sent.decision]], "apply", "result")
    /\ Rest

Outcome(r) == IF cp[r].approval.decision = "APPROVED" THEN "APPROVED" ELSE "DENIED_BY_HUMAN"

\* _apply_decision_state: the run follows the recorded decision, then the
\* checkpoint; a run already past the approval is left alone.
ApplyDecision ==
    /\ op # Nothing /\ op.step \in {"apply", "safe"}
    /\ LET r == op.run
           next == IF op.kind = "resume" /\ Outcome(r) = "APPROVED" THEN "expiry" ELSE "answer"
       IN  IF op.step = "apply"
           THEN IF run[r] = "AWAITING_APPROVAL" THEN Move(Outcome(r), "safe", "result")
                                                ELSE Go("safe")
           ELSE IF run[r] = Outcome(r) /\ cp[r].safe # Outcome(r)
                THEN Save([cp[r] EXCEPT !.safe = Outcome(r)], next, "result")
                ELSE Go(next)
    /\ Rest

-----------------------------------------------------------------------------
(* Execution *)

\* Mutant of Resumable: a run that has begun to execute is not taken up again.
ResumableFresh(r) == cp[r] # Nothing /\ run[r] \notin {"EXECUTING", "VERIFYING"}

\* _load: the run has its checkpoint.
Resumable(r) == cp[r] # Nothing

\* resume: what the durable state calls for.
EnterResume ==
    /\ Doing("resume", "run")
    /\ LET r == op.run IN
       IF ~Resumable(r) THEN Go("result")
       ELSE IF cp[r].approval = Nothing THEN Go("result")
       ELSE IF Outcome(r) = "DENIED_BY_HUMAN" \/ run[r] = "AWAITING_APPROVAL" THEN Go("apply")
       ELSE Go(IF run[r] = "SUCCESS_WITH_EVIDENCE" THEN "close" ELSE "expiry")
    /\ Rest

\* An approval is not used past the proposal's time.
CheckExpiry ==
    /\ Doing("resume", "expiry")
    /\ LET r == op.run IN
       IF r \notin expired THEN Go("go")
       ELSE IF run[r] \in Final THEN Go("result")
       ELSE Move("RECOVERY_REQUIRED", "result", "result")
    /\ Rest

\* The intent is durable before the run is EXECUTING.
RegisterIntent ==
    /\ Doing("resume", "go") /\ run[op.run] = "APPROVED"
    /\ LET r == op.run IN
       IF cp[r].intent THEN Move("EXECUTING", "go", "result")
       ELSE IF r \in expired THEN Go("result")
       ELSE Save([cp[r] EXCEPT !.intent = TRUE], "go", "result")
    /\ Rest

\* Mutant of Known: the inventory's receipt is not looked up.
KnownFromCheckpoint(r) == cp[r].receipt

\* get_receipt: the change is already on record.
Known(r) == cp[r].receipt \/ r \in changed

\* The target is as the approved evidence has it.
Unchanged(r) == resource[target[r]] = cp[r].evidence

\* One replacement of inventory.json: the change and its receipt together. An
\* inventory that cannot be read or written ends the run, even if the
\* replacement took effect.
Execute ==
    /\ Doing("resume", "go") /\ run[op.run] = "EXECUTING" /\ ~Known(op.run)
    /\ LET r == op.run
           done == /\ resource' = [resource EXCEPT ![target[r]] = "clean"]
                   /\ changed' = changed \cup {r}
           same == UNCHANGED <<resource, changed>>
       IN  \/ Unchanged(r) /\ done /\ Go("receipt")
           \/ ~Unchanged(r) /\ same /\ Move("RECOVERY_REQUIRED", "result", "result")
           \/ Unchanged(r) /\ Fault /\ done /\ At("lost") /\ UNCHANGED <<run, cp>>
    /\ UNCHANGED <<target, traceOK, full, killed, provenance, given, said, expired, stale>>

\* The inventory cannot be read, be it for the receipt of a change on record or
\* for the change that is due, or it cannot be written and is as before.
Unavailable ==
    /\ Doing("resume", "go") /\ run[op.run] = "EXECUTING" /\ ~cp[op.run].receipt
    /\ Fault /\ At("lost") /\ UNCHANGED <<run, cp>>
    /\ Rest

\* CloudAdapterUnavailableError, in execution or in verification.
Lost == Doing("resume", "lost") /\ Move("DEPENDENCY_UNAVAILABLE", "result", "result") /\ Rest

\* The receipt is saved, then the run moves on to verification.
SaveReceipt ==
    /\ \/ Doing("resume", "receipt")
       \/ Doing("resume", "go") /\ run[op.run] = "EXECUTING" /\ Known(op.run)
    /\ IF cp[op.run].receipt THEN Move("VERIFYING", "go", "result")
       ELSE Save([cp[op.run] EXCEPT !.receipt = TRUE], "receipt", "result")
    /\ Rest

\* Mutant of Proved: the receipt is taken as the proof.
ProvedByReceipt(r) == cp[r].receipt

\* The checkpoint holds the proof of an independent read-back.
Proved(r) == cp[r].verified

\* verify: an independent read of the inventory, then success with its proof.
Verify ==
    /\ Doing("resume", "go") /\ run[op.run] = "VERIFYING"
    /\ LET r == op.run IN
       \/ /\ ~Proved(r)
          /\ IF r \in changed /\ resource[target[r]] = "clean"
             THEN Save([cp[r] EXCEPT !.verified = TRUE], "go", "result")
             ELSE Move("VERIFICATION_FAILED", "result", "result")
       \/ ~Proved(r) /\ Fault /\ At("lost") /\ UNCHANGED <<run, cp>>
       \/ Proved(r) /\ Move("SUCCESS_WITH_EVIDENCE", "close", "result")
    /\ Rest

\* The closing checkpoint, also for a success found on resume.
Close ==
    /\ Doing("resume", "close")
    /\ IF cp[op.run].safe = "SUCCESS_WITH_EVIDENCE" THEN Go("answer")
       ELSE Save([cp[op.run] EXCEPT !.safe = "SUCCESS_WITH_EVIDENCE"], "answer", "result")
    /\ Rest

\* No step is left for the state the run is in: the proof is missing.
Unprovable == Doing("resume", "go") /\ run[op.run] \in Final /\ Go("result") /\ Rest

-----------------------------------------------------------------------------
Expire(r) ==
    /\ cp[r] # Nothing
    /\ \/ r \notin expired /\ cp[r].proposal /\ expired' = expired \cup {r} /\ UNCHANGED stale
       \/ r \notin stale /\ cp[r].request > 0 /\ stale' = stale \cup {r} /\ UNCHANGED expired
    /\ UNCHANGED <<run, cp, target, resource, changed, traceOK, full, killed, provenance, op,
                   given, said, faults>>

\* Somebody else, another run or a person, repairs the target first.
Repair(t) ==
    /\ Fault /\ resource[t] # "clean"
    /\ resource' = [resource EXCEPT ![t] = "clean"]
    /\ UNCHANGED <<run, cp, target, changed, traceOK, full, killed, provenance, op, given,
                   said, expired, stale>>

\* The owner turns the kill switch of the runtime on or off; an operation under
\* way runs on.
Switch ==
    /\ killed' = ~killed
    /\ UNCHANGED <<run, cp, target, resource, changed, traceOK, full, provenance, op, given,
                   said, expired, stale, faults>>

Step ==
    \/ AppendEvidence \/ Investigate \/ Plan \/ Propose \/ IssueChallenge \/ RecordDecision
    \/ ApplyDecision \/ EnterResume \/ CheckExpiry \/ RegisterIntent \/ Execute \/ Unavailable \/ Lost
    \/ SaveReceipt \/ Verify \/ Close \/ Unprovable

CloudNext ==
    \/ Step \/ Crash \/ Switch
    \/ \E t \in Targets : Repair(t)
    \/ \E r \in Runs : \/ Start(r) \/ RequestApproval(r) \/ Resume(r) \/ Expire(r)
                       \/ \E id \in 1..MaxRequests, d \in Decisions : SendDecision(r, id, d)

CloudSpec == CloudInit /\ [][CloudNext]_cloudVars

\* The thread of an operation runs on, and the operator repeats a resume.
LiveSpec == CloudSpec /\ WF_cloudVars(Step) /\ \A r \in Runs : SF_cloudVars(Resume(r))

-----------------------------------------------------------------------------
TypeOK ==
    /\ run \in [Runs -> WorkflowStates \cup {Nothing}]
    /\ cp \in [Runs -> Checkpoints \cup {Nothing}]
    /\ target \in [Runs -> Targets] /\ resource \in [Targets -> ResourceStates]
    /\ op \in Operations \cup {Nothing}
    /\ changed \subseteq Runs /\ traceOK \in BOOLEAN /\ faults \in 0..MaxFaults

\* A change was approved by the operator, in answer to the very challenge the
\* approval on record names, and the request to resume it is in the provenance log
\* (execution.py:351-420, 833-850, service.py:194-203).
ChangeWasApproved ==
    \A r \in changed : /\ cp[r].approval # Nothing
                       /\ <<r, cp[r].approval.request, "APPROVED">> \in said
                       /\ <<r, "resume">> \in provenance

\* A run that changed its target is never taken for one that met a conflict: the
\* receipt is found again after a crash (execution.py:592-603).
ChangeIsRecognised ==
    \A r \in changed : run[r] = "RECOVERY_REQUIRED" => r \in expired

\* Success is claimed only of a change that was made and read back, with the
\* whole chain of proof in the checkpoint (execution.py:665-732).
SuccessIsProved ==
    \A r \in Runs : run[r] = "SUCCESS_WITH_EVIDENCE" =>
        /\ r \in changed /\ resource[target[r]] = "clean"
        /\ cp[r].intent /\ cp[r].receipt /\ cp[r].verified

\* If the operator keeps resuming, a run under execution comes to an end: unless
\* the provenance log was torn or has reached its quota, after which no resume is
\* accepted for good, and as long as the kill switch is not left on
\* (execution.py:467-732, service.py:180-186, provenance.py:106-107).
ExecutionEnds ==
    []<>~killed =>
        \A r \in Runs : run[r] \in {"EXECUTING", "VERIFYING"} ~>
            (run[r] \in Final \/ ~traceOK \/ full)
=============================================================================
