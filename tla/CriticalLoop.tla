---------------------------- MODULE CriticalLoop ----------------------------
(* One run of the critical prompt loop (critical_loop/service.py): a planned *)
(* run is started once and executed by a single worker thread that makes     *)
(* Group sequential provider calls, while a deadline timer or the operator   *)
(* may end the run under it. The run's view says how many calls were made    *)
(* and how many were answered; its caller settles by those numbers.          *)
EXTENDS Naturals

CONSTANT Group   \* generation requests of a whole run (5)

VARIABLES
    run,      \* the view of the latest run
    worker,   \* its thread: "none", "ready", "sent" (a call is out), "ended"
    active    \* _active: some run owns the worker

loopVars == <<run, worker, active>>

NoRun == [state |-> "NONE", calls |-> 0, results |-> 0]

LoopInit == run = NoRun /\ worker = "none" /\ active = FALSE

Terminal == run.state \in {"COMPLETED", "FAILED", "CANCELLED"}

\* plan: a fresh view, nothing started. An earlier worker may still be busy.
PlanRun ==
    /\ run' = [NoRun EXCEPT !.state = "PLANNED"]
    /\ UNCHANGED <<worker, active>>

\* start: the plan is consumed, the worker claimed and the thread started.
StartRun ==
    /\ run.state = "PLANNED" /\ ~active
    /\ run' = [run EXCEPT !.state = "RUNNING"]
    /\ worker' = "ready" /\ active' = TRUE

\* start refuses (plan expired, worker busy, guard, budget), or the trace entry
\* AUTHORIZED cannot be written after the worker was claimed: no thread runs
\* and nothing releases the claim.
StartRunFails ==
    \/ UNCHANGED loopVars
    \/ /\ run.state = "PLANNED" /\ ~active
       /\ run' = [run EXCEPT !.state = "RUNNING"]
       /\ worker' = "none" /\ active' = TRUE

\* _call: counted under the lock while the run is open, then sent.
WorkerCall ==
    /\ worker = "ready" /\ ~Terminal
    /\ run.calls < Group
    /\ run' = [run EXCEPT !.calls = @ + 1]
    /\ worker' = "sent"
    /\ UNCHANGED active

\* The answer counts only while the run is open. The last one completes it.
WorkerResult ==
    /\ worker = "sent" /\ ~Terminal
    /\ LET whole == run.results + 1 = Group IN
       /\ run' = [run EXCEPT !.results = @ + 1,
                             !.state = IF whole THEN "COMPLETED" ELSE @]
       /\ worker' = IF whole THEN "ended" ELSE "ready"
       /\ active' = (active /\ ~whole)

\* A failed call or review, or a run ended under the worker.
WorkerFails ==
    /\ worker \in {"ready", "sent"}
    /\ run' = [run EXCEPT !.state = IF Terminal THEN @ ELSE "FAILED"]
    /\ worker' = "ended" /\ active' = FALSE

\* _expire_run and cancel: the view is closed at once, the worker notices later.
EndRun(state) ==
    /\ run.state = "RUNNING"
    /\ run' = [run EXCEPT !.state = state]
    /\ UNCHANGED <<worker, active>>

\* wait returns: the run has ended and its worker is done with the transport.
Waited == Terminal /\ worker = "ended"

\* The threads die with the process; the recovered view is INTERRUPTED.
LoopCrash == run' = NoRun /\ worker' = "none" /\ active' = FALSE
=============================================================================
