------------------------------ MODULE RemoteGit ------------------------------
(* One owner-approved commit and draft pull request on GitHub                *)
(* (meta_hackathon/github_write.py, mission/git_publish.py,                  *)
(* mcp_bridge/github_remote.py, service_guard/service.py).                   *)
(*                                                                           *)
(* Request threads read the row of the operation, approve it, stop it or ask *)
(* for a readback; worker threads send four create-only requests in order,   *)
(* each behind a durable marker, read the result back and complete the       *)
(* intent. Requests may be delivered late or never, GitHub may change, and   *)
(* the host may die at any point.                                            *)
EXTENDS Integers

CONSTANTS
    Requests,   \* threads of the operator socket
    Workers,    \* worker threads
    None

VARIABLES
    row,        \* native-github-<operation>
    held, rpc,  \* what a request thread has read, and where it is
    current,    \* _workers[operation]
    lock,       \* missions._lock
    fresh,      \* source, lease, review, session and epoch are as approved
    same,       \* the host instance the operation was proposed in still runs
    kill,       \* the governor's kill switch
    warrant, intent, mark, scope, result,   \* the Core store
    wpc, write, at, wdata, obs, seen, cancelled,   \* the worker threads
    main, branch, pr,   \* the repository on GitHub
    flight,     \* requests sent and not yet delivered or lost
    done,       \* history: requests that took effect at GitHub
    matched,    \* history: branch and pull request once stood as planned
    posts,      \* history: how often each request was sent
    late        \* history: requests sent after the stop was recorded

host == <<row, held, rpc, current>>
env == <<fresh, same, kill>>
store == <<intent, mark, scope, result>>
work == <<wpc, write, at, wdata, obs, seen, cancelled>>
hub == <<main, branch, pr, flight, done, matched>>
hist == <<posts, late>>
vars == <<row, held, rpc, current, lock, fresh, same, kill, warrant, intent, mark,
          scope, result, wpc, write, at, wdata, obs, seen, cancelled, main, branch,
          pr, flight, done, matched, posts, late>>

\* tree, commit, branch, draft_pr
Steps == 1..4

RowStates == {"READING", "FAILED", "PROPOSED", "PENDING", "APPROVED", "RUNNING",
              "RECONCILING", "UNKNOWN", "VERIFIED"}
Rows == [state : RowStates, candidate : BOOLEAN, warrant : BOOLEAN, stop : BOOLEAN]

NewRow == [state |-> "READING", candidate |-> FALSE, warrant |-> FALSE, stop |-> FALSE]

Init ==
    /\ row = NewRow
    /\ held = [r \in Requests |-> NewRow] /\ rpc = [r \in Requests |-> "idle"]
    /\ current = None /\ lock = None
    /\ fresh = TRUE /\ same = TRUE /\ kill = FALSE
    /\ warrant = "none" /\ intent = "none" /\ mark = [s \in Steps |-> "none"]
    /\ scope = FALSE /\ result = "none"
    /\ wpc = [w \in Workers |-> "idle"] /\ write = [w \in Workers |-> FALSE]
    /\ at = [w \in Workers |-> 0] /\ wdata = [w \in Workers |-> NewRow]
    /\ obs = [w \in Workers |-> "none"] /\ seen = [w \in Workers |-> FALSE]
    /\ cancelled = [w \in Workers |-> FALSE]
    /\ main = "base" /\ branch = "absent" /\ pr = "none"
    /\ flight = {} /\ done = {} /\ matched = FALSE
    /\ posts = [s \in Steps |-> 0] /\ late = 0

-----------------------------------------------------------------------------
(* The owner's requests *)

\* _save: a stop that is recorded is never overwritten.
Save(data) == row' = [data EXCEPT !.stop = @ \/ row.stop]

\* _check for a write: nothing the review was bound to has changed, no stop.
Check == fresh /\ same /\ ~row.stop

To(r, step) ==
    /\ rpc' = [rpc EXCEPT ![r] = step]
    /\ UNCHANGED <<env, store, hub, hist>>

\* propose: the base was read and the plan built, or the proposal is refused.
Propose(state) ==
    /\ row.state = "READING" /\ state \in {"PROPOSED", "FAILED"}
    /\ Save([row EXCEPT !.state = state])
    /\ UNCHANGED <<held, rpc, current, lock, env, warrant, store, work, hub, hist>>

\* dispatch reads the row before it takes the lock.
Request(r, op) ==
    /\ rpc[r] = "idle" /\ op \in {"approve", "reconcile", "stop"}
    /\ held' = [held EXCEPT ![r] = row]
    /\ To(r, op)
    /\ UNCHANGED <<row, current, lock, warrant, work>>

\* github_write_approve, and its durable marker before the approval.
Approve(r) ==
    /\ rpc[r] = "approve" /\ lock = None
    /\ held[r].state = "PROPOSED" /\ Check /\ ~kill
    /\ lock' = r
    /\ To(r, "checked")
    /\ UNCHANGED <<row, held, current, warrant, work>>

ApprovePending(r) ==
    /\ rpc[r] = "checked" /\ row.state = "PROPOSED"
    /\ held' = [held EXCEPT ![r].state = "PENDING", ![r].candidate = TRUE]
    /\ Save(held'[r])
    /\ To(r, "pending")
    /\ UNCHANGED <<current, lock, warrant, work>>

\* WarrantLedger.approve: the nonce of the operation is registered once.
ApproveWarrant(r) ==
    /\ rpc[r] = "pending" /\ fresh /\ warrant = "none"
    /\ warrant' = "approved"
    /\ To(r, "approved")
    /\ UNCHANGED <<row, held, current, lock, work>>

ApproveSave(r) ==
    /\ rpc[r] = "approved" /\ row.state = "PENDING"
    /\ held' = [held EXCEPT ![r].state = "APPROVED", ![r].warrant = TRUE]
    /\ Save(held'[r])
    /\ To(r, "write")
    /\ UNCHANGED <<current, lock, warrant, work>>

\* github_write_reconcile: no worker of this operation is alive.
Alive(w) == wpc[w] # "idle"

Reconcile(r) ==
    /\ rpc[r] = "reconcile" /\ lock = None
    /\ held[r].warrant /\ (current # None => ~Alive(current))
    /\ held' = [held EXCEPT ![r].state = "RECONCILING"]
    /\ Save(held'[r])
    /\ lock' = r
    /\ To(r, "read")
    /\ UNCHANGED <<current, warrant, work>>

\* The worker thread starts with the row and the warrant of the request.
Spawn(r, w) ==
    /\ rpc[r] \in {"write", "read"} /\ ~Alive(w)
    /\ current' = w /\ lock' = None
    /\ write' = [write EXCEPT ![w] = rpc[r] = "write"]
    /\ wdata' = [wdata EXCEPT ![w] = held[r]]
    /\ wpc' = [wpc EXCEPT ![w] = "born"]
    /\ at' = [at EXCEPT ![w] = 0] /\ obs' = [obs EXCEPT ![w] = "none"]
    /\ seen' = [seen EXCEPT ![w] = FALSE] /\ cancelled' = [cancelled EXCEPT ![w] = FALSE]
    /\ To(r, "idle")
    /\ UNCHANGED <<row, held, warrant>>

\* github_write_stop takes no lock: cancel the worker, record the stop over the
\* row it read, revoke the warrant that row names.
StopCancel(r) ==
    /\ rpc[r] = "stop"
    /\ cancelled' = [w \in Workers |-> cancelled[w] \/ w = current]
    /\ To(r, "stopping")
    /\ UNCHANGED <<row, held, current, lock, warrant, wpc, write, at, wdata, obs, seen>>

StopSave(r) ==
    /\ rpc[r] = "stopping"
    /\ Save([held[r] EXCEPT !.stop = TRUE])
    /\ To(r, "revoking")
    /\ UNCHANGED <<held, current, lock, warrant, work>>

StopRevoke(r) ==
    /\ rpc[r] = "revoking"
    /\ warrant' = IF (held[r].warrant \/ held[r].candidate) /\ warrant # "none"
                  THEN "revoked" ELSE warrant
    /\ To(r, "idle")
    /\ UNCHANGED <<row, held, current, lock, work>>

\* A request is answered early, refused, or fails.
Refuse(r) ==
    /\ rpc[r] # "idle"
    /\ lock' = IF lock = r THEN None ELSE lock
    /\ To(r, "idle")
    /\ UNCHANGED <<row, held, current, warrant, work>>

-----------------------------------------------------------------------------
(* The worker: START, the four requests, the readback, the completion *)

\* CoreRemoteGitRoute.validate: the warrant is in force and nothing is killed.
Valid == warrant = "approved" /\ fresh /\ ~kill

\* What is checked before every call: release for a write, the worker's own
\* cancellation for a readback.
Clear(w) == ~cancelled[w] /\ (write[w] => Check /\ Valid)

Go(w, step) ==
    /\ wpc' = [wpc EXCEPT ![w] = step]
    /\ UNCHANGED <<held, rpc, current, env, warrant, write, wdata, cancelled>>

\* _worker: only an approved row is run, and once.
Run(w) ==
    /\ wpc[w] = "born" /\ write[w] /\ row.state = "APPROVED"
    /\ wdata' = [wdata EXCEPT ![w].state = "RUNNING"]
    /\ Save(wdata'[w])
    /\ wpc' = [wpc EXCEPT ![w] = "start"]
    /\ UNCHANGED <<held, rpc, current, lock, env, warrant, store, write, at, obs, seen,
                   cancelled, hub, hist>>

\* _public: the outcome of the intent is what the worker records at its end.
Report(w) ==
    /\ obs' = [obs EXCEPT ![w] = IF intent' = "applied" THEN "applied" ELSE "none"]
    /\ Go(w, "end")

\* dispatch_registered_remote_git: START consumes the warrant and opens the
\* intent; an intent that exists is only reported.
Start(w) ==
    /\ wpc[w] = "start" /\ lock = None
    /\ Check /\ ~cancelled[w] /\ fresh
    /\ \/ /\ intent = "none" /\ Valid
          /\ intent' = "open" /\ lock' = w
          /\ Go(w, "bind")
          /\ UNCHANGED obs
       \/ /\ intent # "none"
          /\ Report(w)
          /\ UNCHANGED <<intent, lock>>
    /\ UNCHANGED <<row, mark, scope, result, at, seen, hub, hist>>

\* The credential is minted after START, and its scope recorded.
Bind(w) ==
    /\ wpc[w] = "bind" /\ Clear(w) /\ intent = "open"
    /\ scope' = TRUE
    /\ Go(w, "main")
    /\ UNCHANGED <<row, lock, intent, mark, result, at, obs, seen, hub, hist>>

ReadMain(w) ==
    /\ wpc[w] = "main" /\ Clear(w) /\ main = "base"
    /\ Go(w, IF at[w] = 0 THEN "absent" ELSE "step")
    /\ UNCHANGED <<row, lock, store, at, obs, seen, hub, hist>>

ReadAbsent(w) ==
    /\ wpc[w] = "absent" /\ Clear(w) /\ branch = "absent"
    /\ at' = [at EXCEPT ![w] = 1]
    /\ Go(w, "step")
    /\ UNCHANGED <<row, lock, store, obs, seen, hub, hist>>

\* begin_step: refused when the step is marked, or an earlier one is not.
BeginStep(w) ==
    /\ wpc[w] = "step" /\ Clear(w) /\ intent = "open"
    /\ mark[at[w]] = "none"
    /\ \A s \in Steps : s < at[w] => mark[s] # "none"
    /\ mark' = [mark EXCEPT ![at[w]] = "unknown"]
    /\ Go(w, "marked")
    /\ UNCHANGED <<row, lock, intent, scope, result, at, obs, seen, hub, hist>>

\* _call checks once more, and then sends.
ClearPost(w) ==
    /\ wpc[w] = "marked" /\ Clear(w)
    /\ Go(w, "cleared")
    /\ UNCHANGED <<row, lock, store, at, obs, seen, hub, hist>>

Post(w) ==
    /\ wpc[w] = "cleared"
    /\ posts' = [posts EXCEPT ![at[w]] = @ + 1]
    /\ late' = IF row.stop THEN late + 1 ELSE late
    /\ flight' = flight \cup {at[w]}
    /\ Go(w, "sent")
    /\ UNCHANGED <<row, lock, store, at, obs, seen, main, branch, pr, done,
                   matched>>

\* The answer names the object planned. main is read again before the branch
\* and the pull request, the commit before the pull request.
Acknowledged(w) ==
    /\ wpc[w] = "sent" /\ at[w] \in done /\ ~cancelled[w]
    /\ at' = [at EXCEPT ![w] = @ + 1]
    /\ Go(w, CASE at[w] = 1 -> "step" [] at[w] = 2 -> "main" [] OTHER -> "ref")
    /\ UNCHANGED <<row, lock, store, obs, seen, hub, hist>>

\* reconcile: an intent is required before any recovery GET.
ReadIntent(w) ==
    /\ wpc[w] = "born" /\ ~write[w] /\ lock = None /\ intent # "none"
    /\ lock' = w
    /\ at' = [at EXCEPT ![w] = 5]
    /\ Go(w, "ref")
    /\ UNCHANGED <<row, store, obs, seen, hub, hist>>

\* readback ends. Before the pull request it must find the branch only.
Observed(w, o) ==
    /\ at[w] = 4 => o = "branch"
    /\ obs' = [obs EXCEPT ![w] = o]
    /\ Go(w, IF at[w] = 4 THEN "main" ELSE "scope")
    /\ UNCHANGED <<row, lock, store, at, seen, hub, hist>>

Observing(w, step) ==
    /\ Go(w, step)
    /\ UNCHANGED <<row, lock, store, at, obs, seen, hub, hist>>

ReadRef(w) ==
    /\ wpc[w] = "ref" /\ Clear(w)
    /\ \/ branch = "absent" /\ Observed(w, "none")
       \/ branch = "ours" /\ Observing(w, "pulls")

ReadPulls(w) ==
    /\ wpc[w] = "pulls" /\ Clear(w)
    /\ \/ pr = "none" /\ Observed(w, "branch")
       \/ pr # "none" /\ Observing(w, "pull")

\* The head a pull request shows is the branch as it is now.
ReadPull(w) ==
    /\ wpc[w] = "pull" /\ Clear(w) /\ pr = "open" /\ branch = "ours"
    /\ Observing(w, "again")

ReadRefAgain(w) ==
    /\ wpc[w] = "again" /\ Clear(w) /\ branch = "ours"
    /\ Observed(w, "verified")

\* complete: the recorded scope is read for the receipt, which is signed
\* outside the transaction that saves it.
ReadScope(w) ==
    /\ wpc[w] = "scope" /\ Clear(w)
    /\ obs[w] = "verified" => scope
    /\ seen' = [seen EXCEPT ![w] = scope]
    /\ Go(w, "save")
    /\ UNCHANGED <<row, lock, store, at, obs, hub, hist>>

\* The transaction: a resolved intent is only reported; a verified effect needs
\* the markers of all four requests.
Complete(w) ==
    /\ wpc[w] = "save"
    /\ \/ intent = "applied" /\ UNCHANGED store
       \/ /\ intent = "open" /\ seen[w] = scope /\ (write[w] => Valid)
          /\ obs[w] # "verified"
          /\ result' = "unknown"
          /\ UNCHANGED <<intent, mark, scope>>
       \/ /\ intent = "open" /\ seen[w] = scope /\ (write[w] => Valid)
          /\ obs[w] = "verified" /\ \A s \in Steps : mark[s] # "none"
          /\ mark' = [s \in Steps |-> "verified"]
          /\ result' = "verified" /\ intent' = "applied"
          /\ UNCHANGED scope
    /\ lock' = None
    /\ Report(w)
    /\ UNCHANGED <<row, at, seen, hub, hist>>

\* _worker records the outcome, unless the row has been taken back meanwhile.
Finish(w) ==
    /\ wpc[w] = "end" /\ row.state \in {"RUNNING", "RECONCILING"}
    /\ Save([wdata[w] EXCEPT
              !.state = IF obs[w] = "applied" THEN "VERIFIED" ELSE "UNKNOWN"])
    /\ Go(w, "idle")
    /\ UNCHANGED <<lock, store, at, obs, seen, hub, hist>>

\* Any call, check or save may fail or time out; nothing is tried again.
Fail(w) ==
    /\ wpc[w] \notin {"idle", "failed"}
    /\ lock' = IF lock = w THEN None ELSE lock
    /\ Go(w, "failed")
    /\ UNCHANGED <<row, store, at, obs, seen, hub, hist>>

\* The row becomes UNKNOWN, if it can be written.
Failed(w) ==
    /\ wpc[w] = "failed"
    /\ Save([wdata[w] EXCEPT !.state = "UNKNOWN"]) \/ UNCHANGED row
    /\ Go(w, "idle")
    /\ UNCHANGED <<lock, store, at, obs, seen, hub, hist>>

-----------------------------------------------------------------------------
(* GitHub, the host, and what surrounds them *)

\* A request arrives, while its answer is awaited or long after.
Takes(s) ==
    CASE s = 3 -> 2 \in done /\ branch = "absent"
      [] s = 4 -> branch # "absent" /\ pr = "none"
      [] OTHER -> TRUE

\* What a readback takes for the effect, whoever made it.
Matching == matched' = (matched \/ (branch' = "ours" /\ pr' = "open"))

Deliver(s) ==
    /\ s \in flight /\ flight' = flight \ {s}
    /\ \/ /\ Takes(s)
          /\ done' = done \cup {s}
          /\ branch' = IF s = 3 THEN "ours" ELSE branch
          /\ pr' = IF s # 4 THEN pr
                   ELSE IF branch = "ours" /\ main = "base" THEN "open" ELSE "changed"
       \/ UNCHANGED <<done, branch, pr>>
    /\ Matching
    /\ UNCHANGED <<host, lock, env, warrant, store, work, main, hist>>

\* Others may move main, make the branch, at the planned commit too, which anyone can
\* compute from the plan, move, delete and restore it, and open, edit, close and reopen a
\* pull request from it, one with the planned title and body too.
Elsewhere ==
    /\ main' \in {"base", "moved"} /\ branch' \in {"absent", "ours", "other"}
    /\ pr' \in {"none", "open", "changed"}
    /\ pr # "none" => pr' # "none"
    /\ pr = "none" /\ branch = "absent" => pr' = "none"
    /\ Matching
    /\ UNCHANGED <<host, lock, env, warrant, store, work, flight, done, hist>>

\* Expiry, a new lease or source, a policy takeover; the kill switch.
Environment ==
    /\ fresh' \in BOOLEAN /\ kill' \in BOOLEAN
    /\ UNCHANGED <<host, lock, same, warrant, store, work, hub, hist>>

\* The host dies and starts again as another instance.
Crash ==
    /\ same' = FALSE
    /\ rpc' = [r \in Requests |-> "idle"] /\ wpc' = [w \in Workers |-> "idle"]
    /\ lock' = None /\ current' = None
    /\ UNCHANGED <<row, held, fresh, kill, warrant, store, write, at, wdata, obs, seen,
                   cancelled, hub, hist>>

RequestStep(r) ==
    \/ \E op \in {"approve", "reconcile", "stop"} : Request(r, op)
    \/ Approve(r) \/ ApprovePending(r) \/ ApproveWarrant(r) \/ ApproveSave(r)
    \/ Reconcile(r) \/ \E w \in Workers : Spawn(r, w)
    \/ StopCancel(r) \/ StopSave(r) \/ StopRevoke(r) \/ Refuse(r)

WorkerStep(w) ==
    \/ Run(w) \/ Start(w) \/ Bind(w) \/ ReadMain(w) \/ ReadAbsent(w) \/ BeginStep(w)
    \/ ClearPost(w) \/ Post(w) \/ Acknowledged(w) \/ ReadIntent(w)
    \/ ReadRef(w) \/ ReadPulls(w) \/ ReadPull(w) \/ ReadRefAgain(w)
    \/ ReadScope(w) \/ Complete(w) \/ Finish(w) \/ Fail(w) \/ Failed(w)

Next ==
    \/ \E state \in {"PROPOSED", "FAILED"} : Propose(state)
    \/ \E r \in Requests : RequestStep(r)
    \/ \E w \in Workers : WorkerStep(w)
    \/ \E s \in Steps : Deliver(s)
    \/ Elsewhere \/ Environment \/ Crash

Spec == Init /\ [][Next]_vars

-----------------------------------------------------------------------------
RequestSteps == {"idle", "approve", "checked", "pending", "approved", "write", "reconcile",
                 "read", "stop", "stopping", "revoking"}

WorkerSteps == {"idle", "born", "start", "bind", "main", "absent", "step", "marked",
                "cleared", "sent", "ref", "pulls", "pull", "again", "scope", "save",
                "end", "failed"}

TypeOK ==
    /\ row \in Rows /\ held \in [Requests -> Rows] /\ rpc \in [Requests -> RequestSteps]
    /\ current \in Workers \cup {None} /\ lock \in Requests \cup Workers \cup {None}
    /\ fresh \in BOOLEAN /\ same \in BOOLEAN /\ kill \in BOOLEAN
    /\ warrant \in {"none", "approved", "revoked"}
    /\ intent \in {"none", "open", "applied"}
    /\ mark \in [Steps -> {"none", "unknown", "verified"}]
    /\ scope \in BOOLEAN /\ result \in {"none", "unknown", "verified"}
    /\ wpc \in [Workers -> WorkerSteps] /\ write \in [Workers -> BOOLEAN]
    /\ at \in [Workers -> 0..5] /\ wdata \in [Workers -> Rows]
    /\ obs \in [Workers -> {"none", "branch", "verified", "applied"}]
    /\ seen \in [Workers -> BOOLEAN] /\ cancelled \in [Workers -> BOOLEAN]
    /\ main \in {"base", "moved"} /\ branch \in {"absent", "ours", "other"}
    /\ pr \in {"none", "open", "changed"}
    /\ flight \subseteq Steps /\ done \subseteq Steps /\ matched \in BOOLEAN
    /\ posts \in [Steps -> Nat] /\ late \in Nat

\* No request is sent twice, whatever is lost, delayed, asked again or restarted
\* (git_publish.py:374-386, github_remote.py:253-259).
PostedOnce == \A s \in Steps : posts[s] <= 1

\* A request is sent only when all earlier ones took effect at GitHub: the pull
\* request is never asked for without the branch (github_remote.py:260-275).
PostedInOrder ==
    \A s \in Steps : posts[s] > 0 => \A t \in Steps : t < s => t \in done

\* An effect reported as applied stood as planned when it was read back, and is what this
\* operation was sending: its first three requests took effect, once each, and the fourth was
\* marked before any readback could count. The pull request itself may be one that others
\* opened with the planned title and body while that request was lost; found without the
\* marker it is never reported (git_publish.py:457-463, github_remote.py:322-341).
AppliedWasPosted ==
    (intent = "applied" \/ row.state = "VERIFIED") =>
        /\ intent = "applied" /\ matched
        /\ \A s \in Steps : mark[s] = "verified"
        /\ \A s \in Steps \ {4} : posts[s] = 1 /\ s \in done

\* At most one request, the one already past its last check, is sent after the
\* stop of the owner is recorded, although the saves of the row race
\* (github_write.py:94-103, 333-341, service.py:57-60).
StopIsPrompt == late <= 1

\* Nothing changes an applied effect or sends anything after it.
AppliedIsFinal ==
    [][intent = "applied" => UNCHANGED <<intent, mark, scope, result, posts>>]_vars
=============================================================================
