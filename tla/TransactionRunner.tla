------------------------- MODULE TransactionRunner --------------------------
(* The memory-patch transaction runner (persistence/ports.py) over the       *)
(* CockroachDB adapter (adapters/cockroach/transaction.py) and its pool of   *)
(* connections (adapters/cockroach/pool.py), with the replayed operations of *)
(* persistence/idempotency.py as callbacks.                                  *)
(*                                                                           *)
(* The database is external: a SERIALIZABLE transaction reads a snapshot, a  *)
(* COMMIT whose reads are stale is refused with SQLSTATE 40001, and a COMMIT *)
(* whose acknowledgement is lost may still land later, or never.             *)
EXTENDS Naturals, FiniteSets

CONSTANTS
    Callers,      \* threads that call run()
    Keys,         \* idempotency keys
    Payloads,     \* payload digests a key may be bound to
    Conns,        \* SQL connections the pool may open
    None,         \* no value
    MaxAttempts,  \* RetryPolicy.max_attempts (10 in the code)
    MaximumIdle,  \* CorePurposePool.maximum_idle
    MaxRuns       \* bound: runs one caller starts

ASSUME RunnerAssumption ==
    /\ MaxAttempts \in Nat \ {0} /\ MaximumIdle \in Nat \ {0} /\ MaxRuns \in Nat
    /\ None \notin Payloads \cup Callers \cup Conns

VARIABLES
    run,       \* run[c]: the locals of c's call of run()
    conn,      \* conn[x]: a pooled connection and its request context
    db,        \* the committed records: operations and one mutable record
    inflight,  \* commits whose acknowledgement was lost
    effect,    \* effect[r]: commits of run r that took effect
    keyed,     \* keyed[k]: mutations that took effect under key k
    answer,    \* answer[r]: how run r ended
    closed,    \* TransactionRunner._closed
    factory    \* CockroachTransactionFactory.closed and CorePurposePool._closed

vars == <<run, conn, db, inflight, effect, keyed, answer, closed, factory>>

Kinds == {"once", "plain", "reconcile"}
Bodies == [kind : Kinds, key : Keys, payload : Payloads]
Runs == Callers \X (1..MaxRuns)
Answers == {"none", "ok", "read", "unknown", "failed"}
Database == [ops : [Keys -> Payloads \cup {None}], revision : 0..Cardinality(Runs)]

EmptyDb == [ops |-> [k \in Keys |-> None], revision |-> 0]

\* A caller outside run(); n counts the runs it has started.
Idle(n) == [pc |-> "idle", n |-> n, body |-> None, attempt |-> 0, admitted |-> FALSE,
            snap |-> None, lease |-> None, wrote |-> FALSE, committing |-> FALSE,
            verdict |-> "none"]

Id(c) == <<c, run[c].n>>

Init ==
    /\ run = [c \in Callers |-> Idle(0)]
    /\ conn = [x \in Conns |-> [state |-> "closed", ctx |-> None]]
    /\ db = EmptyDb
    /\ inflight = {}
    /\ effect = [r \in Runs |-> 0]
    /\ keyed = [k \in Keys |-> 0]
    /\ answer = [r \in Runs |-> "none"]
    /\ closed = FALSE
    /\ factory = FALSE

-----------------------------------------------------------------------------
(* CoreAdmission: the principal of a run is issued for five minutes; every   *)
(* require() afterwards fails once it has expired or Core has closed.        *)

Lapse(c) ==
    /\ run[c].pc # "idle"
    /\ run[c].admitted
    /\ run' = [run EXCEPT ![c].admitted = FALSE]
    /\ UNCHANGED <<conn, db, inflight, effect, keyed, answer, closed, factory>>

-----------------------------------------------------------------------------
(* CorePurposePool *)

IdleConns == {x \in Conns : conn[x].state = "idle"}

\* acquire: the first idle connection of the purpose, or a new one.
Acquirable(x) == x \in IdleConns \/ (IdleConns = {} /\ conn[x].state = "closed")

Leased(x, c) == [conn EXCEPT ![x] = [state |-> "leased", ctx |-> c]]

\* Mutants of Released: the pool forgets its bound, or that it was closed.
ReleasedUnbounded(x, discard) ==
    [conn EXCEPT ![x] = [state |-> IF ~discard /\ ~factory THEN "idle" ELSE "closed",
                         ctx |-> None]]

\* release: reset and keep the connection if it is clean and there is room.
Released(x, discard) ==
    [conn EXCEPT ![x] =
        [state |-> IF ~discard /\ ~factory /\ Cardinality(IdleConns) < MaximumIdle
                   THEN "idle" ELSE "closed",
         ctx |-> None]]

-----------------------------------------------------------------------------
(* TransactionRunner.run *)

\* Entering run(): refused when closed; the principal was issued just before.
Run(c, body) ==
    /\ run[c].pc = "idle" /\ run[c].n < MaxRuns
    /\ ~closed
    /\ run' = [run EXCEPT ![c] = [Idle(run[c].n + 1) EXCEPT !.pc = "begin",
                                    !.body = body, !.attempt = 1, !.admitted = TRUE]]
    /\ UNCHANGED <<conn, db, inflight, effect, keyed, answer, closed, factory>>

\* run() returns or raises: the caller has its answer.
Finish(c, a) ==
    /\ run' = [run EXCEPT ![c] = Idle(run[c].n)]
    /\ answer' = [answer EXCEPT ![Id(c)] = a]

\* The next attempt after SQLSTATE 40001, or RETRY_EXHAUSTED.
Retry(c) ==
    IF run[c].attempt = MaxAttempts
    THEN Finish(c, "failed")
    ELSE /\ run' = [run EXCEPT ![c] =
                      [Idle(run[c].n) EXCEPT !.pc = "begin", !.body = run[c].body,
                          !.attempt = run[c].attempt + 1, !.admitted = run[c].admitted]]
         /\ UNCHANGED answer

\* The end of an attempt whose adapter (if any) has been cleaned up.
Conclude(c, verdict) == IF verdict = "retry" THEN Retry(c) ELSE Finish(c, verdict)

\* begin(): admission, a lease, a context ticket, BEGIN, the snapshot.
Begin(c, x) ==
    /\ run[c].pc = "begin" /\ run[c].admitted /\ ~factory
    /\ Acquirable(x)
    /\ conn' = Leased(x, c)
    /\ run' = [run EXCEPT ![c].pc = "body", ![c].lease = x, ![c].snap = db]
    /\ UNCHANGED <<db, inflight, effect, keyed, answer, closed, factory>>

\* begin() fails: admission, a closed factory, or the database; a lease taken
\* on the way is discarded, and there is no adapter to clean up.
BeginFails(c, verdict) ==
    /\ run[c].pc = "begin"
    /\ ~run[c].admitted \/ factory => verdict = "failed"
    /\ conn' \in {conn} \cup {[conn EXCEPT ![x].state = "closed"] : x \in IdleConns}
    /\ ~run[c].admitted \/ factory => conn' = conn
    /\ Conclude(c, verdict)
    /\ UNCHANGED <<db, inflight, effect, keyed, closed, factory>>

Active(c) == run[c].admitted /\ ~factory   \* CockroachTransaction._check_active

Stored(c) == run[c].snap.ops[run[c].body.key]

\* The callback is over; verdict "none" means it returned a result to commit.
BodyDone(c, verdict, wrote) ==
    /\ run' = [run EXCEPT ![c].verdict = verdict, ![c].wrote = wrote,
                          ![c].pc = IF verdict = "none" THEN "recheck" ELSE "cleanup"]
    /\ UNCHANGED <<conn, db, inflight, effect, keyed, answer, closed, factory>>

\* Mutant of ExecuteOnce: the stored operation is compared but not honoured.
ExecuteAgain(c) ==
    /\ run[c].pc = "body" /\ Active(c) /\ run[c].body.kind = "once"
    /\ \/ Stored(c) \in {None, run[c].body.payload} /\ BodyDone(c, "none", TRUE)
       \/ Stored(c) \notin {None, run[c].body.payload} /\ BodyDone(c, "failed", FALSE)

\* execute_once: an existing record is replayed or is a conflict; otherwise
\* the mutation (a revision CAS) and the OPERATION record are written.
ExecuteOnce(c) ==
    /\ run[c].pc = "body" /\ Active(c) /\ run[c].body.kind = "once"
    /\ \/ Stored(c) = None /\ BodyDone(c, "none", TRUE)
       \/ Stored(c) = run[c].body.payload /\ BodyDone(c, "none", FALSE)
       \/ Stored(c) \notin {None, run[c].body.payload} /\ BodyDone(c, "failed", FALSE)

\* A callback that only replaces a record, without an OPERATION record.
PlainReplace(c) ==
    /\ run[c].pc = "body" /\ Active(c) /\ run[c].body.kind = "plain"
    /\ BodyDone(c, "none", TRUE)

\* reconcile: reads the OPERATION record and never executes.
Reconcile(c) ==
    /\ run[c].pc = "body" /\ Active(c) /\ run[c].body.kind = "reconcile"
    /\ BodyDone(c, IF Stored(c) = run[c].body.payload THEN "none" ELSE "failed", FALSE)

\* An error of the adapter or the callback, by its SQLSTATE.
BodyFails(c, verdict) ==
    /\ run[c].pc = "body"
    /\ ~Active(c) => verdict = "failed"
    /\ BodyDone(c, verdict, FALSE)

\* The second admission.require, after the callback.
Recheck(c) ==
    /\ run[c].pc = "recheck"
    /\ run' = [run EXCEPT ![c].pc = IF run[c].admitted THEN "commit" ELSE "cleanup",
                          ![c].committing = run[c].admitted,
                          ![c].verdict = IF run[c].admitted THEN "none" ELSE "failed"]
    /\ UNCHANGED <<conn, db, inflight, effect, keyed, answer, closed, factory>>

\* A transaction: what it read, what it writes and the run it belongs to.
Txn(c) == [run |-> Id(c), body |-> run[c].body, snap |-> run[c].snap, wrote |-> run[c].wrote]

\* SERIALIZABLE: a commit is admitted only on an unchanged read set.
Serializable(t) ==
    /\ db.ops[t.body.key] = t.snap.ops[t.body.key]
    /\ t.wrote => db.revision = t.snap.revision

\* The database applies the writes of t.
Land(t) ==
    IF t.wrote
    THEN /\ db' = [ops |-> IF t.body.kind = "once"
                           THEN [db.ops EXCEPT ![t.body.key] = t.body.payload] ELSE db.ops,
                   revision |-> db.revision + 1]
         /\ effect' = [effect EXCEPT ![t.run] = @ + 1]
         /\ keyed' = IF t.body.kind = "once"
                     THEN [keyed EXCEPT ![t.body.key] = @ + 1] ELSE keyed
    ELSE UNCHANGED <<db, effect, keyed>>

\* commit() is acknowledged.
Commit(c) ==
    /\ run[c].pc = "commit" /\ Active(c)
    /\ Serializable(Txn(c))
    /\ Land(Txn(c))
    /\ run' = [run EXCEPT ![c].pc = "cleanup",
                          ![c].verdict = IF run[c].wrote THEN "ok" ELSE "read"]
    /\ UNCHANGED <<conn, inflight, answer, closed, factory>>

\* Mutant of CommitErrorVerdict: a lost acknowledgement is retried like 40001.
RetryUnknown(sqlstate) == "retry"

\* The verdict on an error raised by commit(): only 40001 is retried, every
\* other error leaves the outcome unknown.
CommitErrorVerdict(sqlstate) == IF sqlstate = "40001" THEN "retry" ELSE "unknown"

\* commit() raises: the serialization failure, the check before COMMIT, or a
\* lost acknowledgement, whose transaction stays in flight.
CommitFails(c, sqlstate) ==   \* 40003 stands for every SQLSTATE but 40001
    /\ run[c].pc = "commit"
    /\ run' = [run EXCEPT ![c].pc = "cleanup", ![c].verdict = CommitErrorVerdict(sqlstate)]
    /\ \/ sqlstate = "40001" /\ Active(c) /\ UNCHANGED inflight
       \/ sqlstate # "40001" /\ ~Active(c) /\ UNCHANGED inflight
       \/ sqlstate # "40001" /\ Active(c) /\ inflight' = inflight \cup {Txn(c)}
    /\ UNCHANGED <<conn, db, effect, keyed, answer, closed, factory>>

Committed(c) == run[c].verdict \in {"ok", "read"}

\* The finally clause: invalidate the view, roll back, close and release.
Cleanup(c) ==
    /\ run[c].pc = "cleanup"
    /\ conn' = Released(run[c].lease, ~Committed(c) \/ factory)
    /\ Conclude(c, run[c].verdict)
    /\ UNCHANGED <<db, inflight, effect, keyed, closed, factory>>

\* An exception in the finally clause replaces the attempt's own outcome; the
\* connection is closed in any case.
CleanupFails(c) ==
    /\ run[c].pc = "cleanup"
    /\ conn' = [conn EXCEPT ![run[c].lease] = [state |-> "closed", ctx |-> None]]
    /\ Finish(c, IF run[c].committing THEN "unknown" ELSE "failed")
    /\ UNCHANGED <<db, inflight, effect, keyed, closed, factory>>

-----------------------------------------------------------------------------
(* The database finishes, or gives up, a commit nobody waits for. *)

LandLate(t) ==
    /\ t \in inflight
    /\ Serializable(t) /\ Land(t)
    /\ inflight' = inflight \ {t}
    /\ UNCHANGED <<run, conn, answer, closed, factory>>

DropLate(t) ==
    /\ t \in inflight
    /\ inflight' = inflight \ {t}
    /\ UNCHANGED <<run, conn, db, effect, keyed, answer, closed, factory>>

-----------------------------------------------------------------------------
(* Closing: the runner's flag first, then the factory and its idle pool. *)

Close ==
    /\ ~closed /\ closed' = TRUE
    /\ UNCHANGED <<run, conn, db, inflight, effect, keyed, answer, factory>>

CloseFactory ==
    /\ closed /\ ~factory /\ factory' = TRUE
    /\ conn' = [x \in Conns |-> IF x \in IdleConns
                                THEN [state |-> "closed", ctx |-> None] ELSE conn[x]]
    /\ UNCHANGED <<run, db, inflight, effect, keyed, answer, closed>>

-----------------------------------------------------------------------------
Step(c) ==
    \/ \E x \in Conns : Begin(c, x)
    \/ \E v \in {"failed", "retry", "unknown"} : BeginFails(c, v) \/ BodyFails(c, v)
    \/ ExecuteOnce(c) \/ PlainReplace(c) \/ Reconcile(c)
    \/ Recheck(c)
    \/ Commit(c)
    \/ \E s \in {"40001", "40003"} : CommitFails(c, s)
    \/ Cleanup(c) \/ CleanupFails(c)

Next ==
    \/ \E c \in Callers : Step(c) \/ Lapse(c) \/ \E b \in Bodies : Run(c, b)
    \/ \E t \in inflight : LandLate(t) \/ DropLate(t)
    \/ Close \/ CloseFactory

Spec == Init /\ [][Next]_vars

-----------------------------------------------------------------------------
TypeOK ==
    /\ \A c \in Callers :
          /\ run[c].pc \in {"idle", "begin", "body", "recheck", "commit", "cleanup"}
          /\ run[c].n \in 0..MaxRuns /\ run[c].attempt \in 0..MaxAttempts
          /\ run[c].body \in Bodies \cup {None}
          /\ run[c].snap \in Database \cup {None}
          /\ run[c].lease \in Conns \cup {None}
          /\ run[c].verdict \in Answers \cup {"retry"}
    /\ conn \in [Conns -> [state : {"closed", "idle", "leased"}, ctx : Callers \cup {None}]]
    /\ db \in Database
    /\ effect \in [Runs -> Nat] /\ keyed \in [Keys -> Nat]
    /\ answer \in [Runs -> Answers]
    /\ closed \in BOOLEAN /\ factory \in BOOLEAN

\* The runner keeps the promise of CommitOnce: one effect per run although it
\* retries, "ok" only for writes that landed, "failed" never for writes that
\* did or still may land, whatever was lost (ports.py:288-320).
Promise == INSTANCE CommitOnce
PromiseKept == Promise!Spec

\* execute_once: however many callers, retries, lost acknowledgements and late
\* commits there are, the mutation under one idempotency key lands at most
\* once, and it lands exactly when its OPERATION record does (idempotency.py:68-87).
OneMutationPerKey ==
    \A k \in Keys : keyed[k] = (IF db.ops[k] = None THEN 0 ELSE 1)

\* The pool hands a connection to one transaction at a time and takes it back
\* clean: it carries the context of its lessee alone, idle ones carry none, the
\* idle list respects its bound, and a closed pool keeps nothing idle
\* (pool.py:260-296).
PoolIsolation ==
    /\ \A x \in Conns :
          /\ conn[x].state = "leased" <=> \E c \in Callers : run[c].lease = x
          /\ \A c \in Callers : run[c].lease = x => conn[x].ctx = c
          /\ conn[x].state # "leased" => conn[x].ctx = None
    /\ Cardinality(IdleConns) <= MaximumIdle
    /\ factory => IdleConns = {}

=============================================================================
