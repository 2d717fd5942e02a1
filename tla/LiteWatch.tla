----------------------------- MODULE LiteWatch ------------------------------
(* The LITE scheduler (mission/lite_runtime.py, lite_chat.py, lite_cpl.py)   *)
(* and its durable journal (mission/lite_journal.py), with the critical loop *)
(* it consults. One process at a time owns the journal and one call at a     *)
(* time holds its mutex: a tick that probes, queues and drains, or a private *)
(* chat. What makes it hard is that every provider call is reserved before   *)
(* and settled after it is made, in different transactions, by a process     *)
(* that may stop or die in between, on any clock.                            *)
(*                                                                           *)
(* Every change of the in-memory state is saved by the record that ends the  *)
(* same step, so the watch row and the memory agree between steps.           *)
(* The profile has no interpretation interval and no guarded service.        *)
EXTENDS CriticalLoop, Integers, Sequences, FiniteSets

CONSTANTS
    Digests,           \* what an observation may show
    UncertainDigests,  \* the ones of health UNCERTAIN
    Chats,             \* chat operation ids
    Nil,               \* an absent value
    Window,            \* seconds of the hourly budget (3600)
    MaxRequests,       \* max_requests_per_hour
    MaxUnits,          \* max_hourly_units; a call is estimated at one unit
    MaxRows,           \* max_reservations: rows the journal may hold
    MaxRetry, RetryDelay,
    QueueDepth, Interval, Freshness,
    MaxClock,          \* bound: clock readings
    MaxItems           \* bound: observations admitted to the queue

ASSUME LiteAssumption ==
    /\ UncertainDigests \subseteq Digests /\ Nil \notin Digests
    /\ Chats \cap Nat = {}
    /\ {Window, MaxRequests, MaxUnits, QueueDepth, Interval, Freshness} \subseteq Nat \ {0}
    /\ Group \in Nat \ {0} /\ {MaxRows, MaxRetry, RetryDelay, MaxClock, MaxItems} \subseteq Nat

VARIABLES
    clock,
    up,       \* a process owns the journal
    stop,     \* its stop event
    watch,    \* the watch row: queue, cadence, reconciliation mark
    res,      \* the reservation rows, in order
    repairs,  \* the actor_repairs rows: chats whose one repair is claimed
    items,    \* observations admitted so far: the next trace id
    pc, now, job, answer, verdict   \* the call that holds the mutex

liteVars == <<clock, up, stop, watch, res, repairs, items, pc, now, job, answer, verdict>>
watchVars == <<loopVars, liteVars>>

caller == <<pc, now, job, answer, verdict>>

LiteInit ==
    /\ LoopInit
    /\ clock = 0 /\ up = TRUE /\ stop = FALSE
    /\ watch = [queue |-> <<>>, next |-> 0, checked |-> Nil, last |-> Nil,
                admitted |-> Nil, busy |-> FALSE, recon |-> FALSE]
    /\ res = <<>> /\ repairs = {} /\ items = 0
    /\ pc = "idle" /\ now = 0 /\ job = Nil /\ answer = Nil /\ verdict = Nil

-----------------------------------------------------------------------------
(* The journal *)

\* Mutant of HasUncertain: settled rows are taken for certain.
HasReserved == \E i \in DOMAIN res : res[i].status = "RESERVED"

HasUncertain == \E i \in DOMAIN res : res[i].status \in {"RESERVED", "UNKNOWN"}

\* Mutant of Recent: a released request gives its slot back.
RecentCharged(t) == {i \in DOMAIN res : res[i].created > t - Window /\ res[i].status # "RELEASED"}

\* The rows the hourly budget counts at time t; a later clock counts too.
Recent(t) == {i \in DOMAIN res : res[i].created > t - Window}

ChargedRows(rows) == {i \in rows : res[i].status # "RELEASED"}

\* _reserve and reserve_cpl_group: room for n more calls at time t.
Budgeted(n, t) ==
    /\ ~HasUncertain
    /\ Len(res) + n <= MaxRows
    /\ Cardinality(Recent(t)) + n <= MaxRequests
    /\ Cardinality(ChargedRows(Recent(t))) + n <= MaxUnits

\* processed: history, whether the provider has worked on the call.
Row(trace, kind, t) ==
    [trace |-> trace, kind |-> kind, created |-> t, status |-> "RESERVED", processed |-> FALSE]

Last == Len(res)

Settled(i, status) == [res EXCEPT ![i].status = status]

\* __init__ on an existing journal: what was open is unknown, and anything that
\* was going on needs a reconciliation nobody in this code performs.
Restart ==
    LET uncertain == watch.recon \/ watch.queue # <<>> \/ HasUncertain \/ watch.busy IN
    /\ ~up
    /\ up' = TRUE /\ stop' = FALSE
    /\ res' = [i \in DOMAIN res |-> IF res[i].status = "RESERVED"
                                    THEN [res[i] EXCEPT !.status = "UNKNOWN"] ELSE res[i]]
    /\ watch' = [watch EXCEPT !.next = clock, !.recon = uncertain, !.busy = uncertain]
    /\ UNCHANGED <<loopVars, clock, repairs, items, caller>>

-----------------------------------------------------------------------------
(* The scheduler tick *)

Free == up /\ pc = "idle"

Return == pc' = "idle" /\ job' = Nil /\ answer' = Nil /\ verdict' = Nil /\ now' = 0

\* The call that holds the mutex goes on to another of its steps.
Go(step) == pc' = step /\ UNCHANGED <<now, job, answer, verdict>>

\* An uncertain call closes the watch to new ones.
TickReconcile ==
    /\ Free /\ ~stop
    /\ watch.recon \/ HasUncertain
    /\ watch' = [watch EXCEPT !.recon = TRUE, !.busy = TRUE]
    /\ UNCHANGED <<loopVars, clock, up, stop, res, repairs, items, caller>>

Tickable == Free /\ ~stop /\ ~watch.recon /\ ~HasUncertain

TickRegression ==
    /\ Tickable
    /\ watch.checked # Nil /\ clock < watch.checked
    /\ watch' = [watch EXCEPT !.busy = FALSE]
    /\ UNCHANGED <<loopVars, clock, up, stop, res, repairs, items, caller>>

\* The clock is read once for the whole tick. A due check is marked PROBING.
Tick ==
    /\ Tickable
    /\ watch.checked # Nil => clock >= watch.checked
    /\ now' = clock
    /\ LET due == clock >= watch.next IN
       /\ due \/ watch.queue # <<>>
       /\ pc' = IF due THEN "probe" ELSE "drain"
       /\ watch' = [watch EXCEPT !.busy = due \/ @]
    /\ UNCHANGED <<loopVars, clock, up, stop, res, repairs, items, job, answer, verdict>>

ProbeFails ==
    /\ up /\ pc = "probe"
    /\ watch' = [watch EXCEPT !.next = now + Interval, !.busy = FALSE]
    /\ Return
    /\ UNCHANGED <<loopVars, clock, up, stop, res, repairs, items>>

\* The observation is compared, queued if it asks for a call and was not the
\* last one queued, and remembered unless a full queue refused it.
Probe(d) ==
    LET changed == watch.last # Nil /\ d # watch.last
        asks == (changed \/ d \in UncertainDigests) /\ d # watch.admitted
        full == Len(watch.queue) >= QueueDepth
        item == [trace |-> items, attempts |-> 0, retry_at |-> now, fresh |-> now + Freshness]
        seen == [watch EXCEPT !.checked = now, !.next = now + Interval,
                              !.last = IF asks /\ full THEN @ ELSE d,
                              !.busy = asks /\ ~full]
    IN
    /\ up /\ pc = "probe"
    /\ asks /\ ~full => items < MaxItems
    /\ items' = IF asks /\ ~full THEN items + 1 ELSE items
    /\ watch' = IF asks /\ ~full
                THEN [seen EXCEPT !.queue = Append(@, item), !.admitted = d] ELSE seen
    /\ IF watch'.queue # <<>> /\ ~stop THEN Go("drain") ELSE Return
    /\ UNCHANGED <<loopVars, clock, up, stop, res, repairs>>

Popped == [watch EXCEPT !.queue = Tail(@), !.busy = FALSE]

\* _drain: a stale item, or one whose memory context fails, is dropped.
DrainDrops ==
    LET item == Head(watch.queue) IN
    /\ up /\ pc = "drain"
    /\ now < item.fresh => now >= item.retry_at
    /\ watch' = Popped
    /\ Return
    /\ UNCHANGED <<loopVars, clock, up, stop, res, repairs, items>>

\* It waits for its retry time, or for the budget.
DrainWaits ==
    LET item == Head(watch.queue) IN
    /\ up /\ pc = "drain"
    /\ now < item.fresh
    /\ now < item.retry_at \/ ~Budgeted(1, now)
    /\ watch' = [watch EXCEPT !.busy = @ /\ now < item.retry_at]
    /\ Return
    /\ UNCHANGED <<loopVars, clock, up, stop, res, repairs, items>>

\* The reservation is durable before the attempt is marked as running.
DrainReserves ==
    LET item == Head(watch.queue) IN
    /\ up /\ pc = "drain"
    /\ now < item.fresh /\ now >= item.retry_at
    /\ Budgeted(1, now)
    /\ res' = Append(res, Row(item.trace, "item", now))
    /\ watch' = [watch EXCEPT !.queue[1].attempts = @ + 1, !.busy = TRUE]
    /\ job' = "item"
    /\ pc' = "call"
    /\ UNCHANGED <<loopVars, clock, up, stop, repairs, items, now, answer, verdict>>

-----------------------------------------------------------------------------
(* Private chat *)

\* Mutant of ChatSeen: a released call may be made again.
ChatSeenCharged(c) == \E i \in DOMAIN res : res[i].trace = c /\ res[i].status # "RELEASED"

\* A chat is consumed by its first reservation, whatever became of it.
ChatSeen(c) == \E i \in DOMAIN res : res[i].trace = c

Chat(c) ==
    /\ Free /\ ~stop
    /\ ~ChatSeen(c)
    /\ ~watch.recon
    /\ Budgeted(1, clock)
    /\ res' = Append(res, Row(c, "chat", clock))
    /\ job' = "chat"
    /\ pc' = "call" /\ now' = clock
    /\ UNCHANGED <<loopVars, clock, up, stop, watch, repairs, items, answer, verdict>>

\* The one repair of a chat, claimed with its budget.
ChatRepairs ==
    LET c == res[Last].trace IN
    /\ up /\ pc = "repair"
    /\ ~stop
    /\ c \notin repairs
    /\ Budgeted(1, clock)
    /\ res' = Append(res, Row(c, "repair", clock))
    /\ repairs' = repairs \cup {c}
    /\ job' = "repair"
    /\ pc' = "call"
    /\ UNCHANGED <<loopVars, clock, up, stop, watch, items, now, answer, verdict>>

\* A chat ends: answered, refused, stopped, or its correction was committed
\* with an unknown outcome, which closes the watch.
ChatEnds ==
    /\ up /\ pc \in {"review", "repair"}
    /\ job \in {"chat", "repair"}
    /\ \E unknown \in BOOLEAN :
          watch' = [watch EXCEPT !.recon = @ \/ unknown]
    /\ Return
    /\ UNCHANGED <<loopVars, clock, up, stop, res, repairs, items>>

ChatCorrects ==
    /\ up /\ pc = "review" /\ job = "chat"
    /\ Go("repair")
    /\ UNCHANGED <<loopVars, clock, up, stop, watch, res, repairs, items>>

-----------------------------------------------------------------------------
(* One provider call *)

\* Stopped, or the principal lapsed, between the reservation and the call.
CallStopped ==
    /\ up /\ pc = "call"
    /\ stop \/ job \in {"chat", "repair"}
    /\ res' = Settled(Last, "RELEASED")
    /\ Return
    /\ UNCHANGED <<loopVars, clock, up, stop, watch, repairs, items>>

\* The gate, the key or the request is refused before anything is sent.
CallRefused ==
    /\ up /\ pc = "call"
    /\ pc' = "settle" /\ answer' = "REFUSED"
    /\ UNCHANGED <<loopVars, clock, up, stop, watch, res, repairs, items, now, job, verdict>>

\* Sent: whether the provider works on it is not the caller's to know.
CallSent ==
    /\ up /\ pc = "call"
    /\ \E p \in BOOLEAN : res' = [res EXCEPT ![Last].processed = p]
    /\ Go("sent")
    /\ UNCHANGED <<loopVars, clock, up, stop, watch, repairs, items>>

\* A refusal is only answered to a call that was not worked on, a valid answer
\* only to one that was; anything else (lost, late, malformed, 5xx) may be both.
Answers(processed) ==
    {"UNKNOWN"} \cup IF processed THEN {"VALID"} ELSE {"RATE_LIMITED", "REFUSED"}

CallAnswered(a) ==
    /\ up /\ pc = "sent"
    /\ a \in Answers(res[Last].processed)
    /\ pc' = "settle" /\ answer' = a
    /\ UNCHANGED <<loopVars, clock, up, stop, watch, res, repairs, items, now, job, verdict>>

\* Mutant of StatusOf: an outcome that is not known is taken for a refusal.
StatusUnlessValid(a) == IF a = "VALID" THEN "COMMITTED" ELSE "RELEASED"

StatusOf(a) ==
    CASE a = "VALID" -> "COMMITTED"
      [] a = "UNKNOWN" -> "UNKNOWN"
      [] OTHER -> "RELEASED"

\* The reservation is settled in a transaction of its own.
SettleCall ==
    /\ up /\ pc = "settle"
    /\ res' = Settled(Last, StatusOf(answer))
    /\ IF job = "item" THEN Go("finish")
       ELSE IF answer = "VALID" THEN Go("review") ELSE Return
    /\ UNCHANGED <<loopVars, clock, up, stop, watch, repairs, items>>

\* The item leaves the queue, or stays for its retry. A valid answer is
\* reviewed by the critical loop, where the profile has one.
Finish ==
    LET item == Head(watch.queue)
        retry == answer = "RATE_LIMITED" /\ item.attempts <= MaxRetry
    IN
    /\ up /\ pc = "finish"
    /\ watch' = IF retry
                THEN [watch EXCEPT !.queue[1].retry_at = now + RetryDelay, !.busy = FALSE]
                ELSE Popped
    /\ IF answer = "VALID" THEN Go("review") ELSE Return
    /\ UNCHANGED <<loopVars, clock, up, stop, res, repairs, items>>

-----------------------------------------------------------------------------
(* The critical loop, consulted after a valid answer *)

ItemEnds ==
    /\ up /\ pc = "review" /\ job = "item"
    /\ Return
    /\ UNCHANGED <<loopVars, clock, up, stop, watch, res, repairs, items>>

\* The plan is made and the whole group reserved at once, before anything runs.
GroupReserves ==
    /\ up /\ pc = "review" /\ job \in {"item", "chat"}
    /\ ~stop
    /\ Budgeted(Group, clock)
    /\ PlanRun
    /\ res' = res \o [i \in 1..Group |-> Row(res[Last].trace, "group", clock)]
    /\ Go("start")
    /\ UNCHANGED <<clock, up, stop, watch, repairs, items>>

\* verdict: how many of the group were answered, and how many were made.
Judge(results, calls) ==
    /\ pc' = "group"
    /\ verdict' = [results |-> results, calls |-> calls]
    /\ UNCHANGED <<now, job, answer>>

GroupStarts ==
    /\ up /\ pc = "start"
    /\ ~stop
    /\ StartRun
    /\ Go("wait")
    /\ UNCHANGED <<clock, up, stop, watch, res, repairs, items>>

GroupNotStarted ==
    /\ up /\ pc = "start"
    /\ StartRunFails
    /\ Judge(0, 0)
    /\ UNCHANGED <<clock, up, stop, watch, res, repairs, items>>

GroupWaited ==
    /\ up /\ pc = "wait"
    /\ Waited
    /\ Judge(run.results, run.calls)
    /\ UNCHANGED <<loopVars, clock, up, stop, watch, res, repairs, items>>

\* wait gives up while the worker goes on: the whole group is unknown.
GroupTimesOut ==
    /\ up /\ pc = "wait"
    /\ Judge(0, Group)
    /\ UNCHANGED <<loopVars, clock, up, stop, watch, res, repairs, items>>

\* The first row of the latest group.
Base == Last - Group + 1

GroupStatus(i) ==
    CASE i < verdict.results -> "COMMITTED"
      [] i >= verdict.results /\ i < verdict.calls -> "UNKNOWN"
      [] OTHER -> "RELEASED"

\* One settlement per row, each in its own transaction.
GroupSettles ==
    /\ up /\ pc = "group"
    /\ HasReserved
    /\ \E i \in Base..Last :
          /\ res[i].status = "RESERVED"
          /\ \A j \in Base..(i - 1) : res[j].status # "RESERVED"
          /\ res' = Settled(i, GroupStatus(i - Base))
    /\ UNCHANGED <<loopVars, clock, up, stop, watch, repairs, items, caller>>

\* The scheduler notes an uncertain group, or a correction learned from it whose
\* commit is unknown. A chat goes on only with a proposal of the complete run.
GroupEnds ==
    /\ up /\ pc = "group"
    /\ ~HasReserved
    /\ \E unknown \in BOOLEAN :
          /\ unknown => job = "item" /\ verdict.results = Group
          /\ watch' = [watch EXCEPT !.recon = @ \/ unknown \/ (job = "item" /\ HasUncertain)]
    /\ IF job = "chat" /\ verdict.results = Group THEN Go("repair") ELSE Return
    /\ UNCHANGED <<loopVars, clock, up, stop, res, repairs, items>>

\* The worker's call, whose reservation is the next of the latest group.
LoopCall ==
    /\ up
    /\ WorkerCall
    /\ res' = [res EXCEPT ![Base + run.calls].processed = TRUE]
    /\ UNCHANGED <<clock, up, stop, watch, repairs, items, caller>>

LoopStep ==
    /\ up
    /\ WorkerResult \/ WorkerFails \/ EndRun("FAILED") \/ EndRun("CANCELLED")
    /\ UNCHANGED liteVars

-----------------------------------------------------------------------------
(* Stop, crash and the clock, which may be set back *)

RequestStop ==
    /\ up /\ ~stop
    /\ stop' = TRUE
    /\ UNCHANGED <<loopVars, clock, up, watch, res, repairs, items, caller>>

Close ==
    /\ Free /\ stop
    /\ up' = FALSE
    /\ watch' = [watch EXCEPT !.busy = FALSE]
    /\ LoopCrash
    /\ UNCHANGED <<clock, stop, res, repairs, items, caller>>

Crash ==
    /\ up
    /\ up' = FALSE
    /\ LoopCrash
    /\ Return
    /\ UNCHANGED <<clock, stop, watch, res, repairs, items>>

ClockMoves ==
    /\ clock' \in (0..MaxClock) \ {clock}
    /\ UNCHANGED <<loopVars, up, stop, watch, res, repairs, items, caller>>

LiteNext ==
    \/ Restart \/ RequestStop \/ Close \/ Crash \/ ClockMoves
    \/ TickReconcile \/ TickRegression \/ Tick \/ ProbeFails
    \/ \E d \in Digests : Probe(d)
    \/ DrainDrops \/ DrainWaits \/ DrainReserves
    \/ \E c \in Chats : Chat(c)
    \/ ChatRepairs \/ ChatEnds \/ ChatCorrects
    \/ CallStopped \/ CallRefused \/ CallSent
    \/ \E a \in {"VALID", "UNKNOWN", "RATE_LIMITED", "REFUSED"} : CallAnswered(a)
    \/ SettleCall \/ Finish
    \/ ItemEnds \/ GroupReserves \/ GroupStarts \/ GroupNotStarted
    \/ GroupWaited \/ GroupTimesOut \/ GroupSettles \/ GroupEnds
    \/ LoopCall \/ LoopStep

LiteSpec == LiteInit /\ [][LiteNext]_watchVars

-----------------------------------------------------------------------------
\* The budget is given back only for calls the provider never worked on,
\* through lost answers, stops, crashes, retries and a critical loop whose
\* worker outlives its run (lite_runtime.py:277, lite_cpl.py:196-206).
ReleasedWasUnused ==
    \A i \in DOMAIN res : res[i].status = "RELEASED" => ~res[i].processed

\* The watch never makes another call while one of its earlier calls may have
\* been worked on without its answer being known (lite_journal.py:137).
NoCallAfterUncertain ==
    [][CallSent => \A i \in 1..(Last - 1) :
                      res[i].processed => res[i].status = "COMMITTED"]_watchVars

\* No hour holds more calls than the policy allows, whichever way the clock
\* was set between them and whatever was released (lite_journal.py:142-146).
RequestsWithinHour ==
    \A t \in 0..MaxClock :
        Cardinality({i \in DOMAIN res : t - Window < res[i].created /\ res[i].created <= t})
            <= MaxRequests

\* A chat is asked at most once and repaired at most once over all restarts,
\* and only repaired after its answer was committed (lite_chat.py:194-198).
ChatOnce ==
    \A c \in Chats :
        LET of(kind) == {i \in DOMAIN res : res[i].trace = c /\ res[i].kind = kind} IN
        /\ Cardinality(of("chat")) <= 1 /\ Cardinality(of("repair")) <= 1
        /\ \A i \in of("repair") : \E j \in of("chat") : j < i /\ res[j].status = "COMMITTED"
=============================================================================
