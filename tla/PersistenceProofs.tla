------------------------- MODULE PersistenceProofs --------------------------
(* The persistence of the memory patches: what the transaction runner        *)
(* guarantees for any callers, keys, payloads and connections, any number of *)
(* attempts and any pool, and the schema migration for any units, statements *)
(* and executors.                                                            *)
EXTENDS TransactionRunner, Migration, FiniteSetTheorems, TLAPS

-----------------------------------------------------------------------------
(* The invariant *)

Records == [ops : [Keys -> Payloads \cup {None}], revision : Nat]

RunType ==
    [pc : {"idle", "begin", "body", "recheck", "commit", "cleanup"}, n : 0..MaxRuns,
     body : Bodies \cup {None}, attempt : Nat, admitted : BOOLEAN, snap : Records \cup {None},
     lease : Conns \cup {None}, wrote : BOOLEAN, committing : BOOLEAN,
     verdict : Answers \cup {"retry"}]

TxnType == [run : Runs, body : Bodies, snap : Records, wrote : BOOLEAN]

\* The steps of an attempt that has an adapter, and so a lease and a snapshot.
Attempting == {"body", "recheck", "commit", "cleanup"}

\* An attempt has what its steps use.
RunOK(c) ==
    /\ run[c].pc # "idle" => run[c].n \in 1..MaxRuns /\ run[c].body \in Bodies
    /\ run[c].pc \in Attempting <=> run[c].lease # None
    /\ run[c].pc \in Attempting => run[c].snap \in Records
    /\ run[c].pc \in {"recheck", "commit"} => run[c].verdict = "none"
    /\ run[c].pc = "commit" => run[c].committing
    /\ run[c].pc = "cleanup" => run[c].verdict # "none"

RunsOK == run \in [Callers -> RunType] /\ \A c \in Callers : RunOK(c)

StoreOK ==
    /\ db \in Records /\ inflight \subseteq TxnType
    /\ effect \in [Runs -> 0..1] /\ keyed \in [Keys -> Nat]
    /\ answer \in [Runs -> Answers]

\* The pool is as it promises, and its idle list is finite.
ConnsOK ==
    /\ conn \in [Conns -> [state : {"closed", "idle", "leased"}, ctx : Callers \cup {None}]]
    /\ IsFiniteSet(IdleConns)
    /\ factory \in BOOLEAN
    /\ PoolIsolation

\* Who writes an OPERATION record has seen that there was none.
Unseen(body, snap, wrote) == wrote /\ body.kind = "once" => snap.ops[body.key] = None

KeysOK ==
    /\ OneMutationPerKey
    /\ \A c \in Callers : run[c].pc \in {"recheck", "commit"} =>
                             Unseen(run[c].body, run[c].snap, run[c].wrote)
    /\ \A t \in inflight : Unseen(t.body, t.snap, t.wrote)

\* Nothing of run r has landed or is on its way.
Settled(r) == effect[r] = 0 /\ \A t \in inflight : t.run # r

\* The outcome of an attempt is decided: it did not reach the commit, or knows it failed.
Harmless(c) ==
    \/ run[c].pc # "cleanup" \/ ~run[c].committing
    \/ run[c].verdict \in {"read", "failed", "retry"}

\* A run is answered when it ends; before its commit it has no effect.
AnswerOK(c) ==
    /\ \A m \in 1..MaxRuns : m > run[c].n => answer[<<c, m>>] = "none" /\ Settled(<<c, m>>)
    /\ run[c].pc # "idle" =>
          /\ answer[Id(c)] = "none"
          /\ Harmless(c) => Settled(Id(c))
          /\ run[c].pc = "cleanup" /\ run[c].verdict = "ok" => effect[Id(c)] = 1

\* A commit on its way is the only one of its run, and nobody was told how it ended.
FlightOK ==
    /\ \A t \in inflight : answer[t.run] \in {"none", "unknown"} /\ effect[t.run] = 0
    /\ \A s, t \in inflight : s.run = t.run => s = t

AnswersOK == FlightOK /\ \A c \in Callers : AnswerOK(c)

RunnerInv == RunsOK /\ StoreOK /\ ConnsOK /\ KeysOK /\ AnswersOK

-----------------------------------------------------------------------------
(* What an action does to the locals of its caller *)

Alone(c) == \A d \in Callers \ {c} : run'[d] = run[d]

LEMMA Done ==
    ASSUME RunsOK, NEW c \in Callers, NEW v \in Answers \cup {"retry"}, NEW w \in BOOLEAN,
           BodyDone(c, v, w)
    PROVE  /\ run' \in [Callers -> RunType] /\ Alone(c)
           /\ run'[c].pc = (IF v = "none" THEN "recheck" ELSE "cleanup")
           /\ run'[c].verdict = v /\ run'[c].wrote = w
           /\ run'[c].n = run[c].n /\ run'[c].body = run[c].body /\ run'[c].snap = run[c].snap
           /\ run'[c].lease = run[c].lease /\ run'[c].committing = run[c].committing
<1>1. run[c] \in RunType
    BY DEF RunsOK
<1> DEFINE pc1 == IF v = "none" THEN "recheck" ELSE "cleanup"
           r1 == [run[c] EXCEPT !.verdict = v]
           r2 == [r1 EXCEPT !.wrote = w]
           r3 == [r2 EXCEPT !.pc = pc1]
<1>2. run' = [run EXCEPT ![c] = r3]
    BY DEF BodyDone, RunsOK
<1>3. /\ r3 \in RunType
      /\ r3.pc = pc1 /\ r3.verdict = v /\ r3.wrote = w
      /\ r3.n = run[c].n /\ r3.body = run[c].body /\ r3.snap = run[c].snap
      /\ r3.lease = run[c].lease /\ r3.committing = run[c].committing
    BY <1>1 DEF RunType
<1> HIDE DEF r3
<1>. QED
    BY <1>2, <1>3 DEF RunsOK, Alone

LEMMA Entered ==
    ASSUME RunsOK, NEW c \in Callers, NEW body \in Bodies, Run(c, body)
    PROVE  /\ run' \in [Callers -> RunType] /\ Alone(c)
           /\ run'[c].pc = "begin" /\ run'[c].n = run[c].n + 1 /\ run'[c].body = body
           /\ run'[c].lease = None /\ run[c].n + 1 \in 1..MaxRuns
<1>1. run[c].n \in Nat /\ run[c].n + 1 \in 1..MaxRuns
    BY RunnerAssumption DEF RunsOK, RunType, Run
<1> DEFINE r1 == [Idle(run[c].n + 1) EXCEPT !.pc = "begin", !.body = body, !.attempt = 1,
                                            !.admitted = TRUE]
<1>2. run' = [run EXCEPT ![c] = r1]
    BY DEF Run
<1>3. r1 \in [pc : {"begin"}, n : {run[c].n + 1}, body : {body}, attempt : Nat,
              admitted : BOOLEAN, snap : {None}, lease : {None}, wrote : BOOLEAN,
              committing : BOOLEAN, verdict : {"none"}]
    BY DEF Idle
<1> HIDE DEF r1
<1>4. r1.pc = "begin" /\ r1.n = run[c].n + 1 /\ r1.body = body /\ r1.lease = None
    BY <1>3
<1>5. r1 \in RunType
    BY <1>1, <1>3 DEF RunType, Answers
<1>. QED
    BY <1>1, <1>2, <1>4, <1>5 DEF RunsOK, Alone

LEMMA Lapsed ==
    ASSUME RunsOK, NEW c \in Callers, Lapse(c)
    PROVE  /\ run' \in [Callers -> RunType] /\ Alone(c)
           /\ run'[c].pc = run[c].pc /\ run'[c].verdict = run[c].verdict
           /\ run'[c].n = run[c].n /\ run'[c].body = run[c].body /\ run'[c].snap = run[c].snap
           /\ run'[c].lease = run[c].lease /\ run'[c].committing = run[c].committing
           /\ run'[c].wrote = run[c].wrote
BY DEF RunsOK, RunType, Lapse, Alone

LEMMA Rechecked ==
    ASSUME RunsOK, NEW c \in Callers, Recheck(c)
    PROVE  /\ run' \in [Callers -> RunType] /\ Alone(c)
           /\ run'[c].pc = (IF run[c].admitted THEN "commit" ELSE "cleanup")
           /\ run'[c].verdict = (IF run[c].admitted THEN "none" ELSE "failed")
           /\ run'[c].committing = run[c].admitted /\ run'[c].wrote = run[c].wrote
           /\ run'[c].n = run[c].n /\ run'[c].body = run[c].body /\ run'[c].snap = run[c].snap
           /\ run'[c].lease = run[c].lease
<1>1. run[c] \in RunType
    BY DEF RunsOK
<1> DEFINE pc1 == IF run[c].admitted THEN "commit" ELSE "cleanup"
           v1 == IF run[c].admitted THEN "none" ELSE "failed"
           r1 == [run[c] EXCEPT !.pc = pc1]
           r2 == [r1 EXCEPT !.committing = run[c].admitted]
           r3 == [r2 EXCEPT !.verdict = v1]
<1>2. run' = [run EXCEPT ![c] = r3]
    BY DEF Recheck, RunsOK
<1>3. v1 \in Answers \cup {"retry"} /\ pc1 \in {"commit", "cleanup"}
    BY DEF Answers
<1>. QED
    BY <1>1, <1>2, <1>3 DEF RunType, RunsOK, Alone

LEMMA Began ==
    ASSUME RunsOK, StoreOK, NEW c \in Callers, NEW x \in Conns, Begin(c, x)
    PROVE  /\ run' \in [Callers -> RunType] /\ Alone(c)
           /\ run'[c].pc = "body" /\ run'[c].lease = x /\ run'[c].snap = db
           /\ run'[c].n = run[c].n /\ run'[c].body = run[c].body
<1>1. run[c] \in RunType
    BY DEF RunsOK
<1> DEFINE r1 == [run[c] EXCEPT !.pc = "body"]
           r2 == [r1 EXCEPT !.lease = x]
           r3 == [r2 EXCEPT !.snap = db]
<1>2. run' = [run EXCEPT ![c] = r3]
    BY DEF Begin, RunsOK
<1>. QED
    BY <1>1, <1>2 DEF RunType, RunsOK, StoreOK, Alone

\* The commit returned or raised.
LEMMA CommitEnded ==
    ASSUME RunsOK, NEW c \in Callers, NEW v \in Answers \cup {"retry"},
           run' = [run EXCEPT ![c].pc = "cleanup", ![c].verdict = v]
    PROVE  /\ run' \in [Callers -> RunType] /\ Alone(c)
           /\ run'[c].pc = "cleanup" /\ run'[c].verdict = v
           /\ run'[c].committing = run[c].committing /\ run'[c].wrote = run[c].wrote
           /\ run'[c].n = run[c].n /\ run'[c].body = run[c].body /\ run'[c].snap = run[c].snap
           /\ run'[c].lease = run[c].lease
<1>1. run[c] \in RunType
    BY DEF RunsOK
<1> DEFINE r1 == [run[c] EXCEPT !.pc = "cleanup"]
           r2 == [r1 EXCEPT !.verdict = v]
<1>2. run' = [run EXCEPT ![c] = r2]
    BY DEF RunsOK
<1>. QED
    BY <1>1, <1>2 DEF RunType, RunsOK, Alone

\* The attempt, or the run, is over.
LEMMA Finished ==
    ASSUME RunsOK, NEW c \in Callers, run' = [run EXCEPT ![c] = Idle(run[c].n)]
    PROVE  /\ run' \in [Callers -> RunType] /\ Alone(c)
           /\ run'[c].pc = "idle" /\ run'[c].n = run[c].n /\ run'[c].lease = None
BY DEF RunsOK, RunType, Answers, Idle, Alone

LEMMA Retried ==
    ASSUME RunsOK, NEW c \in Callers,
           run' = [run EXCEPT ![c] =
                      [Idle(run[c].n) EXCEPT !.pc = "begin", !.body = run[c].body,
                          !.attempt = run[c].attempt + 1, !.admitted = run[c].admitted]]
    PROVE  /\ run' \in [Callers -> RunType] /\ Alone(c)
           /\ run'[c].pc = "begin" /\ run'[c].n = run[c].n /\ run'[c].body = run[c].body
           /\ run'[c].lease = None
<1>1. run[c] \in RunType
    BY DEF RunsOK
<1> DEFINE r1 == [Idle(run[c].n) EXCEPT !.pc = "begin", !.body = run[c].body,
                          !.attempt = run[c].attempt + 1, !.admitted = run[c].admitted]
<1>2. run' = [run EXCEPT ![c] = r1]
    OBVIOUS
<1>3. run[c].attempt + 1 \in Nat /\ run[c].admitted \in BOOLEAN
    BY <1>1 DEF RunType
<1>4. r1 \in [pc : {"begin"}, n : {run[c].n}, body : {run[c].body}, attempt : Nat,
              admitted : BOOLEAN, snap : {None}, lease : {None}, wrote : BOOLEAN,
              committing : BOOLEAN, verdict : {"none"}]
    BY <1>3 DEF Idle
<1> HIDE DEF r1
<1>5. r1.pc = "begin" /\ r1.n = run[c].n /\ r1.body = run[c].body /\ r1.lease = None
    BY <1>4
<1>6. r1 \in RunType
    BY <1>1, <1>4 DEF RunType, Answers
<1>. QED
    BY <1>2, <1>5, <1>6 DEF RunsOK, Alone

-----------------------------------------------------------------------------
(* The pool *)

\* A step that moves no lease and no connection.
LEMMA PoolStays ==
    ASSUME ConnsOK, UNCHANGED <<conn, factory>>, \A d \in Callers : run'[d].lease = run[d].lease
    PROVE  ConnsOK'
BY DEF ConnsOK, PoolIsolation, IdleConns

LEMMA PoolLeases ==
    ASSUME ConnsOK, RunsOK, NEW c \in Callers, run[c].lease = None, NEW x \in Conns,
           Acquirable(x),
           conn' = Leased(x, c), UNCHANGED factory, run'[c].lease = x, Alone(c)
    PROVE  ConnsOK'
<1>1. conn[x].state # "leased" /\ None \notin Conns
    BY RunnerAssumption DEF Acquirable, IdleConns
<1>2. /\ conn' \in [Conns -> [state : {"closed", "idle", "leased"}, ctx : Callers \cup {None}]]
      /\ conn'[x].state = "leased" /\ conn'[x].ctx = c
      /\ \A y \in Conns \ {x} : conn'[y] = conn[y]
    BY DEF ConnsOK, Leased
<1>3. IdleConns' \subseteq IdleConns
    BY <1>2 DEF IdleConns
<1>4. /\ IsFiniteSet(IdleConns') /\ Cardinality(IdleConns') <= Cardinality(IdleConns)
      /\ Cardinality(IdleConns) \in Nat /\ Cardinality(IdleConns') \in Nat
    BY <1>3, FS_Subset, FS_CardinalityType DEF ConnsOK
<1>5. \A y \in Conns : /\ conn'[y].state = "leased" <=> \E d \in Callers : run'[d].lease = y
                       /\ \A d \in Callers : run'[d].lease = y => conn'[y].ctx = d
                       /\ conn'[y].state # "leased" => conn'[y].ctx = None
    BY <1>1, <1>2 DEF ConnsOK, PoolIsolation, Alone
<1>. QED
    BY <1>2, <1>3, <1>4, <1>5, RunnerAssumption DEF ConnsOK, PoolIsolation

\* Giving a connection back, to the idle list while it has room.
LEMMA PoolTakesBack ==
    ASSUME ConnsOK, RunsOK, NEW c \in Callers, NEW x \in Conns, run[c].lease = x,
           NEW state \in {"idle", "closed"},
           state = "idle" => ~factory /\ Cardinality(IdleConns) < MaximumIdle,
           conn' = [conn EXCEPT ![x] = [state |-> state, ctx |-> None]],
           UNCHANGED factory, run'[c].lease = None, Alone(c)
    PROVE  ConnsOK'
<1>1. conn[x].state = "leased" /\ None \notin Conns
    BY RunnerAssumption DEF ConnsOK, PoolIsolation
<1>2. /\ conn' \in [Conns -> [state : {"closed", "idle", "leased"}, ctx : Callers \cup {None}]]
      /\ conn'[x].state = state /\ conn'[x].ctx = None
      /\ \A y \in Conns \ {x} : conn'[y] = conn[y]
    BY DEF ConnsOK
<1>3. \A d \in Callers : run'[d].lease = x => FALSE
    BY <1>1 DEF ConnsOK, PoolIsolation, Alone
<1>4. \A y \in Conns : /\ conn'[y].state = "leased" <=> \E d \in Callers : run'[d].lease = y
                       /\ \A d \in Callers : run'[d].lease = y => conn'[y].ctx = d
                       /\ conn'[y].state # "leased" => conn'[y].ctx = None
    BY <1>1, <1>2, <1>3 DEF ConnsOK, PoolIsolation, Alone
<1>5. IsFiniteSet(IdleConns) /\ Cardinality(IdleConns) \in Nat /\ MaximumIdle \in Nat
    BY FS_CardinalityType, RunnerAssumption DEF ConnsOK
<1>6. CASE state = "idle"
    <2>1. IdleConns' = IdleConns \cup {x} /\ x \notin IdleConns
        BY <1>1, <1>2, <1>6 DEF IdleConns
    <2>2. IsFiniteSet(IdleConns') /\ Cardinality(IdleConns') = Cardinality(IdleConns) + 1
        BY <1>5, <2>1, FS_AddElement
    <2>. QED
        BY <1>2, <1>4, <1>5, <1>6, <2>2 DEF ConnsOK, PoolIsolation
<1>7. CASE state = "closed"
    <2>1. IdleConns' = IdleConns
        BY <1>1, <1>2, <1>7 DEF IdleConns
    <2>. QED
        BY <1>2, <1>4, <1>5, <2>1 DEF ConnsOK, PoolIsolation
<1>. QED
    BY <1>6, <1>7

\* Idle connections are closed: one that failed to begin, or all with the factory.
LEMMA PoolCloses ==
    ASSUME ConnsOK,
           conn' \in [Conns -> [state : {"closed", "idle", "leased"}, ctx : Callers \cup {None}]],
           \A y \in Conns : conn'[y] = conn[y] \/
               (conn[y].state = "idle" /\ conn'[y].state = "closed" /\ conn'[y].ctx = None),
           \A d \in Callers : run'[d].lease = run[d].lease,
           factory' \in BOOLEAN, factory' => IdleConns' = {}
    PROVE  ConnsOK'
<1>1. IdleConns' \subseteq IdleConns
    BY DEF IdleConns
<1>2. /\ IsFiniteSet(IdleConns') /\ Cardinality(IdleConns') <= Cardinality(IdleConns)
      /\ Cardinality(IdleConns) \in Nat /\ Cardinality(IdleConns') \in Nat
    BY <1>1, FS_Subset, FS_CardinalityType DEF ConnsOK
<1>3. \A y \in Conns : /\ conn'[y].state = "leased" <=> \E d \in Callers : run'[d].lease = y
                       /\ \A d \in Callers : run'[d].lease = y => conn'[y].ctx = d
                       /\ conn'[y].state # "leased" => conn'[y].ctx = None
    BY DEF ConnsOK, PoolIsolation
<1>. QED
    BY <1>2, <1>3, RunnerAssumption DEF ConnsOK, PoolIsolation

-----------------------------------------------------------------------------
(* What a step leaves of the invariant, part by part *)

\* The other callers keep what they have.
LEMMA RunsKept ==
    ASSUME RunsOK, NEW c \in Callers, run' \in [Callers -> RunType], Alone(c), RunOK(c)'
    PROVE  RunsOK'
BY DEF RunsOK, RunOK, Alone

LEMMA KeysKept ==
    ASSUME KeysOK, NEW c \in Callers, Alone(c), UNCHANGED <<db, keyed, inflight>>,
           run'[c].pc \in {"recheck", "commit"} =>
               Unseen(run'[c].body, run'[c].snap, run'[c].wrote)
    PROVE  KeysOK'
BY DEF KeysOK, OneMutationPerKey, Unseen, Alone

\* A step of an attempt that tells the caller nothing.
LEMMA AnswersKept ==
    ASSUME RunsOK, AnswersOK, NEW c \in Callers, Alone(c),
           UNCHANGED <<inflight, effect, answer>>,
           run[c].pc # "idle", run'[c].n = run[c].n,
           Harmless(c) \/ ~Harmless(c)',
           run'[c].pc = "cleanup" /\ run'[c].verdict = "ok" =>
               run[c].pc = "cleanup" /\ run[c].verdict = "ok"
    PROVE  AnswersOK'
<1>1. FlightOK'
    BY DEF AnswersOK, FlightOK
<1>2. AnswerOK(c)'
    BY DEF AnswersOK, AnswerOK, Settled, Id
<1>3. \A d \in Callers \ {c} : AnswerOK(d)'
    BY DEF AnswersOK, AnswerOK, Settled, Harmless, Id, Alone
<1>. QED
    BY <1>1, <1>2, <1>3 DEF AnswersOK

\* A caller learns how its run ended.
LEMMA Answered ==
    ASSUME RunsOK, StoreOK, AnswersOK, NEW c \in Callers, Alone(c),
           UNCHANGED <<inflight, effect>>,
           run[c].pc # "idle", run'[c].pc = "idle", run'[c].n = run[c].n,
           NEW a \in Answers \ {"none"}, answer' = [answer EXCEPT ![Id(c)] = a],
           a = "ok" => effect[Id(c)] = 1,
           a \in {"read", "failed"} => Settled(Id(c))
    PROVE  AnswersOK' /\ answer' \in [Runs -> Answers] /\ Promise!Next
<1>1. Id(c) \in Runs /\ run[c].n \in 1..MaxRuns
    BY DEF RunsOK, RunOK, Runs, Id
<1>2. /\ answer' \in [Runs -> Answers] /\ answer'[Id(c)] = a
      /\ \A r \in Runs : r # Id(c) => answer'[r] = answer[r]
    BY <1>1 DEF StoreOK
<1>3. FlightOK'
    <2>1. ASSUME NEW t \in inflight
          PROVE  answer'[t.run] \in {"none", "unknown"}
        <3>1. t.run \in Runs /\ effect[t.run] = 0 /\ answer[t.run] \in {"none", "unknown"}
            BY DEF AnswersOK, FlightOK, StoreOK, TxnType
        <3>2. CASE t.run = Id(c)
            <4>1. a \notin {"ok", "read", "failed"}
                BY <3>1, <3>2 DEF Settled
            <4>. QED
                BY <1>2, <3>2, <4>1 DEF Answers
        <3>. QED
            BY <1>2, <3>1, <3>2
    <2>. QED
        BY <2>1 DEF AnswersOK, FlightOK
<1>4. AnswerOK(c)'
    <2>1. ASSUME NEW m \in 1..MaxRuns, m > run[c].n
          PROVE  answer'[<<c, m>>] = "none" /\ Settled(<<c, m>>)'
        <3>1. <<c, m>> \in Runs /\ <<c, m>> # Id(c)
            BY <1>1, <2>1 DEF Runs, Id
        <3>. QED
            BY <1>2, <2>1, <3>1 DEF AnswersOK, AnswerOK, Settled
    <2>. QED
        BY <2>1 DEF AnswerOK
<1>5. ASSUME NEW d \in Callers \ {c} PROVE AnswerOK(d)'
    <2>1. \A m \in 1..MaxRuns : <<d, m>> \in Runs /\ <<d, m>> # Id(c)
        BY DEF Runs, Id
    <2>2. run[d].pc # "idle" => run[d].n \in 1..MaxRuns
        BY DEF RunsOK, RunOK
    <2>3. \A m \in 1..MaxRuns : answer'[<<d, m>>] = answer[<<d, m>>]
        BY <1>2, <2>1
    <2>. QED
        BY <2>2, <2>3 DEF AnswersOK, AnswerOK, Settled, Harmless, Id, Alone
<1>6. Promise!Answer(Id(c), a)
    BY DEF Promise!Answer, AnswersOK, AnswerOK, Settled
<1>7. Promise!Next
    BY <1>1, <1>6 DEF Promise!Next, Promise!Answers, Answers
<1>. QED
    BY <1>2, <1>3, <1>4, <1>5, <1>7 DEF AnswersOK

\* An attempt ends: the next one begins, or the caller learns the verdict.
LEMMA Concluded ==
    ASSUME RunsOK, StoreOK, KeysOK, AnswersOK, NEW c \in Callers, run[c].pc # "idle",
           NEW v \in (Answers \ {"none"}) \cup {"retry"}, Conclude(c, v),
           UNCHANGED <<db, inflight, effect, keyed>>,
           v = "ok" => effect[Id(c)] = 1,
           v \in {"read", "failed", "retry"} => Settled(Id(c))
    PROVE  /\ RunsOK' /\ StoreOK' /\ KeysOK' /\ AnswersOK'
           /\ run'[c].lease = None /\ Alone(c)
           /\ Promise!Next \/ UNCHANGED <<effect, answer>>
<1>1. ASSUME NEW a \in Answers \ {"none"}, Finish(c, a), a = "ok" => effect[Id(c)] = 1,
             a \in {"read", "failed"} => Settled(Id(c))
      PROVE  /\ RunsOK' /\ StoreOK' /\ KeysOK' /\ AnswersOK'
             /\ run'[c].lease = None /\ Alone(c) /\ Promise!Next
    <2>1. /\ run' = [run EXCEPT ![c] = Idle(run[c].n)]
          /\ answer' = [answer EXCEPT ![Id(c)] = a]
        BY <1>1 DEF Finish
    <2>2. /\ run' \in [Callers -> RunType] /\ Alone(c)
          /\ run'[c].pc = "idle" /\ run'[c].n = run[c].n /\ run'[c].lease = None
        BY <2>1, Finished
    <2>3. RunsOK'
        BY <2>2, RunsKept DEF RunOK, Attempting
    <2>4. AnswersOK' /\ answer' \in [Runs -> Answers] /\ Promise!Next
        BY <1>1, <2>1, <2>2, Answered
    <2>5. KeysOK'
        BY <2>2, KeysKept
    <2>. QED
        BY <2>2, <2>3, <2>4, <2>5 DEF StoreOK
<1>2. ASSUME v = "retry", run[c].attempt # MaxAttempts
      PROVE  /\ RunsOK' /\ StoreOK' /\ KeysOK' /\ AnswersOK'
             /\ run'[c].lease = None /\ Alone(c) /\ UNCHANGED <<effect, answer>>
    <2>1. /\ run' = [run EXCEPT ![c] =
                      [Idle(run[c].n) EXCEPT !.pc = "begin", !.body = run[c].body,
                          !.attempt = run[c].attempt + 1, !.admitted = run[c].admitted]]
          /\ UNCHANGED answer
        BY <1>2 DEF Conclude, Retry
    <2>2. /\ run' \in [Callers -> RunType] /\ Alone(c)
          /\ run'[c].pc = "begin" /\ run'[c].n = run[c].n /\ run'[c].body = run[c].body
          /\ run'[c].lease = None
        BY <2>1, Retried
    <2>3. RunOK(c)'
        BY <2>2 DEF RunOK, RunsOK, Attempting
    <2>4. KeysOK'
        BY <2>2, KeysKept
    <2>5. FlightOK' /\ \A d \in Callers \ {c} : AnswerOK(d)'
        BY <2>1, <2>2 DEF AnswersOK, FlightOK, AnswerOK, Settled, Harmless, Id, Alone
    <2>6. AnswerOK(c)'
        BY <1>2, <2>1, <2>2 DEF AnswersOK, AnswerOK, Settled, Id
    <2>. QED
        BY <2>1, <2>2, <2>3, <2>4, <2>5, <2>6, RunsKept DEF StoreOK, AnswersOK
<1>3. CASE v = "retry" /\ run[c].attempt = MaxAttempts
    <2>1. Finish(c, "failed")
        BY <1>3 DEF Conclude, Retry
    <2>. QED
        BY <1>1, <1>3, <2>1 DEF Answers
<1>4. CASE v # "retry"
    <2>1. Finish(c, v) /\ v \in Answers \ {"none"}
        BY <1>4 DEF Conclude
    <2>. QED
        BY <1>1, <1>4, <2>1
<1>. QED
    BY <1>2, <1>3, <1>4

\* A commit that lands on the reads it was made from.
LEMMA Lands ==
    ASSUME StoreOK, KeysOK, NEW t \in TxnType, Unseen(t.body, t.snap, t.wrote),
           effect[t.run] = 0, Serializable(t), Land(t)
    PROVE  /\ db' \in Records /\ keyed' \in [Keys -> Nat] /\ OneMutationPerKey'
           /\ effect' = IF t.wrote THEN [effect EXCEPT ![t.run] = 1] ELSE effect
           /\ effect' \in [Runs -> 0..1]
<1>1. t.run \in Runs /\ t.body.key \in Keys /\ t.body.payload \in Payloads
      /\ None \notin Payloads
    BY RunnerAssumption DEF TxnType, Bodies
<1>2. /\ effect' = IF t.wrote THEN [effect EXCEPT ![t.run] = 1] ELSE effect
      /\ effect' \in [Runs -> 0..1]
    BY <1>1 DEF Land, StoreOK
<1>3. CASE t.wrote /\ t.body.kind = "once"
    <2>1. /\ db' = [ops |-> [db.ops EXCEPT ![t.body.key] = t.body.payload],
                    revision |-> db.revision + 1]
          /\ keyed' = [keyed EXCEPT ![t.body.key] = @ + 1]
        BY <1>3 DEF Land
    <2>2. db.ops[t.body.key] = None
        BY <1>3 DEF Unseen, Serializable
    <2>3. db' \in Records /\ keyed' \in [Keys -> Nat]
        BY <1>1, <2>1 DEF StoreOK, Records
    <2>4. OneMutationPerKey'
        BY <1>1, <2>1, <2>2 DEF StoreOK, Records, KeysOK, OneMutationPerKey
    <2>. QED
        BY <1>2, <2>3, <2>4
<1>4. CASE t.wrote /\ t.body.kind # "once"
    <2>1. db' = [ops |-> db.ops, revision |-> db.revision + 1] /\ keyed' = keyed
        BY <1>4 DEF Land
    <2>. QED
        BY <1>2, <2>1 DEF StoreOK, Records, KeysOK, OneMutationPerKey
<1>5. CASE ~t.wrote
    <2>1. UNCHANGED <<db, effect, keyed>>
        BY <1>5 DEF Land
    <2>. QED
        BY <1>2, <2>1 DEF StoreOK, KeysOK, OneMutationPerKey
<1>. QED
    BY <1>3, <1>4, <1>5

-----------------------------------------------------------------------------
(* One lemma for each operation: it keeps the invariant and the promise *)

Good == RunnerInv' /\ (Promise!Next \/ UNCHANGED <<effect, answer>>)

\* A step of one attempt that touches nothing but the caller's locals.
LEMMA LocalStep ==
    ASSUME RunnerInv, NEW c \in Callers, run' \in [Callers -> RunType], Alone(c),
           UNCHANGED <<conn, db, inflight, effect, keyed, answer, factory>>,
           run[c].pc # "idle", run'[c].n = run[c].n, run'[c].lease = run[c].lease, RunOK(c)',
           run'[c].pc \in {"recheck", "commit"} =>
               Unseen(run'[c].body, run'[c].snap, run'[c].wrote),
           Harmless(c) \/ ~Harmless(c)',
           run'[c].pc = "cleanup" /\ run'[c].verdict = "ok" =>
               run[c].pc = "cleanup" /\ run[c].verdict = "ok"
    PROVE  Good
<1>1. RunsOK'
    BY RunsKept DEF RunnerInv
<1>2. StoreOK'
    BY DEF RunnerInv, StoreOK
<1>3. ConnsOK'
    BY PoolStays DEF RunnerInv, Alone
<1>4. KeysOK'
    BY KeysKept DEF RunnerInv
<1>5. AnswersOK'
    BY AnswersKept DEF RunnerInv
<1>. QED
    BY <1>1, <1>2, <1>3, <1>4, <1>5 DEF RunnerInv, Good

LEMMA LapseStep ==
    ASSUME RunnerInv, NEW c \in Callers, Lapse(c)
    PROVE  Good
<1>1. RunsOK /\ KeysOK
    BY DEF RunnerInv
<1>2. /\ run' \in [Callers -> RunType] /\ Alone(c)
      /\ run'[c].pc = run[c].pc /\ run'[c].verdict = run[c].verdict
      /\ run'[c].n = run[c].n /\ run'[c].body = run[c].body /\ run'[c].snap = run[c].snap
      /\ run'[c].lease = run[c].lease /\ run'[c].committing = run[c].committing
      /\ run'[c].wrote = run[c].wrote
    BY <1>1, Lapsed
<1>3. RunOK(c)' /\ (Harmless(c) \/ ~Harmless(c)')
    BY <1>1, <1>2 DEF RunsOK, RunOK, Harmless
<1>4. run'[c].pc \in {"recheck", "commit"} => Unseen(run'[c].body, run'[c].snap, run'[c].wrote)
    BY <1>1, <1>2 DEF KeysOK, Unseen
<1>5. run[c].pc # "idle" /\ UNCHANGED <<conn, db, inflight, effect, keyed, answer, factory>>
    BY DEF Lapse
<1>. QED
    BY <1>2, <1>3, <1>4, <1>5, LocalStep

\* The callback is over, with a result or an error.
LEMMA BodyStep ==
    ASSUME RunnerInv, NEW c \in Callers, run[c].pc = "body",
           NEW v \in {"none", "failed", "retry", "unknown"}, NEW w \in BOOLEAN, BodyDone(c, v, w),
           v = "none" => Unseen(run[c].body, run[c].snap, w)
    PROVE  Good
<1>1. RunsOK /\ v \in Answers \cup {"retry"}
    BY DEF RunnerInv, Answers
<1>2. /\ run' \in [Callers -> RunType] /\ Alone(c)
      /\ run'[c].pc = (IF v = "none" THEN "recheck" ELSE "cleanup")
      /\ run'[c].verdict = v /\ run'[c].wrote = w
      /\ run'[c].n = run[c].n /\ run'[c].body = run[c].body /\ run'[c].snap = run[c].snap
      /\ run'[c].lease = run[c].lease /\ run'[c].committing = run[c].committing
    BY <1>1, Done
<1>3. RunOK(c)'
    BY <1>1, <1>2 DEF RunsOK, RunOK, Attempting
<1>4. UNCHANGED <<conn, db, inflight, effect, keyed, answer, factory>>
    BY DEF BodyDone
<1>5. Harmless(c)
    BY DEF Harmless
<1>6. run'[c].pc \in {"recheck", "commit"} => Unseen(run'[c].body, run'[c].snap, run'[c].wrote)
    BY <1>2
<1>7. ~(run'[c].pc = "cleanup" /\ run'[c].verdict = "ok")
    BY <1>2
<1>. QED
    BY <1>2, <1>3, <1>4, <1>5, <1>6, <1>7, LocalStep

LEMMA ExecuteOnceStep ==
    ASSUME RunnerInv, NEW c \in Callers, ExecuteOnce(c)
    PROVE  Good
<1>1. run[c].pc = "body"
    BY DEF ExecuteOnce
<1>2. CASE Stored(c) = None /\ BodyDone(c, "none", TRUE)
    BY <1>1, <1>2, BodyStep DEF Unseen, Stored
<1>3. CASE BodyDone(c, "none", FALSE)
    BY <1>1, <1>3, BodyStep DEF Unseen
<1>4. CASE BodyDone(c, "failed", FALSE)
    BY <1>1, <1>4, BodyStep
<1>. QED
    BY <1>2, <1>3, <1>4 DEF ExecuteOnce

LEMMA PlainReplaceStep ==
    ASSUME RunnerInv, NEW c \in Callers, PlainReplace(c)
    PROVE  Good
BY BodyStep DEF PlainReplace, Unseen

LEMMA ReconcileStep ==
    ASSUME RunnerInv, NEW c \in Callers, Reconcile(c)
    PROVE  Good
<1>1. CASE Stored(c) = run[c].body.payload
    BY <1>1, BodyStep DEF Reconcile, Unseen
<1>2. CASE Stored(c) # run[c].body.payload
    BY <1>2, BodyStep DEF Reconcile
<1>. QED
    BY <1>1, <1>2

LEMMA BodyFailsStep ==
    ASSUME RunnerInv, NEW c \in Callers, NEW v \in {"failed", "retry", "unknown"},
           BodyFails(c, v)
    PROVE  Good
BY BodyStep DEF BodyFails

LEMMA RecheckStep ==
    ASSUME RunnerInv, NEW c \in Callers, Recheck(c)
    PROVE  Good
<1>1. RunsOK /\ KeysOK /\ run[c].pc = "recheck"
    BY DEF RunnerInv, Recheck
<1>2. /\ run' \in [Callers -> RunType] /\ Alone(c)
      /\ run'[c].pc = (IF run[c].admitted THEN "commit" ELSE "cleanup")
      /\ run'[c].verdict = (IF run[c].admitted THEN "none" ELSE "failed")
      /\ run'[c].committing = run[c].admitted /\ run'[c].wrote = run[c].wrote
      /\ run'[c].n = run[c].n /\ run'[c].body = run[c].body /\ run'[c].snap = run[c].snap
      /\ run'[c].lease = run[c].lease
    BY <1>1, Rechecked
<1>3. RunOK(c)'
    BY <1>1, <1>2 DEF RunsOK, RunOK, Attempting
<1>4. UNCHANGED <<conn, db, inflight, effect, keyed, answer, factory>>
    BY DEF Recheck
<1>5. Harmless(c)
    BY <1>1 DEF Harmless
<1>6. Unseen(run'[c].body, run'[c].snap, run'[c].wrote)
    BY <1>1, <1>2 DEF KeysOK
<1>7. ~(run'[c].pc = "cleanup" /\ run'[c].verdict = "ok")
    BY <1>2
<1>. QED
    BY <1>1, <1>2, <1>3, <1>4, <1>5, <1>6, <1>7, LocalStep

\* A new run has no answer and no effect, as every run not yet started.
LEMMA RunStep ==
    ASSUME RunnerInv, NEW c \in Callers, NEW body \in Bodies, Run(c, body)
    PROVE  Good
<1>1. RunsOK /\ run[c].pc = "idle" /\ run[c].lease = None /\ run[c].n \in Nat
    BY DEF RunnerInv, RunsOK, RunType, RunOK, Attempting, Run
<1>2. /\ run' \in [Callers -> RunType] /\ Alone(c)
      /\ run'[c].pc = "begin" /\ run'[c].n = run[c].n + 1 /\ run'[c].body = body
      /\ run'[c].lease = None /\ run[c].n + 1 \in 1..MaxRuns
    BY <1>1, Entered
<1>3. UNCHANGED <<conn, db, inflight, effect, keyed, answer, factory>>
    BY DEF Run
<1>4. RunOK(c)'
    BY <1>2 DEF RunOK, Attempting
<1>5. StoreOK' /\ ConnsOK' /\ KeysOK'
    BY <1>1, <1>2, <1>3, PoolStays, KeysKept DEF RunnerInv, StoreOK, Alone
<1>6. FlightOK' /\ \A d \in Callers \ {c} : AnswerOK(d)'
    BY <1>2, <1>3 DEF RunnerInv, AnswersOK, FlightOK, AnswerOK, Settled, Harmless, Id, Alone
<1>7. \A m \in 1..MaxRuns : m > run[c].n => answer'[<<c, m>>] = "none" /\ Settled(<<c, m>>)'
    BY <1>3 DEF RunnerInv, AnswersOK, AnswerOK, Settled
<1>8. AnswerOK(c)'
    BY <1>1, <1>2, <1>7 DEF AnswerOK, Id
<1>. QED
    BY <1>1, <1>2, <1>3, <1>4, <1>5, <1>6, <1>8, RunsKept DEF RunnerInv, AnswersOK, Good

LEMMA BeginStep ==
    ASSUME RunnerInv, NEW c \in Callers, NEW x \in Conns, Begin(c, x)
    PROVE  Good
<1>1. RunsOK /\ StoreOK /\ ConnsOK /\ KeysOK /\ AnswersOK
      /\ run[c].pc = "begin" /\ run[c].lease = None /\ None \notin Conns
    BY RunnerAssumption DEF RunnerInv, RunsOK, RunOK, Attempting, Begin
<1>2. /\ run' \in [Callers -> RunType] /\ Alone(c)
      /\ run'[c].pc = "body" /\ run'[c].lease = x /\ run'[c].snap = db
      /\ run'[c].n = run[c].n /\ run'[c].body = run[c].body
    BY <1>1, Began
<1>3. RunOK(c)'
    BY <1>1, <1>2 DEF RunsOK, StoreOK, RunOK, Attempting
<1>4. /\ Acquirable(x) /\ conn' = Leased(x, c)
      /\ UNCHANGED <<db, inflight, effect, keyed, answer, factory>>
    BY DEF Begin
<1>5. ConnsOK'
    BY <1>1, <1>2, <1>4, PoolLeases
<1>6. AnswersOK'
    BY <1>1, <1>2, <1>4, AnswersKept DEF Harmless
<1>7. KeysOK' /\ StoreOK'
    BY <1>1, <1>2, <1>4, KeysKept DEF StoreOK
<1>. QED
    BY <1>1, <1>2, <1>3, <1>4, <1>5, <1>6, <1>7, RunsKept DEF RunnerInv, Good

LEMMA BeginFailsStep ==
    ASSUME RunnerInv, NEW c \in Callers, NEW v \in {"failed", "retry", "unknown"},
           BeginFails(c, v)
    PROVE  Good
<1>1. RunsOK /\ StoreOK /\ ConnsOK /\ KeysOK /\ AnswersOK
      /\ run[c].pc = "begin" /\ run[c].lease = None
    BY DEF RunnerInv, RunsOK, RunOK, Attempting, BeginFails
<1>2. Settled(Id(c))
    BY <1>1 DEF AnswersOK, AnswerOK, Harmless
<1>3. UNCHANGED <<db, inflight, effect, keyed, factory>> /\ Conclude(c, v)
      /\ conn' \in {conn} \cup {[conn EXCEPT ![x].state = "closed"] : x \in IdleConns}
      /\ (factory => conn' = conn)
    BY DEF BeginFails
<1>4. /\ RunsOK' /\ StoreOK' /\ KeysOK' /\ AnswersOK'
      /\ run'[c].lease = None /\ Alone(c)
      /\ Promise!Next \/ UNCHANGED <<effect, answer>>
    BY <1>1, <1>2, <1>3, Concluded DEF Answers
<1>5. \A d \in Callers : run'[d].lease = run[d].lease
    BY <1>1, <1>4 DEF Alone
<1>6. ConnsOK'
    <2>1. CASE conn' = conn
        BY <1>1, <1>3, <1>5, <2>1, PoolStays
    <2>2. ASSUME NEW x \in IdleConns, conn' = [conn EXCEPT ![x].state = "closed"], ~factory
          PROVE  ConnsOK'
        <3>1. conn[x].state = "idle" /\ conn[x].ctx = None /\ x \in Conns
            BY <1>1 DEF IdleConns, ConnsOK, PoolIsolation
        <3>2. /\ conn' \in [Conns -> [state : {"closed", "idle", "leased"}, ctx : Callers \cup {None}]]
              /\ conn'[x].state = "closed" /\ conn'[x].ctx = None
              /\ \A y \in Conns \ {x} : conn'[y] = conn[y]
            BY <1>1, <2>2, <3>1 DEF ConnsOK
        <3>. QED
            BY <1>1, <1>3, <1>5, <2>2, <3>1, <3>2, PoolCloses DEF ConnsOK
    <2>. QED
        BY <1>3, <2>1, <2>2
<1>. QED
    BY <1>4, <1>6 DEF RunnerInv, Good

\* The transaction an attempt commits.
LEMMA TxnOK ==
    ASSUME RunnerInv, NEW c \in Callers, run[c].pc = "commit"
    PROVE  /\ Txn(c) \in TxnType /\ Id(c) \in Runs
           /\ Txn(c).run = Id(c) /\ Txn(c).wrote = run[c].wrote /\ run[c].wrote \in BOOLEAN
           /\ Unseen(Txn(c).body, Txn(c).snap, Txn(c).wrote)
           /\ Settled(Id(c)) /\ answer[Id(c)] = "none"
<1>1. Id(c) \in Runs
    BY DEF RunnerInv, RunsOK, RunOK, Runs, Id
<1>2. run[c].wrote \in BOOLEAN /\ run[c].body \in Bodies /\ run[c].snap \in Records
    BY DEF RunnerInv, RunsOK, RunType, RunOK, Attempting
<1>3. Settled(Id(c)) /\ answer[Id(c)] = "none"
    BY DEF RunnerInv, AnswersOK, AnswerOK, Harmless
<1>4. Unseen(run[c].body, run[c].snap, run[c].wrote)
    BY DEF RunnerInv, KeysOK
<1>. QED
    BY <1>1, <1>2, <1>3, <1>4 DEF Txn, TxnType

LEMMA CommitStep ==
    ASSUME RunnerInv, NEW c \in Callers, Commit(c)
    PROVE  Good
<1>1. RunsOK /\ StoreOK /\ ConnsOK /\ KeysOK /\ AnswersOK /\ run[c].pc = "commit"
    BY DEF RunnerInv, Commit
<1> DEFINE v == IF run[c].wrote THEN "ok" ELSE "read"
           t == Txn(c)
<1>2. /\ t \in TxnType /\ Id(c) \in Runs
      /\ t.run = Id(c) /\ t.wrote = run[c].wrote /\ run[c].wrote \in BOOLEAN
      /\ Unseen(t.body, t.snap, t.wrote)
      /\ Settled(Id(c)) /\ answer[Id(c)] = "none"
    BY <1>1, TxnOK
<1>3. /\ Serializable(t) /\ Land(t) /\ run' = [run EXCEPT ![c].pc = "cleanup", ![c].verdict = v]
      /\ UNCHANGED <<conn, inflight, answer, factory>>
    BY DEF Commit
<1>4. v \in Answers \cup {"retry"} /\ v # "none"
    BY DEF Answers
<1> HIDE DEF t, v
<1>5. /\ run' \in [Callers -> RunType] /\ Alone(c)
      /\ run'[c].pc = "cleanup" /\ run'[c].verdict = v
      /\ run'[c].committing = run[c].committing /\ run'[c].wrote = run[c].wrote
      /\ run'[c].n = run[c].n /\ run'[c].body = run[c].body /\ run'[c].snap = run[c].snap
      /\ run'[c].lease = run[c].lease
    BY <1>1, <1>3, <1>4, CommitEnded
<1>6. /\ db' \in Records /\ keyed' \in [Keys -> Nat] /\ OneMutationPerKey'
      /\ effect' = IF t.wrote THEN [effect EXCEPT ![t.run] = 1] ELSE effect
      /\ effect' \in [Runs -> 0..1]
    BY <1>1, <1>2, <1>3, Lands DEF Settled
<1>7. RunOK(c)'
    BY <1>1, <1>4, <1>5 DEF RunsOK, RunOK, Attempting
<1>8. StoreOK' /\ ConnsOK'
    BY <1>1, <1>3, <1>5, <1>6, PoolStays DEF StoreOK, Alone
<1>9. KeysOK'
    BY <1>1, <1>3, <1>5, <1>6 DEF KeysOK, Unseen, Alone
<1>10. \A r \in Runs : r # Id(c) => effect'[r] = effect[r]
    BY <1>1, <1>2, <1>6 DEF StoreOK
<1>11. FlightOK'
    BY <1>1, <1>2, <1>3, <1>10 DEF AnswersOK, FlightOK, Settled, StoreOK, TxnType
<1>12. ASSUME NEW d \in Callers \ {c} PROVE AnswerOK(d)'
    <2>1. \A m \in 1..MaxRuns : <<d, m>> \in Runs /\ <<d, m>> # Id(c)
        BY DEF Runs, Id
    <2>2. run[d].pc # "idle" => run[d].n \in 1..MaxRuns
        BY <1>1 DEF RunsOK, RunOK
    <2>3. \A m \in 1..MaxRuns : effect'[<<d, m>>] = effect[<<d, m>>]
        BY <1>10, <2>1
    <2>. QED
        BY <1>1, <1>3, <1>5, <2>2, <2>3 DEF AnswersOK, AnswerOK, Settled, Harmless, Id, Alone
<1>13. AnswerOK(c)'
    <2>1. \A m \in 1..MaxRuns : m > run[c].n => <<c, m>> \in Runs /\ <<c, m>> # Id(c)
        BY <1>1 DEF Runs, Id, RunsOK, RunOK
    <2>2. \A m \in 1..MaxRuns : m > run[c].n => answer'[<<c, m>>] = "none" /\ Settled(<<c, m>>)'
        BY <1>1, <1>3, <1>10, <2>1 DEF AnswersOK, AnswerOK, Settled
    <2>3. answer'[Id(c)'] = "none" /\ Id(c)' = Id(c)
        BY <1>2, <1>3, <1>5 DEF Id
    <2>4. run[c].committing
        BY <1>1 DEF RunsOK, RunOK
    <2>5. CASE run[c].wrote
        <3>1. v = "ok" /\ effect'[Id(c)] = 1
            BY <1>1, <1>2, <1>6, <2>5 DEF StoreOK, v
        <3>. QED
            BY <1>5, <2>2, <2>3, <2>4, <3>1 DEF AnswerOK, Harmless
    <2>6. CASE ~run[c].wrote
        <3>1. v = "read" /\ effect' = effect
            BY <1>2, <1>6, <2>6 DEF v
        <3>. QED
            BY <1>2, <1>3, <1>5, <2>2, <2>3, <3>1 DEF AnswerOK, Settled
    <2>. QED
        BY <1>2, <2>5, <2>6
<1>14. Promise!Next \/ UNCHANGED <<effect, answer>>
    <2>1. CASE t.wrote
        <3>1. Promise!Apply(Id(c))
            BY <1>2, <1>3, <1>6, <2>1 DEF Promise!Apply, Settled
        <3>. QED
            BY <1>2, <3>1 DEF Promise!Next
    <2>. QED
        BY <1>3, <1>6, <2>1
<1>. QED
    BY <1>1, <1>5, <1>7, <1>8, <1>9, <1>11, <1>12, <1>13, <1>14, RunsKept
       DEF RunnerInv, AnswersOK, Good

LEMMA CommitFailsStep ==
    ASSUME RunnerInv, NEW c \in Callers, NEW e \in {"40001", "40003"}, CommitFails(c, e)
    PROVE  Good
<1>1. RunsOK /\ StoreOK /\ ConnsOK /\ KeysOK /\ AnswersOK /\ run[c].pc = "commit"
    BY DEF RunnerInv, CommitFails
<1> DEFINE v == CommitErrorVerdict(e)
           t == Txn(c)
<1>2. /\ t \in TxnType /\ Id(c) \in Runs
      /\ t.run = Id(c) /\ Unseen(t.body, t.snap, t.wrote)
      /\ Settled(Id(c)) /\ answer[Id(c)] = "none"
    BY <1>1, TxnOK
<1>3. /\ run' = [run EXCEPT ![c].pc = "cleanup", ![c].verdict = v]
      /\ inflight' = inflight \/ (v = "unknown" /\ inflight' = inflight \cup {t})
      /\ UNCHANGED <<conn, db, effect, keyed, answer, factory>>
    BY DEF CommitFails, CommitErrorVerdict
<1>4. v \in Answers \cup {"retry"} /\ v \in {"retry", "unknown"}
    BY DEF CommitErrorVerdict, Answers
<1> HIDE DEF t, v
<1>5. /\ run' \in [Callers -> RunType] /\ Alone(c)
      /\ run'[c].pc = "cleanup" /\ run'[c].verdict = v
      /\ run'[c].committing = run[c].committing /\ run'[c].wrote = run[c].wrote
      /\ run'[c].n = run[c].n /\ run'[c].body = run[c].body /\ run'[c].snap = run[c].snap
      /\ run'[c].lease = run[c].lease
    BY <1>1, <1>3, <1>4, CommitEnded
<1>6. RunsOK'
    BY <1>1, <1>4, <1>5, RunsKept DEF RunsOK, RunOK, Attempting
<1>7. StoreOK' /\ ConnsOK'
    BY <1>1, <1>2, <1>3, <1>5, PoolStays DEF StoreOK, Alone
<1>8. KeysOK'
    BY <1>1, <1>2, <1>3, <1>5 DEF KeysOK, OneMutationPerKey, Unseen, Alone
<1>9. CASE inflight' = inflight
    <2>1. Harmless(c) /\ ~(run'[c].pc = "cleanup" /\ run'[c].verdict = "ok")
        BY <1>1, <1>4, <1>5 DEF Harmless
    <2>2. AnswersOK'
        BY <1>1, <1>3, <1>5, <1>9, <2>1, AnswersKept
    <2>. QED
        BY <1>3, <1>6, <1>7, <1>8, <2>2 DEF RunnerInv, Good
<1>10. CASE v = "unknown" /\ inflight' = inflight \cup {t}
    <2>1. FlightOK'
        BY <1>1, <1>2, <1>3, <1>10 DEF AnswersOK, FlightOK, Settled
    <2>2. ASSUME NEW d \in Callers \ {c} PROVE AnswerOK(d)'
        <3>1. \A m \in 1..MaxRuns : <<d, m>> # t.run
            BY <1>2 DEF Id
        <3>2. run[d].pc # "idle" => run[d].n \in 1..MaxRuns
            BY <1>1 DEF RunsOK, RunOK
        <3>3. \A m \in 1..MaxRuns : Settled(<<d, m>>) => Settled(<<d, m>>)'
            BY <1>3, <1>10, <3>1 DEF Settled
        <3>4. AnswerOK(d) /\ run'[d] = run[d]
            BY <1>1, <1>5 DEF AnswersOK, Alone
        <3>. QED
            BY <1>3, <3>2, <3>3, <3>4 DEF AnswerOK, Harmless, Id
    <2>3. \A m \in 1..MaxRuns : m > run[c].n => Settled(<<c, m>>)'
        <3>1. \A m \in 1..MaxRuns : m > run[c].n => <<c, m>> # t.run
            BY <1>1, <1>2 DEF Id, RunsOK, RunOK
        <3>. QED
            BY <1>1, <1>3, <1>10, <3>1 DEF AnswersOK, AnswerOK, Settled
    <2>4. ~Harmless(c)'
        BY <1>1, <1>5, <1>10 DEF Harmless, RunsOK, RunOK
    <2>5. AnswerOK(c)'
        BY <1>1, <1>2, <1>3, <1>5, <1>10, <2>3, <2>4 DEF AnswersOK, AnswerOK, Id
    <2>. QED
        BY <1>3, <1>6, <1>7, <1>8, <2>1, <2>2, <2>5 DEF RunnerInv, AnswersOK, Good
<1>. QED
    BY <1>3, <1>9, <1>10

LEMMA CleanupStep ==
    ASSUME RunnerInv, NEW c \in Callers, Cleanup(c)
    PROVE  Good
<1> DEFINE x == run[c].lease
           v == run[c].verdict
           state == IF ~(~Committed(c) \/ factory) /\ ~factory
           /\ Cardinality(IdleConns) < MaximumIdle
                    THEN "idle" ELSE "closed"
<1>1. /\ RunsOK /\ StoreOK /\ ConnsOK /\ KeysOK /\ AnswersOK /\ run[c].pc = "cleanup"
      /\ UNCHANGED <<db, inflight, effect, keyed, factory>>
      /\ Conclude(c, v) /\ conn' = [conn EXCEPT ![x] = [state |-> state, ctx |-> None]]
    BY DEF RunnerInv, Cleanup, Released
<1>2. x \in Conns /\ v \in (Answers \ {"none"}) \cup {"retry"}
    BY <1>1 DEF RunsOK, RunOK, RunType, Attempting
<1>3. /\ v = "ok" => effect[Id(c)] = 1
      /\ v \in {"read", "failed", "retry"} => Settled(Id(c))
    BY <1>1 DEF AnswersOK, AnswerOK, Harmless
<1>4. /\ RunsOK' /\ StoreOK' /\ KeysOK' /\ AnswersOK'
      /\ run'[c].lease = None /\ Alone(c)
      /\ Promise!Next \/ UNCHANGED <<effect, answer>>
    BY <1>1, <1>2, <1>3, Concluded
<1>5. state \in {"idle", "closed"}
      /\ (state = "idle" => ~factory /\ Cardinality(IdleConns) < MaximumIdle)
    OBVIOUS
<1> HIDE DEF state
<1>6. ConnsOK'
    BY <1>1, <1>2, <1>4, <1>5, PoolTakesBack
<1>. QED
    BY <1>4, <1>6 DEF RunnerInv, Good

LEMMA CleanupFailsStep ==
    ASSUME RunnerInv, NEW c \in Callers, CleanupFails(c)
    PROVE  Good
<1> DEFINE x == run[c].lease
           a == IF run[c].committing THEN "unknown" ELSE "failed"
<1>1. /\ RunsOK /\ StoreOK /\ ConnsOK /\ KeysOK /\ AnswersOK /\ run[c].pc = "cleanup"
      /\ UNCHANGED <<db, inflight, effect, keyed, factory>>
      /\ Finish(c, a) /\ conn' = [conn EXCEPT ![x] = [state |-> "closed", ctx |-> None]]
    BY DEF RunnerInv, CleanupFails
<1>2. x \in Conns /\ a \in (Answers \ {"none"}) \cup {"retry"} /\ a \in {"unknown", "failed"}
    BY <1>1 DEF RunsOK, RunOK, RunType, Attempting, Answers
<1>3. a = "failed" => Settled(Id(c))
    BY <1>1 DEF AnswersOK, AnswerOK, Harmless
<1>4. Conclude(c, a)
    BY <1>1, <1>2 DEF Conclude
<1>5. /\ RunsOK' /\ StoreOK' /\ KeysOK' /\ AnswersOK'
      /\ run'[c].lease = None /\ Alone(c)
      /\ Promise!Next \/ UNCHANGED <<effect, answer>>
    BY <1>1, <1>2, <1>3, <1>4, Concluded
<1>6. ConnsOK'
    BY <1>1, <1>2, <1>5, PoolTakesBack
<1>. QED
    BY <1>5, <1>6 DEF RunnerInv, Good

\* A commit on its way leaves: it landed, or it never will.
LEMMA DropLateStep ==
    ASSUME RunnerInv, NEW t \in inflight, DropLate(t)
    PROVE  Good
<1>1. inflight' \subseteq inflight
      /\ UNCHANGED <<run, conn, db, effect, keyed, answer, factory>>
    BY DEF DropLate
<1>2. RunsOK' /\ ConnsOK'
    BY <1>1, PoolStays DEF RunnerInv, RunsOK, RunOK
<1>3. StoreOK' /\ KeysOK'
    BY <1>1 DEF RunnerInv, StoreOK, KeysOK, OneMutationPerKey, Unseen
<1>4. AnswersOK'
    BY <1>1 DEF RunnerInv, AnswersOK, FlightOK, AnswerOK, Settled, Harmless, Id
<1>. QED
    BY <1>1, <1>2, <1>3, <1>4 DEF RunnerInv, Good

LEMMA LandLateStep ==
    ASSUME RunnerInv, NEW t \in inflight, LandLate(t)
    PROVE  Good
<1>1. RunsOK /\ StoreOK /\ ConnsOK /\ KeysOK /\ AnswersOK
    BY DEF RunnerInv
<1>2. /\ Serializable(t) /\ Land(t) /\ inflight' = inflight \ {t}
      /\ UNCHANGED <<run, conn, answer, factory>>
    BY DEF LandLate
<1>3. /\ t \in TxnType /\ t.run \in Runs /\ t.wrote \in BOOLEAN /\ effect[t.run] = 0
      /\ Unseen(t.body, t.snap, t.wrote) /\ answer[t.run] \in {"none", "unknown"}
    BY <1>1 DEF StoreOK, TxnType, KeysOK, AnswersOK, FlightOK
<1>4. /\ db' \in Records /\ keyed' \in [Keys -> Nat] /\ OneMutationPerKey'
      /\ effect' = IF t.wrote THEN [effect EXCEPT ![t.run] = 1] ELSE effect
      /\ effect' \in [Runs -> 0..1]
    BY <1>1, <1>2, <1>3, Lands
<1>5. RunsOK' /\ ConnsOK'
    BY <1>1, <1>2, PoolStays DEF RunsOK, RunOK
<1>6. StoreOK' /\ KeysOK'
    BY <1>1, <1>2, <1>4 DEF StoreOK, KeysOK, Unseen
<1>7. \A r \in Runs : r # t.run => effect'[r] = effect[r]
    BY <1>1, <1>3, <1>4 DEF StoreOK
<1>8. \A s \in inflight' : s \in inflight /\ s.run \in Runs /\ s.run # t.run
    BY <1>1, <1>2 DEF AnswersOK, FlightOK, StoreOK, TxnType
<1>9. FlightOK'
    BY <1>1, <1>2, <1>7, <1>8 DEF AnswersOK, FlightOK
<1>10. \A r \in Runs : Settled(r) => Settled(r)'
    BY <1>2, <1>7, <1>8 DEF Settled
<1>11. ASSUME NEW c \in Callers PROVE AnswerOK(c)'
    <2>1. \A m \in 1..MaxRuns : <<c, m>> \in Runs
        BY DEF Runs
    <2>2. run[c].pc # "idle" => run[c].n \in 1..MaxRuns /\ Id(c) \in Runs
        BY <1>1, <2>1 DEF RunsOK, RunOK, Id
    <2>3. \A r \in Runs : effect[r] = 1 => effect'[r] = 1
        BY <1>3, <1>7
    <2>4. AnswerOK(c)
        BY <1>1 DEF AnswersOK
    <2>. QED
        BY <1>2, <1>10, <2>1, <2>2, <2>3, <2>4 DEF AnswerOK, Harmless, Id
<1>12. Promise!Next \/ UNCHANGED <<effect, answer>>
    <2>1. CASE t.wrote
        <3>1. Promise!Apply(t.run)
            BY <1>2, <1>3, <1>4, <2>1 DEF Promise!Apply
        <3>. QED
            BY <1>3, <3>1 DEF Promise!Next
    <2>. QED
        BY <1>2, <1>4, <2>1
<1>. QED
    BY <1>5, <1>6, <1>9, <1>11, <1>12 DEF RunnerInv, AnswersOK, Good

\* Closing touches nothing but idle connections.
LEMMA ClosingStep ==
    ASSUME RunnerInv, Close \/ CloseFactory
    PROVE  Good
<1>1. UNCHANGED <<run, db, inflight, effect, keyed, answer>>
    BY DEF Close, CloseFactory
<1>2. RunsOK' /\ StoreOK' /\ KeysOK' /\ AnswersOK'
    BY <1>1 DEF RunnerInv, RunsOK, RunOK, StoreOK, KeysOK, OneMutationPerKey, Unseen, AnswersOK,
                FlightOK, AnswerOK, Settled, Harmless, Id
<1>3. CASE Close
    <2>1. ConnsOK'
        BY <1>1, <1>3, PoolStays DEF RunnerInv, Close
    <2>. QED
        BY <1>1, <1>2, <2>1 DEF RunnerInv, Good
<1>4. CASE CloseFactory
    <2>1. /\ factory' = TRUE
          /\ conn' = [x \in Conns |-> IF x \in IdleConns
                                THEN [state |-> "closed", ctx |-> None] ELSE conn[x]]
        BY <1>4 DEF CloseFactory
    <2>2. conn' \in [Conns -> [state : {"closed", "idle", "leased"}, ctx : Callers \cup {None}]]
        BY <2>1 DEF RunnerInv, ConnsOK
    <2>3. \A y \in Conns : conn'[y] = conn[y] \/
               (conn[y].state = "idle" /\ conn'[y].state = "closed" /\ conn'[y].ctx = None)
        BY <2>1 DEF IdleConns
    <2>4. IdleConns' = {}
        BY <2>1 DEF IdleConns
    <2>5. ConnsOK'
        BY <1>1, <2>1, <2>2, <2>3, <2>4, PoolCloses DEF RunnerInv
    <2>. QED
        BY <1>1, <1>2, <2>5 DEF RunnerInv, Good
<1>. QED
    BY <1>3, <1>4

-----------------------------------------------------------------------------
(* The theorems *)

LEMMA RunnerInit ==
    ASSUME Init
    PROVE  RunnerInv /\ Promise!Init
<1>1. run \in [Callers -> RunType] /\ \A c \in Callers : run[c] = Idle(0)
    BY RunnerAssumption DEF Init, Idle, RunType, Answers
<1>2. RunsOK
    BY <1>1 DEF RunsOK, RunOK, Idle, Attempting
<1>3. StoreOK
    BY DEF Init, StoreOK, Records, EmptyDb, Answers
<1>4. ConnsOK
    <2>1. IdleConns = {}
        BY DEF Init, IdleConns
    <2>2. IsFiniteSet(IdleConns) /\ Cardinality(IdleConns) = 0
        BY <2>1, FS_EmptySet
    <2>3. \A c \in Callers : run[c].lease = None
        BY <1>1 DEF Idle
    <2>4. /\ conn \in [Conns -> [state : {"closed", "idle", "leased"}, ctx : Callers \cup {None}]]
          /\ \A x \in Conns : conn[x].state = "closed" /\ conn[x].ctx = None
          /\ factory \in BOOLEAN /\ MaximumIdle \in Nat
        BY RunnerAssumption DEF Init
    <2>5. \A x \in Conns : \A c \in Callers : run[c].lease # x
        BY <2>3, RunnerAssumption
    <2>. QED
        BY <2>1, <2>2, <2>4, <2>5 DEF ConnsOK, PoolIsolation
<1>5. KeysOK
    BY <1>1 DEF Init, KeysOK, OneMutationPerKey, EmptyDb, Idle
<1>6. AnswersOK
    BY <1>1 DEF Init, AnswersOK, FlightOK, AnswerOK, Settled, Runs, Idle
<1>7. Promise!Init
    BY DEF Init, Promise!Init
<1>. QED
    BY <1>2, <1>3, <1>4, <1>5, <1>6, <1>7 DEF RunnerInv

LEMMA RunnerStep ==
    ASSUME RunnerInv, [Next]_vars
    PROVE  Good
<1>1. CASE UNCHANGED vars
    <2>1. UNCHANGED <<run, conn, db, inflight, effect, keyed, answer, factory>>
        BY <1>1 DEF vars
    <2>2. ConnsOK'
        BY <2>1, PoolStays DEF RunnerInv
    <2>. QED
        BY <2>1, <2>2 DEF RunnerInv, RunsOK, RunOK, StoreOK, KeysOK, OneMutationPerKey, Unseen,
                AnswersOK, FlightOK, AnswerOK, Settled, Harmless, Id, Good
<1>2. ASSUME NEW c \in Callers, Step(c) PROVE Good
    <2>1. ASSUME NEW x \in Conns, Begin(c, x) PROVE Good
        BY <2>1, BeginStep
    <2>2. ASSUME NEW v \in {"failed", "retry", "unknown"}, BeginFails(c, v) \/ BodyFails(c, v)
          PROVE  Good
        BY <2>2, BeginFailsStep, BodyFailsStep
    <2>3. ASSUME ExecuteOnce(c) \/ PlainReplace(c) \/ Reconcile(c) PROVE Good
        BY <2>3, ExecuteOnceStep, PlainReplaceStep, ReconcileStep
    <2>4. ASSUME Recheck(c) \/ Commit(c) PROVE Good
        BY <2>4, RecheckStep, CommitStep
    <2>5. ASSUME NEW e \in {"40001", "40003"}, CommitFails(c, e) PROVE Good
        BY <2>5, CommitFailsStep
    <2>6. ASSUME Cleanup(c) \/ CleanupFails(c) PROVE Good
        BY <2>6, CleanupStep, CleanupFailsStep
    <2>. QED
        BY <1>2, <2>1, <2>2, <2>3, <2>4, <2>5, <2>6 DEF Step
<1>3. ASSUME NEW c \in Callers, Lapse(c) PROVE Good
    BY <1>3, LapseStep
<1>4. ASSUME NEW c \in Callers, NEW b \in Bodies, Run(c, b) PROVE Good
    BY <1>4, RunStep
<1>5. ASSUME NEW t \in inflight, LandLate(t) \/ DropLate(t) PROVE Good
    BY <1>5, LandLateStep, DropLateStep
<1>6. ASSUME Close \/ CloseFactory PROVE Good
    BY <1>6, ClosingStep
<1>. QED
    BY <1>1, <1>2, <1>3, <1>4, <1>5, <1>6 DEF Next

\* The inductive invariant holds of every state the runner reaches.
THEOREM RunnerIsInvariant == Spec => []RunnerInv
<1>1. Init => RunnerInv
    BY RunnerInit
<1>2. RunnerInv /\ [Next]_vars => RunnerInv'
    BY RunnerStep DEF Good
<1>. QED
    BY <1>1, <1>2, PTL DEF Spec

\* However many callers, retries, lost acknowledgements and late commits there
\* are, the mutation under an idempotency key lands at most once and exactly
\* when its OPERATION record does (idempotency.py:68-87).
THEOREM KeysMutateOnce == Spec => []OneMutationPerKey
<1>1. RunnerInv => OneMutationPerKey
    BY DEF RunnerInv, KeysOK
<1>. QED
    BY <1>1, RunnerIsInvariant, PTL

\* A pooled connection serves one transaction at a time and carries the context
\* of its lessee alone; the idle list keeps its bound (pool.py:260-296).
THEOREM PoolIsIsolated == Spec => []PoolIsolation
<1>1. RunnerInv => PoolIsolation
    BY DEF RunnerInv, ConnsOK
<1>. QED
    BY <1>1, RunnerIsInvariant, PTL

\* TransactionRunner.run keeps the promise of CommitOnce: every step is a step
\* of it or leaves its variables alone (ports.py:288-320).
THEOREM RunnerKeepsPromise == Spec => PromiseKept
<1>1. Init => Promise!Init
    BY RunnerInit
<1>2. RunnerInv /\ [Next]_vars => [Promise!Next]_(Promise!vars)
    BY RunnerStep DEF Good, Promise!vars
<1>. QED
    BY <1>1, <1>2, RunnerIsInvariant, PTL DEF Spec, PromiseKept, Promise!Spec

-----------------------------------------------------------------------------
(* The schema migration *)

Snaps == [cat : Catalogs, applied : Nat, pending : Rows \cup {Absent}]

ExecType == [pc : {"idle", "roles", "unit", "prelude", "statement", "checkpoint", "certify"},
             snap : Snaps \cup {Absent}, admitted : BOOLEAN, unit : Nat, at : Nat,
             seen : Catalogs \cup {Absent}]

TypesOK ==
    /\ cat \in Catalogs /\ applied \in 0..Units
    /\ pending \in Rows \cup {Absent} /\ cert \in Catalogs \cup {Absent}
    /\ exec \in [Executors -> ExecType]
    /\ sent \subseteq Stmts /\ replayed \subseteq sent /\ raced \in BOOLEAN

\* The APPLYING row is for the unit after the applied ones.
RowOK ==
    pending # Absent => /\ pending.unit = applied + 1 /\ pending.unit \in 2..Units
                      /\ pending.done <= Counts[pending.unit]

Stepping == {"prelude", "statement", "checkpoint"}

\* An executor is never ahead of the rows, and has sent all it counted.
ExecOK(e) ==
    /\ exec[e].pc # "idle" => exec[e].seen \in Catalogs
    /\ exec[e].pc \in {"roles", "prelude"} => exec[e].at >= 1
    /\ exec[e].pc \in Stepping \cup {"unit"} => exec[e].unit \in 1..Units
       /\ exec[e].unit <= applied + 1
    /\ exec[e].pc \in Stepping =>
          /\ exec[e].unit >= 2
          /\ \A i \in 1..Counts[exec[e].unit] : i < exec[e].at => <<exec[e].unit, i>> \in sent
    /\ exec[e].pc = "prelude" => exec[e].unit = Units
    /\ exec[e].pc = "checkpoint" => exec[e].at >= 1 /\ <<exec[e].unit, exec[e].at>> \in sent

\* The statement the database may have done without its being counted.
Gap == IF pending = Absent THEN {} ELSE {<<pending.unit, pending.done + 1>>}

\* What the tracking rows cannot account for: the prelude runs without a row, and
\* some statements leave no trace in catalog().
Spare == Prelude \cup (Stmts \ Visible)

\* While executions do not overlap: what the one executor knows.
SoleOK(e) ==
    /\ exec[e].pc = "roles" => applied = 0
    /\ exec[e].pc \in Stepping \cup {"unit"} => exec[e].unit = applied + 1
    /\ exec[e].pc \in {"unit", "prelude", "statement"} /\ exec[e].unit >= 2
       => exec[e].seen = Fingerprint(cat)
    /\ exec[e].pc = "prelude" => pending = Absent
    /\ exec[e].pc \in {"statement", "checkpoint"} => exec[e].at >= 1
       /\ CountedTo(exec[e].unit, exec[e].at - 1)
    /\ exec[e].pc = "statement" => cat.done \subseteq Claimed \cup Spare

QuietOK ==
    /\ replayed \subseteq Spare
    /\ cat.done \subseteq Claimed \cup Spare \cup Gap
    /\ pending # Absent => pending.fp.done \subseteq Claimed \cup Spare
    /\ \A e, f \in Executors : exec[e].pc # "idle" /\ exec[f].pc # "idle" => e = f
    /\ \A e \in Executors : SoleOK(e)

MigrationInv ==
    /\ TypesOK /\ RowOK /\ \A e \in Executors : ExecOK(e)
    /\ RowsAreTrue /\ CertifiedIsComplete
    /\ ~raced => QuietOK

-----------------------------------------------------------------------------
(* Units and statements *)

LEMMA UnitFacts ==
    /\ Units \in Nat /\ Units >= 2
    /\ \A u \in 1..Units : Counts[u] \in Nat /\ Counts[u] >= 1
    /\ PreludeCount \in Nat /\ PreludeCount < Counts[Units] /\ RoleCount \in Nat
<1>1. Counts \in Seq(Nat \ {0}) /\ Units >= 2 /\ PreludeCount \in 0..(Counts[Units] - 1)
      /\ RoleCount \in Nat
    BY MigrationAssumption
<1>2. Units \in Nat /\ DOMAIN Counts = 1..Units
    BY <1>1 DEF Units
<1>3. \A u \in 1..Units : Counts[u] \in Nat \ {0}
    BY <1>1, <1>2
<1>. QED
    BY <1>1, <1>2, <1>3

LEMMA StmtFacts ==
    /\ \A s \in Stmts : s = <<s[1], s[2]>> /\ s[1] \in 2..Units
                        /\ s[2] \in 1..Counts[s[1]]
    /\ \A u, i : <<u, i>> \in Stmts <=> u \in 2..Units /\ i \in 1..Counts[u]
    /\ Prelude \subseteq Stmts
<1>1. \A s : s \in Stmts <=> \E u \in 2..Units : \E i \in 1..Counts[u] : s = <<u, i>>
    BY DEF Stmts
<1>2. \A s \in Stmts : s = <<s[1], s[2]>> /\ s[1] \in 2..Units /\ s[2] \in 1..Counts[s[1]]
    BY <1>1
<1>3. \A u, i : <<u, i>> \in Stmts <=> u \in 2..Units /\ i \in 1..Counts[u]
    BY <1>1
<1>4. Prelude \subseteq Stmts
    BY <1>3, UnitFacts DEF Prelude
<1>. QED
    BY <1>2, <1>3, <1>4

-----------------------------------------------------------------------------
(* What a controller reads *)

LEMMA Shown ==
    ASSUME NEW c \in Catalogs
    PROVE  /\ Fingerprint(c) \in Catalogs
           /\ Fingerprint(c).roles = c.roles /\ Fingerprint(c).boot = c.boot
           /\ Fingerprint(c).done = c.done \cap Visible
           /\ c.done \subseteq Fingerprint(c).done \cup Spare
BY DEF Catalogs, Fingerprint, Spare

-----------------------------------------------------------------------------
(* What an action does to the locals of its executor *)

Others(e) == \A f \in Executors \ {e} : exec'[f] = exec[f]

LEMMA Left ==
    ASSUME TypesOK, NEW e \in Executors, Leave(e)
    PROVE  exec' \in [Executors -> ExecType] /\ Others(e) /\ exec'[e].pc = "idle"
<1>1. exec[e] \in ExecType
    BY DEF TypesOK
<1> DEFINE r == [Resting EXCEPT !.snap = exec[e].snap]
<1>2. r \in [pc : {"idle"}, snap : {exec[e].snap}, admitted : BOOLEAN, unit : {0}, at : {0},
             seen : {Absent}]
    BY DEF Resting
<1>3. exec' = [exec EXCEPT ![e] = r]
    BY DEF Leave
<1> HIDE DEF r
<1>4. r \in ExecType /\ r.pc = "idle"
    BY <1>1, <1>2 DEF ExecType
<1>. QED
    BY <1>3, <1>4 DEF TypesOK, Others

LEMMA Went ==
    ASSUME TypesOK, NEW e \in Executors, NEW u \in Nat, NEW a \in Nat,
           NEW pc \in {"roles", "unit", "prelude", "statement", "checkpoint", "certify"},
           Goto(e, pc, u, a)
    PROVE  /\ exec' \in [Executors -> ExecType] /\ Others(e)
           /\ exec'[e].pc = pc /\ exec'[e].unit = u /\ exec'[e].at = a
           /\ exec'[e].seen = exec[e].seen
<1>1. exec[e] \in ExecType
    BY DEF TypesOK
<1> DEFINE r1 == [exec[e] EXCEPT !.pc = pc]
           r2 == [r1 EXCEPT !.unit = u]
           r3 == [r2 EXCEPT !.at = a]
<1>2. exec' = [exec EXCEPT ![e] = r3]
    BY DEF Goto, TypesOK
<1>3. r3 \in ExecType /\ r3.pc = pc /\ r3.unit = u /\ r3.at = a /\ r3.seen = exec[e].seen
    BY <1>1 DEF ExecType
<1> HIDE DEF r3
<1>. QED
    BY <1>2, <1>3 DEF TypesOK, Others

\* The operator plans; nothing runs.
LEMMA Planned ==
    ASSUME TypesOK, NEW e \in Executors,
           Inspect(e) \/ Admit(e) \/ Expire(e)
    PROVE  exec' \in [Executors -> ExecType] /\ Others(e) /\ exec'[e].pc = "idle"
<1>1. exec[e] \in ExecType /\ exec[e].pc = "idle"
    BY DEF TypesOK, Inspect, Admit, Expire
<1>2. CASE Inspect(e)
    <2> DEFINE sn == Observed
               r1 == [exec[e] EXCEPT !.snap = sn]
               r2 == [r1 EXCEPT !.admitted = FALSE]
    <2>1. sn \in Snaps
        BY UnitFacts, Shown DEF TypesOK, Snaps, Observed
    <2>2. exec' = [exec EXCEPT ![e] = r2]
        BY <1>2 DEF Inspect, TypesOK
    <2> HIDE DEF sn
    <2>3. r2 \in ExecType /\ r2.pc = "idle"
        BY <1>1, <2>1 DEF ExecType
    <2> HIDE DEF r2
    <2>. QED
        BY <2>2, <2>3 DEF TypesOK, Others
<1>3. CASE Admit(e)
    BY <1>1, <1>3 DEF Admit, TypesOK, ExecType, Others
<1>4. CASE Expire(e)
    <2> DEFINE r1 == [exec[e] EXCEPT !.snap = Absent]
               r2 == [r1 EXCEPT !.admitted = FALSE]
    <2>1. exec' = [exec EXCEPT ![e] = r2]
        BY <1>4 DEF Expire, TypesOK
    <2>2. r2 \in ExecType /\ r2.pc = "idle"
        BY <1>1 DEF ExecType
    <2> HIDE DEF r2
    <2>. QED
        BY <2>1, <2>2 DEF TypesOK, Others
<1>. QED
    BY <1>2, <1>3, <1>4

-----------------------------------------------------------------------------
(* What a step of the controller leaves of the invariant *)

LEMMA ExecsKept ==
    ASSUME MigrationInv, NEW e \in Executors, Others(e),
           applied' \in 0..Units, applied <= applied',
           sent \subseteq sent', ExecOK(e)'
    PROVE  \A f \in Executors : ExecOK(f)'
<1>1. ASSUME NEW f \in Executors \ {e} PROVE ExecOK(f)'
    <2>1. ExecOK(f) /\ exec'[f] = exec[f] /\ exec[f].unit \in Nat
        BY DEF MigrationInv, TypesOK, ExecType, Others
    <2>. QED
        BY <2>1, UnitFacts DEF ExecOK, MigrationInv, TypesOK
<1>. QED
    BY <1>1

\* The only executor at work stays the only one.
LEMMA SolesKept ==
    ASSUME QuietOK, NEW e \in Executors, exec[e].pc # "idle", Others(e),
           SoleOK(e)'
    PROVE  /\ \A f, g \in Executors : exec'[f].pc # "idle" /\ exec'[g].pc # "idle" => f = g
           /\ \A f \in Executors : SoleOK(f)'
<1>1. \A f \in Executors \ {e} : exec'[f].pc = "idle"
    BY DEF QuietOK, Others
<1>2. \A f \in Executors \ {e} : SoleOK(f)'
    BY <1>1 DEF SoleOK, Stepping
<1>. QED
    BY <1>1, <1>2

\* A step that touches neither the catalog nor the rows.
LEMMA ControlStep ==
    ASSUME MigrationInv, NEW e \in Executors,
           exec' \in [Executors -> ExecType], Others(e),
           UNCHANGED <<cat, applied, pending, sent, replayed>>,
           raced' \in BOOLEAN, raced => raced',
           cert' \in Catalogs \cup {Absent}, CertifiedIsComplete', ExecOK(e)',
           ~raced' => /\ SoleOK(e)'
                      /\ exec'[e].pc # "idle" =>
                             \A f \in Executors \ {e} : exec[f].pc = "idle"
    PROVE  MigrationInv'
<1>1. TypesOK' /\ RowOK' /\ RowsAreTrue'
    BY DEF MigrationInv, TypesOK, RowOK, RowsAreTrue, Claimed
<1>2. \A f \in Executors : ExecOK(f)'
    BY ExecsKept, UnitFacts DEF MigrationInv, TypesOK
<1>3. ASSUME ~raced' PROVE QuietOK'
    <2>1. QuietOK
        BY <1>3 DEF MigrationInv
    <2>2. /\ replayed' \subseteq Spare
          /\ cat'.done \subseteq Claimed' \cup Spare \cup Gap'
          /\ pending' # Absent => pending'.fp.done \subseteq Claimed' \cup Spare
        BY <2>1 DEF QuietOK, Claimed, Gap
    <2>3. \A f, g \in Executors : exec'[f].pc # "idle" /\ exec'[g].pc # "idle" => f = g
        BY <1>3, <2>1 DEF QuietOK, Others
    <2>4. ASSUME NEW f \in Executors \ {e} PROVE SoleOK(f)'
        BY <2>1, <2>4 DEF QuietOK, SoleOK, CountedTo, Claimed, Others
    <2>. QED
        BY <1>3, <2>2, <2>3, <2>4 DEF QuietOK
<1>. QED
    BY <1>1, <1>2, <1>3 DEF MigrationInv

\* An execution ends, or an operator plans.
LEMMA RestStep ==
    ASSUME MigrationInv, NEW e \in Executors,
           exec' \in [Executors -> ExecType], Others(e),
           exec'[e].pc = "idle", UNCHANGED <<cat, applied, pending, cert, sent, replayed>>,
           raced' \in BOOLEAN, raced => raced'
    PROVE  MigrationInv'
<1>1. ExecOK(e)' /\ SoleOK(e)'
    BY DEF ExecOK, SoleOK, Stepping
<1>2. cert' \in Catalogs \cup {Absent} /\ CertifiedIsComplete'
    BY DEF MigrationInv, TypesOK, CertifiedIsComplete
<1>. QED
    BY <1>1, <1>2, ControlStep

-----------------------------------------------------------------------------
(* One lemma for each operation of the controller *)

LEMMA PlanStep ==
    ASSUME MigrationInv, NEW e \in Executors,
           Inspect(e) \/ Admit(e) \/ Expire(e)
    PROVE  MigrationInv'
<1>1. exec' \in [Executors -> ExecType] /\ Others(e) /\ exec'[e].pc = "idle"
    BY Planned DEF MigrationInv
<1>2. UNCHANGED <<cat, applied, pending, cert, sent, replayed, raced>>
    BY DEF Inspect, Admit, Expire, database, traffic
<1>. QED
    BY <1>1, <1>2, RestStep DEF MigrationInv, TypesOK

LEMMA FailStep ==
    ASSUME MigrationInv, NEW e \in Executors, Fail(e) \/ Crash(e)
    PROVE  MigrationInv'
<1>1. UNCHANGED <<cat, applied, pending, cert, sent, replayed, raced>>
    BY DEF Fail, Crash, database, traffic
<1>2. exec' \in [Executors -> ExecType] /\ Others(e) /\ exec'[e].pc = "idle"
    <2>1. CASE Fail(e)
        BY <2>1, Left DEF Fail, MigrationInv
    <2>2. CASE Crash(e)
        <3>1. Resting \in ExecType /\ Resting.pc = "idle"
            BY DEF Resting, ExecType
        <3>. QED
            BY <2>2, <3>1 DEF Crash, MigrationInv, TypesOK, Others
    <2>. QED
        BY <2>1, <2>2
<1>. QED
    BY <1>1, <1>2, RestStep DEF MigrationInv, TypesOK

LEMMA ExecuteStep ==
    ASSUME MigrationInv, NEW e \in Executors, Execute(e)
    PROVE  MigrationInv'
<1>1. /\ UNCHANGED <<cat, applied, pending, cert, sent, replayed>>
      /\ raced' \in BOOLEAN /\ (raced => raced')
      /\ ~raced' => \A f \in Executors : exec[f].pc = "idle"
    BY DEF Execute, MigrationInv, TypesOK
<1>2. CASE Leave(e)
    BY <1>1, <1>2, Left, RestStep DEF MigrationInv
<1>3. CASE ~Leave(e)
    <2> DEFINE pc == IF applied = 0 THEN "roles" ELSE IF applied = Units THEN "certify" ELSE "unit"
               r1 == [exec[e] EXCEPT !.pc = pc]
               r2 == [r1 EXCEPT !.admitted = FALSE]
               r3 == [r2 EXCEPT !.seen = Fingerprint(cat)]
               r4 == [r3 EXCEPT !.unit = applied + 1]
               r5 == [r4 EXCEPT !.at = 1]
    <2>1. exec' = [exec EXCEPT ![e] = r5] /\ Explained(Fingerprint(cat))
        BY <1>3 DEF Execute, MigrationInv, TypesOK
    <2>2. exec[e] \in ExecType /\ Fingerprint(cat) \in Catalogs /\ applied \in 0..Units
          /\ Units \in Nat
        BY UnitFacts, Shown DEF MigrationInv, TypesOK
    <2>a. pc \in {"roles", "certify", "unit"} /\ applied + 1 \in Nat
        BY <2>2
    <2> HIDE DEF pc
    <2>3. r3 \in ExecType /\ r3.pc = pc /\ r3.seen = Fingerprint(cat)
        BY <2>2, <2>a DEF ExecType
    <2> HIDE DEF r3
    <2>4. /\ r5 \in ExecType /\ r5.pc = pc /\ r5.seen = Fingerprint(cat) /\ r5.unit = applied + 1
             /\ r5.at = 1
        BY <2>a, <2>3 DEF ExecType
    <2> HIDE DEF r5
    <2>5. /\ exec' \in [Executors -> ExecType] /\ Others(e)
          /\ exec'[e].pc = pc /\ exec'[e].seen = Fingerprint(cat)
             /\ exec'[e].unit = applied + 1
             /\ exec'[e].at = 1
        BY <2>1, <2>4 DEF MigrationInv, TypesOK, Others
    <2>6. ExecOK(e)'
        BY <1>1, <2>2, <2>5 DEF ExecOK, Stepping, pc
    <2>7. SoleOK(e)'
        BY <1>1, <2>2, <2>5 DEF SoleOK, Stepping, pc
    <2>8. cert' \in Catalogs \cup {Absent} /\ CertifiedIsComplete'
        BY <1>1 DEF MigrationInv, TypesOK, CertifiedIsComplete
    <2>. QED
        BY <1>1, <2>5, <2>6, <2>7, <2>8, ControlStep
<1>. QED
    BY <1>2, <1>3

LEMMA CertifyStep ==
    ASSUME MigrationInv, NEW e \in Executors, Certify(e)
    PROVE  MigrationInv'
<1>1. exec' \in [Executors -> ExecType] /\ Others(e) /\ exec'[e].pc = "idle"
    BY Left DEF MigrationInv, Certify
<1>2. UNCHANGED <<cat, applied, pending, sent, replayed, raced>>
    BY DEF Certify, traffic
<1>3. cert' \in Catalogs \cup {Absent} /\ CertifiedIsComplete'
    <2>1. CASE cert' = cert
        BY <1>2, <2>1 DEF MigrationInv, TypesOK, CertifiedIsComplete
    <2>2. CASE Certifiable /\ applied = Units /\ cert' = Fingerprint(cat)
        <3>1. /\ cert' \in Catalogs /\ cert'.roles = cat.roles /\ cert'.boot = cat.boot
              /\ cert'.done = cat.done \cap Visible
            BY <2>2, Shown DEF MigrationInv, TypesOK
        <3>2. Checked \subseteq cert'.done
            BY <2>2, <3>1, MigrationAssumption DEF Certifiable
        <3>3. Stmts \subseteq Claimed
            BY <2>2, StmtFacts, UnitFacts DEF Claimed
        <3>4. sent = Stmts
            BY <3>3 DEF MigrationInv, TypesOK, RowsAreTrue
        <3>. QED
            BY <1>2, <2>2, <3>1, <3>2, <3>4 DEF CertifiedIsComplete, Certifiable
    <2>. QED
        BY <2>1, <2>2 DEF Certify
<1>4. ExecOK(e)' /\ SoleOK(e)'
    BY <1>1 DEF ExecOK, SoleOK, Stepping
<1>. QED
    BY <1>1, <1>2, <1>3, <1>4, ControlStep DEF MigrationInv, TypesOK

\* A step of the only executor that changes the catalog, the rows or the traffic.
LEMMA WorkStep ==
    ASSUME MigrationInv, NEW e \in Executors, exec[e].pc # "idle",
           Others(e), UNCHANGED <<cert, raced>>,
           TypesOK', RowOK', ExecOK(e)', RowsAreTrue', applied <= applied', sent \subseteq sent',
           cert # Absent => applied' = applied,
           ~raced /\ QuietOK =>
               /\ replayed' \subseteq Spare
               /\ cat'.done \subseteq Claimed' \cup Spare \cup Gap'
               /\ pending' # Absent => pending'.fp.done \subseteq Claimed' \cup Spare
               /\ SoleOK(e)'
    PROVE  MigrationInv'
<1>1. \A f \in Executors : ExecOK(f)'
    BY ExecsKept DEF TypesOK
<1>2. CertifiedIsComplete'
    BY DEF MigrationInv, CertifiedIsComplete, TypesOK
<1>3. ASSUME ~raced' PROVE QuietOK'
    <2>1. ~raced /\ QuietOK
        BY <1>3 DEF MigrationInv
    <2>. QED
        BY <2>1, SolesKept DEF QuietOK
<1>. QED
    BY <1>1, <1>2, <1>3 DEF MigrationInv

LEMMA CreateRoleStep ==
    ASSUME MigrationInv, NEW e \in Executors, CreateRole(e)
    PROVE  MigrationInv'
<1>0. exec[e] \in ExecType /\ ExecOK(e) /\ exec[e].pc = "roles" /\ applied \in 0..Units
    BY DEF CreateRole, MigrationInv, TypesOK
<1>1. /\ UNCHANGED <<applied, pending, cert, sent, replayed, raced>> /\ exec[e].pc = "roles"
      /\ exec[e].seen \in Catalogs /\ applied \in 0..Units
      /\ exec[e].at \in Nat /\ exec[e].at >= 1 /\ exec[e].at + 1 \in Nat
    BY <1>0 DEF CreateRole, traffic, ExecOK, ExecType
<1>2. CASE exec[e].at > RoleCount
    <2>1. UNCHANGED cat /\ Goto(e, "unit", 1, 0)
        BY <1>2 DEF CreateRole
    <2>2. /\ exec' \in [Executors -> ExecType] /\ Others(e)
          /\ exec'[e].pc = "unit" /\ exec'[e].unit = 1 /\ exec'[e].seen = exec[e].seen
        BY <2>1, Went DEF MigrationInv
    <2>3. ExecOK(e)'
        BY <1>1, <2>2, UnitFacts DEF ExecOK, Stepping
    <2>4. ASSUME ~raced' PROVE SoleOK(e)' /\ \A f \in Executors \ {e} : exec[f].pc = "idle"
        BY <1>1, <2>2, <2>4 DEF MigrationInv, QuietOK, SoleOK, Stepping
    <2>5. cert' \in Catalogs \cup {Absent} /\ CertifiedIsComplete' /\ raced' \in BOOLEAN
        BY <1>1 DEF MigrationInv, TypesOK, CertifiedIsComplete
    <2>. QED
        BY <1>1, <2>1, <2>2, <2>3, <2>4, <2>5, ControlStep
<1>3. CASE ~(exec[e].at > RoleCount)
    <2>1. cat' = [cat EXCEPT !.roles = @ \cup {exec[e].at}]
          /\ Goto(e, "roles", 1, exec[e].at + 1)
        BY <1>3 DEF CreateRole
    <2>2. /\ exec' \in [Executors -> ExecType] /\ Others(e)
          /\ exec'[e].pc = "roles" /\ exec'[e].seen = exec[e].seen
             /\ exec'[e].at = exec[e].at + 1
        BY <1>1, <2>1, Went DEF MigrationInv
    <2>3. cat'.done = cat.done
        BY <2>1 DEF MigrationInv, TypesOK, Catalogs
    <2>4. TypesOK'
        <3>1. exec[e].at \in 1..RoleCount
            BY <1>1, <1>3, UnitFacts
        <3>2. cat' \in Catalogs
            BY <2>1, <3>1 DEF MigrationInv, TypesOK, Catalogs
        <3>. QED
            BY <1>1, <2>2, <3>2 DEF MigrationInv, TypesOK
    <2>5. RowOK' /\ RowsAreTrue' /\ ExecOK(e)'
        BY <1>1, <2>2 DEF MigrationInv, RowOK, RowsAreTrue, Claimed, ExecOK, Stepping
    <2>6. ASSUME ~raced, QuietOK
          PROVE  /\ replayed' \subseteq Spare
                 /\ cat'.done \subseteq Claimed' \cup Spare \cup Gap'
                 /\ pending' # Absent => pending'.fp.done \subseteq Claimed' \cup Spare
                 /\ SoleOK(e)'
        BY <1>1, <2>2, <2>3, <2>6 DEF QuietOK, SoleOK, Stepping, Claimed, Gap
    <2>. QED
        BY <1>1, <2>2, <2>4, <2>5, <2>6, WorkStep, UnitFacts
<1>. QED
    BY <1>2, <1>3

LEMMA BootstrapStep ==
    ASSUME MigrationInv, NEW e \in Executors, Bootstrap(e)
    PROVE  MigrationInv'
<1>1. /\ exec[e] \in ExecType /\ applied \in 0..Units /\ cat \in Catalogs
      /\ exec[e].pc = "unit" /\ exec[e].unit = 1
      /\ UNCHANGED <<pending, cert, sent, replayed, raced>>
    BY DEF Bootstrap, traffic, MigrationInv, TypesOK
<1>2. CASE cat.boot \/ applied > 0
    <2>1. Leave(e) /\ UNCHANGED <<cat, applied>>
        BY <1>2 DEF Bootstrap
    <2>2. exec' \in [Executors -> ExecType] /\ Others(e) /\ exec'[e].pc = "idle"
        BY <2>1, Left DEF MigrationInv
    <2>. QED
        BY <1>1, <2>1, <2>2, RestStep DEF MigrationInv, TypesOK
<1>3. CASE ~(cat.boot \/ applied > 0)
    <2>1. /\ cat' = [cat EXCEPT !.boot = TRUE] /\ applied' = 1 /\ applied = 0
          /\ exec' = [exec EXCEPT ![e].unit = 2, ![e].seen = Fingerprint(cat')]
        BY <1>1, <1>3, UnitFacts DEF Bootstrap
    <2>a. cat' \in Catalogs /\ cat'.done = cat.done
        BY <1>1, <2>1 DEF Catalogs
    <2>2. cat' \in Catalogs /\ cat'.done = cat.done /\ Fingerprint(cat') \in Catalogs
        BY <2>a, Shown
    <2>3. /\ exec' \in [Executors -> ExecType] /\ Others(e)
          /\ exec'[e].pc = "unit" /\ exec'[e].unit = 2
          /\ exec'[e].seen = Fingerprint(cat')
        <3> DEFINE r1 == [exec[e] EXCEPT !.unit = 2]
                   r2 == [r1 EXCEPT !.seen = Fingerprint(cat')]
        <3>1. exec' = [exec EXCEPT ![e] = r2]
            BY <2>1 DEF MigrationInv, TypesOK
        <3>2. r2 \in ExecType /\ r2.pc = "unit" /\ r2.unit = 2
             /\ r2.seen = Fingerprint(cat')
            BY <1>1, <2>2 DEF ExecType
        <3> HIDE DEF r2
        <3>. QED
            BY <3>1, <3>2 DEF MigrationInv, TypesOK, Others
    <2>4. pending = Absent
        BY <2>1 DEF MigrationInv, RowOK
    <2>5. TypesOK' /\ RowOK' /\ ExecOK(e)'
        BY <1>1, <2>1, <2>2, <2>3, <2>4, UnitFacts
           DEF MigrationInv, TypesOK, RowOK, ExecOK, Stepping
    <2>6. Claimed' = Claimed /\ Gap' = Gap
        BY <1>1, <2>1, <2>4, StmtFacts DEF Claimed, Gap
    <2>7. RowsAreTrue'
        BY <1>1, <2>6 DEF MigrationInv, RowsAreTrue
    <2>8. cert = Absent
        BY <2>1, UnitFacts DEF MigrationInv, CertifiedIsComplete
    <2>9. ~raced /\ QuietOK =>
              /\ replayed' \subseteq Spare
              /\ cat'.done \subseteq Claimed' \cup Spare \cup Gap'
              /\ pending' # Absent => pending'.fp.done \subseteq Claimed' \cup Spare
              /\ SoleOK(e)'
        BY <1>1, <2>1, <2>2, <2>3, <2>6 DEF QuietOK, SoleOK, Stepping
    <2>. QED
        BY <1>1, <2>1, <2>3, <2>5, <2>7, <2>8, <2>9, WorkStep
<1>. QED
    BY <1>2, <1>3

\* Opening a unit with a row for it: the row counts what was sent.
LEMMA OpenUnitStep ==
    ASSUME MigrationInv, NEW e \in Executors, OpenUnit(e)
    PROVE  MigrationInv'
<1> DEFINE u == exec[e].unit
<1>1. /\ exec[e] \in ExecType /\ applied \in 0..Units /\ ExecOK(e) /\ exec[e].pc = "unit"
      /\ UNCHANGED <<cat, applied, cert, sent, replayed, raced>> /\ RowOK /\ TypesOK
    BY DEF OpenUnit, traffic, MigrationInv, TypesOK
<1>2. u \in 2..Units /\ u <= applied + 1 /\ exec[e].seen \in Catalogs /\ u \in Nat
      /\ Units \in Nat
    BY <1>1, UnitFacts DEF OpenUnit, ExecOK, ExecType, Stepping
<1>3. cert' \in Catalogs \cup {Absent} /\ CertifiedIsComplete' /\ raced' \in BOOLEAN
    BY <1>1 DEF MigrationInv, TypesOK, CertifiedIsComplete
<1>4. CASE Leave(e) /\ UNCHANGED pending
    BY <1>1, <1>3, <1>4, Left, RestStep
<1>5. CASE Explained(exec[e].seen) /\ pending # Absent /\ Goto(e, "statement", u, ResumeAt)
           /\ UNCHANGED pending
    <2>1. pending \in Rows /\ ResumeAt \in Nat /\ pending.done \in Nat
          /\ ResumeAt = pending.done + 1
        BY <1>1, <1>5 DEF TypesOK, Rows, ResumeAt
    <2>2. /\ exec' \in [Executors -> ExecType] /\ Others(e)
          /\ exec'[e].pc = "statement" /\ exec'[e].unit = u /\ exec'[e].at = pending.done + 1
          /\ exec'[e].seen = exec[e].seen
        BY <1>1, <1>2, <1>5, <2>1, Went
    <2>3. pending.unit = applied + 1 /\ pending.unit \in 2..Units /\ pending.fp = exec[e].seen
        BY <1>1, <1>5 DEF RowOK, Explained
    <2>4. \A i \in 1..Counts[u] : i < pending.done + 1 => <<u, i>> \in sent
        <3> SUFFICES ASSUME NEW i \in 1..Counts[u], i < pending.done + 1 PROVE <<u, i>> \in sent
            OBVIOUS
        <3>1. <<u, i>> \in Stmts /\ i <= pending.done
            BY <1>2, <2>1, StmtFacts, UnitFacts
        <3>2. u <= applied \/ u = pending.unit
            BY <1>1, <1>2, <2>3
        <3>3. <<u, i>> \in Claimed
            BY <1>5, <3>1, <3>2 DEF Claimed
        <3>. QED
            BY <3>3 DEF MigrationInv, RowsAreTrue
    <2>5. ExecOK(e)'
        BY <1>1, <1>2, <2>1, <2>2, <2>4 DEF ExecOK, Stepping
    <2>6. ASSUME ~raced' PROVE SoleOK(e)' /\ \A f \in Executors \ {e} : exec[f].pc = "idle"
        <3>1. QuietOK /\ u = applied + 1 /\ exec[e].seen = Fingerprint(cat)
            BY <1>1, <1>2, <2>6 DEF MigrationInv, QuietOK, SoleOK, Stepping
        <3>2. cat.done \subseteq Claimed \cup Spare
            BY <1>1, <1>5, <2>3, <3>1, Shown DEF QuietOK, TypesOK
        <3>3. Claimed' = Claimed
            BY <1>1, <1>5 DEF Claimed
        <3>. QED
            BY <1>1, <1>5, <2>1, <2>2, <2>3, <3>1, <3>2, <3>3
               DEF SoleOK, QuietOK, CountedTo, Stepping
    <2>. QED
        BY <1>1, <1>3, <1>5, <2>2, <2>5, <2>6, ControlStep
<1>6. CASE pending = Absent /\ applied + 1 = u /\ u = Units /\ Goto(e, "prelude", u, 1)
           /\ UNCHANGED pending
    <2>1. /\ exec' \in [Executors -> ExecType] /\ Others(e)
          /\ exec'[e].pc = "prelude" /\ exec'[e].unit = u /\ exec'[e].at = 1
          /\ exec'[e].seen = exec[e].seen
        BY <1>1, <1>2, <1>6, Went
    <2>2. ExecOK(e)'
        BY <1>1, <1>2, <1>6, <2>1 DEF ExecOK, Stepping
    <2>3. ASSUME ~raced' PROVE SoleOK(e)' /\ \A f \in Executors \ {e} : exec[f].pc = "idle"
        <3>1. QuietOK /\ u = applied + 1 /\ exec[e].seen = Fingerprint(cat)
            BY <1>1, <1>2, <2>3 DEF MigrationInv, QuietOK, SoleOK, Stepping
        <3>. QED
            BY <1>1, <1>6, <2>1, <3>1 DEF SoleOK, QuietOK, Stepping
    <2>. QED
        BY <1>1, <1>3, <1>6, <2>1, <2>2, <2>3, ControlStep
<1>7. CASE /\ pending = Absent /\ applied < u
              /\ pending' = [unit |-> u, done |-> 0, fp |-> exec[e].seen]
           /\ Goto(e, "statement", u, 1)
    <2>1. /\ exec' \in [Executors -> ExecType] /\ Others(e)
          /\ exec'[e].pc = "statement" /\ exec'[e].unit = u /\ exec'[e].at = 1
          /\ exec'[e].seen = exec[e].seen
        BY <1>1, <1>2, <1>7, Went
    <2>2. /\ pending' \in Rows /\ pending' # Absent
          /\ pending'.unit = u /\ pending'.done = 0 /\ pending'.fp = exec[e].seen
        BY <1>2, <1>7, MigrationAssumption DEF Rows
    <2>3. u = applied + 1
        BY <1>1, <1>2, <1>7
    <2>4. TypesOK' /\ RowOK' /\ ExecOK(e)'
        BY <1>1, <1>2, <2>1, <2>2, <2>3, UnitFacts DEF TypesOK, RowOK, ExecOK, Stepping
    <2>5. Claimed' = Claimed
        BY <1>1, <1>7, <2>2, StmtFacts DEF Claimed
    <2>6. RowsAreTrue'
        BY <1>1, <2>5 DEF MigrationInv, RowsAreTrue
    <2>7. ASSUME ~raced, QuietOK
          PROVE  /\ replayed' \subseteq Spare
                 /\ cat'.done \subseteq Claimed' \cup Spare \cup Gap'
                 /\ pending' # Absent => pending'.fp.done \subseteq Claimed' \cup Spare
                 /\ SoleOK(e)'
        <3>1. exec[e].seen = Fingerprint(cat) /\ cat.done \subseteq Claimed \cup Spare
              /\ exec[e].seen.done \subseteq cat.done
            BY <1>1, <1>2, <1>7, <2>7, Shown DEF QuietOK, SoleOK, Gap, TypesOK
        <3>2. exec'[e].at - 1 = 0 /\ pending' # Absent /\ pending'.unit = exec'[e].unit
            BY <2>1, <2>2
        <3>3. SoleOK(e)'
            BY <1>1, <2>1, <2>2, <2>3, <2>5, <3>1, <3>2 DEF SoleOK, CountedTo, Stepping
        <3>. QED
            BY <1>1, <2>2, <2>5, <2>7, <3>1, <3>3 DEF QuietOK
    <2>. QED
        BY <1>1, <2>1, <2>4, <2>6, <2>7, WorkStep, UnitFacts
<1>. QED
    BY <1>1, <1>2, <1>4, <1>5, <1>6, <1>7 DEF OpenUnit

\* A statement is sent: every earlier one was.
LEMMA SentInOrder ==
    ASSUME MigrationInv, NEW u \in 2..Units, NEW a \in 1..Counts[u],
           u <= applied + 1,
           \A i \in 1..Counts[u] : i < a => <<u, i>> \in sent,
           sent' = sent \cup {<<u, a>>}, UNCHANGED <<applied, pending>>
    PROVE  RowsAreTrue'
<1>1. Claimed' = Claimed /\ Claimed \subseteq sent
    BY DEF Claimed, MigrationInv, RowsAreTrue
<1>2. ASSUME NEW s \in Stmts, Before(s, <<u, a>>) PROVE s \in sent
    <2>1. s = <<s[1], s[2]>> /\ s[1] \in 2..Units /\ s[2] \in 1..Counts[s[1]]
        BY StmtFacts
    <2>2. CASE s[1] < u
        <3>1. s[1] <= applied
            BY <2>1, <2>2, UnitFacts DEF MigrationInv, TypesOK
        <3>. QED
            BY <1>1, <3>1 DEF Claimed
    <2>3. CASE s[1] = u /\ s[2] < a
        BY <2>1, <2>3
    <2>. QED
        BY <1>2, <2>2, <2>3 DEF Before
<1>. QED
    BY <1>1, <1>2 DEF MigrationInv, RowsAreTrue

\* The catalog after a statement.
LEMMA Performed ==
    ASSUME TypesOK, NEW s \in Stmts, Perform(s)
    PROVE  cat' \in Catalogs /\ cat'.done = cat.done \cup {s}
BY DEF TypesOK, Catalogs, Perform

LEMMA PreludeStep ==
    ASSUME MigrationInv, NEW e \in Executors, PreludeStatement(e)
    PROVE  MigrationInv'
<1> DEFINE u == exec[e].unit
           a == exec[e].at
           s == <<u, a>>
<1>1. /\ exec[e] \in ExecType /\ applied \in 0..Units /\ ExecOK(e) /\ exec[e].pc = "prelude"
      /\ UNCHANGED <<applied, cert>> /\ RowOK /\ TypesOK
    BY DEF PreludeStatement, MigrationInv, TypesOK
<1>2. /\ u = Units /\ u \in 2..Units /\ u <= applied + 1 /\ exec[e].seen \in Catalogs
      /\ u \in Nat /\ Units \in Nat /\ a \in Nat /\ a >= 1
      /\ \A i \in 1..Counts[u] : i < a => <<u, i>> \in sent
    BY <1>1, UnitFacts DEF ExecOK, ExecType, Stepping
<1>3. CASE a > PreludeCount
    <2>1. UNCHANGED <<cat, sent, replayed, raced>>
        BY <1>3 DEF PreludeStatement, traffic
    <2>2. CASE pending # Absent \/ applied >= Units
        <3>1. Leave(e) /\ UNCHANGED pending
            BY <1>3, <2>2 DEF PreludeStatement
        <3>. QED
            BY <1>1, <2>1, <3>1, Left, RestStep DEF MigrationInv, TypesOK
    <2>3. CASE pending = Absent /\ ~(applied >= Units)
        <3>1. /\ pending' = [unit |-> Units, done |-> PreludeCount, fp |-> exec[e].seen]
              /\ Goto(e, "statement", Units, PreludeCount + 1)
            BY <1>3, <2>3 DEF PreludeStatement
        <3>2. /\ exec' \in [Executors -> ExecType] /\ Others(e)
              /\ exec'[e].pc = "statement" /\ exec'[e].unit = Units
                 /\ exec'[e].at = PreludeCount + 1
              /\ exec'[e].seen = exec[e].seen
            BY <1>1, <1>2, <3>1, Went, UnitFacts
        <3>3. /\ pending' \in Rows /\ pending' # Absent
              /\ pending'.unit = Units /\ pending'.done = PreludeCount
                 /\ pending'.fp = exec[e].seen
            BY <1>2, <3>1, UnitFacts, MigrationAssumption DEF Rows
        <3>4. Units = applied + 1
            BY <1>1, <1>2, <2>3
        <3>5. \A i \in 1..Counts[Units] : i < PreludeCount + 1 => <<Units, i>> \in sent
            BY <1>2, <1>3, UnitFacts
        <3>6. TypesOK' /\ RowOK' /\ ExecOK(e)'
            BY <1>1, <1>2, <2>1, <3>2, <3>3, <3>4, <3>5, UnitFacts
               DEF TypesOK, RowOK, ExecOK, Stepping
        <3>7. Claimed \subseteq Claimed'
            BY <1>1, <2>3 DEF Claimed
        <3>8. RowsAreTrue'
            <4>1. ASSUME NEW t \in Claimed' PROVE t \in sent
                <5>1. t \in Stmts /\ (t \in Claimed \/ (t[1] = Units
                      /\ t[2] <= PreludeCount))
                    BY <1>1, <2>3, <3>3 DEF Claimed
                <5>2. t = <<t[1], t[2]>> /\ t[2] \in 1..Counts[t[1]]
                    BY <5>1, StmtFacts
                <5>. QED
                    BY <3>5, <5>1, <5>2, UnitFacts DEF MigrationInv, RowsAreTrue
            <4>. QED
                BY <2>1, <4>1 DEF MigrationInv, RowsAreTrue
        <3>9. ASSUME ~raced, QuietOK
              PROVE  /\ replayed' \subseteq Spare
                     /\ cat'.done \subseteq Claimed' \cup Spare \cup Gap'
                     /\ pending' # Absent => pending'.fp.done \subseteq Claimed' \cup Spare
                     /\ SoleOK(e)'
            <4>1. exec[e].seen = Fingerprint(cat) /\ cat.done \subseteq Claimed' \cup Spare
                  /\ exec[e].seen.done \subseteq cat.done
                BY <1>1, <1>2, <2>3, <3>7, <3>9, Shown DEF QuietOK, SoleOK, Gap, TypesOK
            <4>2. exec'[e].at - 1 = PreludeCount /\ exec'[e].at >= 1
                BY <3>2, UnitFacts
            <4>3. SoleOK(e)'
                BY <1>1, <2>1, <3>2, <3>3, <3>4, <4>1, <4>2 DEF SoleOK, CountedTo, Stepping
            <4>. QED
                BY <2>1, <3>3, <3>9, <4>1, <4>3 DEF QuietOK
        <3>. QED
            BY <1>1, <2>1, <3>2, <3>6, <3>8, <3>9, WorkStep, UnitFacts
    <2>. QED
        BY <2>2, <2>3
<1>4. CASE ~(a > PreludeCount)
    <2>1. /\ Send(s) /\ Perform(s) /\ UNCHANGED pending
          /\ exec' = [exec EXCEPT ![e].at = @ + 1, ![e].seen = Fingerprint(cat')]
        BY <1>4 DEF PreludeStatement
    <2>2. a \in 1..PreludeCount /\ a \in 1..Counts[u] /\ s \in Stmts /\ s \in Spare
        BY <1>2, <1>4, UnitFacts, StmtFacts DEF Prelude, Spare
    <2>3. cat' \in Catalogs /\ cat'.done = cat.done \cup {s} /\ Fingerprint(cat') \in Catalogs
        BY <1>1, <2>1, <2>2, Performed, Shown
    <2>4. /\ exec' \in [Executors -> ExecType] /\ Others(e)
          /\ exec'[e].pc = "prelude" /\ exec'[e].unit = u /\ exec'[e].at = a + 1
          /\ exec'[e].seen = Fingerprint(cat')
        <3> DEFINE r1 == [exec[e] EXCEPT !.at = a + 1]
                   r2 == [r1 EXCEPT !.seen = Fingerprint(cat')]
        <3>1. exec' = [exec EXCEPT ![e] = r2]
            BY <1>1, <2>1 DEF TypesOK
        <3>2. exec[e] \in ExecType /\ exec[e].pc = "prelude" /\ a + 1 \in Nat
              /\ Fingerprint(cat') \in Catalogs
            BY <1>1, <1>2, <2>3
        <3>3. r1 \in ExecType /\ r1.pc = "prelude" /\ r1.unit = u /\ r1.at = a + 1
            BY <3>2 DEF ExecType
        <3> HIDE DEF r1
        <3>4. r2 \in ExecType /\ r2.pc = "prelude" /\ r2.unit = u /\ r2.at = a + 1
              /\ r2.seen = Fingerprint(cat')
            BY <3>2, <3>3 DEF ExecType
        <3> HIDE DEF r2
        <3>. QED
            BY <1>1, <3>1, <3>4 DEF TypesOK, Others
    <2>5. /\ sent' = sent \cup {s} /\ UNCHANGED raced
          /\ replayed' \subseteq replayed \cup {s} /\ replayed' \subseteq sent'
        BY <1>1, <2>1 DEF Send, TypesOK
    <2>6. RowsAreTrue'
        BY <1>1, <1>2, <2>1, <2>2, <2>5, SentInOrder
    <2>7. \A i \in 1..Counts[u] : i < a + 1 => <<u, i>> \in sent'
        BY <1>2, <2>2, <2>5
    <2>8. TypesOK' /\ RowOK' /\ ExecOK(e)'
        BY <1>1, <1>2, <2>1, <2>2, <2>3, <2>4, <2>5, <2>7 DEF TypesOK, RowOK, ExecOK, Stepping
    <2>9. ASSUME ~raced, QuietOK
          PROVE  /\ replayed' \subseteq Spare
                 /\ cat'.done \subseteq Claimed' \cup Spare \cup Gap'
                 /\ pending' # Absent => pending'.fp.done \subseteq Claimed' \cup Spare
                 /\ SoleOK(e)'
        <3>1. Claimed' = Claimed /\ Gap' = Gap
            BY <1>1, <2>1 DEF Claimed, Gap
        <3>2. SoleOK(e)'
            BY <1>1, <2>1, <2>4, <2>9 DEF QuietOK, SoleOK, Stepping
        <3>. QED
            BY <2>1, <2>2, <2>3, <2>5, <2>9, <3>1, <3>2 DEF QuietOK
    <2>. QED
        BY <1>1, <2>4, <2>5, <2>6, <2>8, <2>9, WorkStep, UnitFacts
<1>. QED
    BY <1>3, <1>4

LEMMA StatementStep ==
    ASSUME MigrationInv, NEW e \in Executors, Statement(e)
    PROVE  MigrationInv'
<1> DEFINE u == exec[e].unit
           a == exec[e].at
           s == <<u, a>>
<1>1. /\ exec[e] \in ExecType /\ applied \in 0..Units /\ ExecOK(e) /\ exec[e].pc = "statement"
      /\ UNCHANGED <<applied, pending, cert>> /\ RowOK /\ TypesOK /\ s \in Stmts /\ Send(s)
    BY DEF Statement, MigrationInv, TypesOK
<1>2. /\ u \in 2..Units /\ u <= applied + 1 /\ exec[e].seen \in Catalogs
      /\ u \in Nat /\ Units \in Nat /\ a \in Nat /\ a \in 1..Counts[u]
      /\ \A i \in 1..Counts[u] : i < a => <<u, i>> \in sent
    BY <1>1, UnitFacts, StmtFacts DEF ExecOK, ExecType, Stepping
<1>3. /\ sent' = sent \cup {s} /\ UNCHANGED raced /\ replayed' \subseteq sent'
      /\ replayed' = IF s \in cat.done THEN replayed \cup {s} ELSE replayed
    BY <1>1 DEF Send, TypesOK
<1>4. RowsAreTrue'
    BY <1>1, <1>2, <1>3, SentInOrder
<1>5. ASSUME ~raced, QuietOK
      PROVE  /\ replayed' \subseteq Spare /\ SoleOK(e)
             /\ s \in Gap /\ pending # Absent
             /\ Claimed' = Claimed /\ Gap' = Gap
    <2>1. SoleOK(e) /\ a >= 1 /\ CountedTo(u, a - 1) /\ u = applied + 1
        BY <1>1, <1>5 DEF QuietOK, SoleOK, Stepping
    <2>2. pending # Absent /\ pending.unit = u /\ pending.done + 1 = a
        BY <1>2, <2>1 DEF CountedTo
    <2>3. s \notin Claimed
        BY <1>1, <1>2, <2>1, <2>2 DEF Claimed, TypesOK, Rows
    <2>4. s \in cat.done => s \in Spare
        BY <1>1, <2>1, <2>3 DEF SoleOK
    <2>5. Claimed' = Claimed /\ Gap' = Gap
        BY <1>1 DEF Claimed, Gap
    <2>. QED
        BY <1>3, <1>5, <2>1, <2>2, <2>4, <2>5 DEF QuietOK, Gap
<1>6. CASE Accepted(s)
    <2>1. Perform(s) /\ Goto(e, "checkpoint", u, a)
        BY <1>6 DEF Statement
    <2>2. cat' \in Catalogs /\ cat'.done = cat.done \cup {s}
        BY <1>1, <2>1, Performed
    <2>3. /\ exec' \in [Executors -> ExecType] /\ Others(e)
          /\ exec'[e].pc = "checkpoint" /\ exec'[e].unit = u /\ exec'[e].at = a
          /\ exec'[e].seen = exec[e].seen
        BY <1>1, <1>2, <2>1, Went
    <2>4. TypesOK' /\ RowOK' /\ ExecOK(e)'
        BY <1>1, <1>2, <1>3, <2>2, <2>3 DEF TypesOK, RowOK, ExecOK, Stepping
    <2>5. ASSUME ~raced, QuietOK
          PROVE  /\ replayed' \subseteq Spare
                 /\ cat'.done \subseteq Claimed' \cup Spare \cup Gap'
                 /\ pending' # Absent => pending'.fp.done \subseteq Claimed' \cup Spare
                 /\ SoleOK(e)'
        <3>1. SoleOK(e)'
            BY <1>1, <1>5, <2>3, <2>5 DEF SoleOK, CountedTo, Stepping
        <3>. QED
            BY <1>1, <1>5, <2>2, <2>5, <3>1 DEF QuietOK
    <2>. QED
        BY <1>1, <1>3, <1>4, <2>3, <2>4, <2>5, WorkStep, UnitFacts
<1>7. CASE ~Accepted(s)
    <2>1. Leave(e) /\ UNCHANGED cat
        BY <1>7 DEF Statement
    <2>2. exec' \in [Executors -> ExecType] /\ Others(e) /\ exec'[e].pc = "idle"
        BY <1>1, <2>1, Left
    <2>3. TypesOK' /\ RowOK' /\ ExecOK(e)'
        BY <1>1, <1>3, <2>1, <2>2 DEF TypesOK, RowOK, ExecOK, Stepping
    <2>4. ASSUME ~raced, QuietOK
          PROVE  /\ replayed' \subseteq Spare
                 /\ cat'.done \subseteq Claimed' \cup Spare \cup Gap'
                 /\ pending' # Absent => pending'.fp.done \subseteq Claimed' \cup Spare
                 /\ SoleOK(e)'
        BY <1>1, <1>5, <2>1, <2>2, <2>4 DEF QuietOK, SoleOK, Stepping
    <2>. QED
        BY <1>1, <1>3, <1>4, <2>2, <2>3, <2>4, WorkStep, UnitFacts
<1>. QED
    BY <1>6, <1>7

LEMMA CheckpointStep ==
    ASSUME MigrationInv, NEW e \in Executors, Checkpoint(e)
    PROVE  MigrationInv'
<1> DEFINE u == exec[e].unit
           a == exec[e].at
<1>1. /\ exec[e] \in ExecType /\ applied \in 0..Units /\ ExecOK(e)
         /\ exec[e].pc = "checkpoint"
      /\ UNCHANGED <<cat, applied, cert, sent, replayed, raced>> /\ RowOK /\ TypesOK
    BY DEF Checkpoint, traffic, MigrationInv, TypesOK
<1>2. /\ u \in 2..Units /\ u <= applied + 1 /\ u \in Nat /\ a \in Nat /\ <<u, a>> \in sent
         /\ a >= 1
      /\ \A i \in 1..Counts[u] : i < a => <<u, i>> \in sent
      /\ cat \in Catalogs /\ Fingerprint(cat) \in Catalogs
    BY <1>1, UnitFacts, Shown DEF ExecOK, ExecType, Stepping, TypesOK
<1>3. a \in 1..Counts[u]
    BY <1>1, <1>2, StmtFacts DEF TypesOK
<1>4. CASE ~CountedTo(u, a - 1)
    <2>1. Leave(e) /\ UNCHANGED pending
        BY <1>4 DEF Checkpoint
    <2>. QED
        BY <1>1, <2>1, Left, RestStep DEF TypesOK
<1>5. CASE CountedTo(u, a - 1)
    <2>1. /\ pending' = [unit |-> u, done |-> a, fp |-> Fingerprint(cat)]
          /\ exec' = [exec EXCEPT ![e].pc = "statement", ![e].at = @ + 1,
                                    ![e].seen = Fingerprint(cat)]
        BY <1>5 DEF Checkpoint, Counted
    <2>2. /\ pending' \in Rows /\ pending' # Absent
          /\ pending'.unit = u /\ pending'.done = a /\ pending'.fp = Fingerprint(cat)
        BY <1>2, <2>1, MigrationAssumption DEF Rows
    <2>3. /\ exec' \in [Executors -> ExecType] /\ Others(e)
          /\ exec'[e].pc = "statement" /\ exec'[e].unit = u /\ exec'[e].at = a + 1
          /\ exec'[e].seen = Fingerprint(cat)
        <3> DEFINE r1 == [exec[e] EXCEPT !.pc = "statement"]
                   r2 == [r1 EXCEPT !.at = a + 1]
                   r3 == [r2 EXCEPT !.seen = Fingerprint(cat)]
        <3>1. exec' = [exec EXCEPT ![e] = r3]
            BY <1>1, <2>1 DEF TypesOK
        <3>2. exec[e] \in ExecType /\ a + 1 \in Nat /\ Fingerprint(cat) \in Catalogs
            BY <1>1, <1>2
        <3>3. r2 \in ExecType /\ r2.pc = "statement" /\ r2.unit = u /\ r2.at = a + 1
            BY <3>2 DEF ExecType
        <3> HIDE DEF r2
        <3>4. /\ r3 \in ExecType /\ r3.pc = "statement" /\ r3.unit = u /\ r3.at = a + 1
              /\ r3.seen = Fingerprint(cat)
            BY <3>2, <3>3 DEF ExecType
        <3> HIDE DEF r3
        <3>. QED
            BY <1>1, <3>1, <3>4 DEF TypesOK, Others
    <2>4. pending # Absent /\ pending.unit = u /\ pending.done = a - 1 /\ u = applied + 1
        BY <1>1, <1>5 DEF CountedTo, RowOK
    <2>5. \A i \in 1..Counts[u] : i < a + 1 => <<u, i>> \in sent
        BY <1>2, <1>3
    <2>6. TypesOK' /\ RowOK' /\ ExecOK(e)'
        BY <1>1, <1>2, <1>3, <2>2, <2>3, <2>4, <2>5 DEF TypesOK, RowOK, ExecOK, Stepping
    <2>7. Claimed' = Claimed \cup {<<u, a>>}
        <3>1. \A t \in Stmts : t[2] <= a <=> t[2] <= a - 1 \/ t[2] = a
            BY <1>2, StmtFacts, UnitFacts
        <3>2. \A t \in Stmts : t[1] = u /\ t[2] = a <=> t = <<u, a>>
            BY StmtFacts
        <3>3. <<u, a>> \in Stmts
            BY <1>1, <1>2 DEF TypesOK
        <3>. QED
            BY <1>1, <2>2, <2>4, <3>1, <3>2, <3>3 DEF Claimed
    <2>8. RowsAreTrue'
        BY <1>1, <1>2, <2>7 DEF MigrationInv, RowsAreTrue
    <2>9. ASSUME ~raced, QuietOK
          PROVE  /\ replayed' \subseteq Spare
                 /\ cat'.done \subseteq Claimed' \cup Spare \cup Gap'
                 /\ pending' # Absent => pending'.fp.done \subseteq Claimed' \cup Spare
                 /\ SoleOK(e)'
        <3>1. Gap = {<<u, a>>}
            BY <1>2, <2>4 DEF Gap
        <3>2. cat.done \subseteq Claimed' \cup Spare
              /\ Fingerprint(cat).done \subseteq cat.done
            BY <1>2, <2>7, <2>9, <3>1, Shown DEF QuietOK
        <3>3. exec'[e].at - 1 = a /\ exec'[e].at >= 1
            BY <1>2, <2>3
        <3>4. SoleOK(e)'
            BY <1>1, <2>2, <2>3, <2>4, <3>2, <3>3 DEF SoleOK, CountedTo, Stepping
        <3>. QED
            BY <1>1, <2>2, <2>9, <3>2, <3>4 DEF QuietOK
    <2>. QED
        BY <1>1, <2>3, <2>6, <2>8, <2>9, WorkStep, UnitFacts
<1>. QED
    BY <1>4, <1>5

LEMMA FinishUnitStep ==
    ASSUME MigrationInv, NEW e \in Executors, FinishUnit(e)
    PROVE  MigrationInv'
<1> DEFINE u == exec[e].unit
<1>1. /\ exec[e] \in ExecType /\ applied \in 0..Units /\ ExecOK(e) /\ exec[e].pc = "statement"
      /\ UNCHANGED <<cat, cert, sent, replayed, raced>> /\ RowOK /\ TypesOK
    BY DEF FinishUnit, traffic, MigrationInv, TypesOK
<1>2. /\ u \in 2..Units /\ u <= applied + 1 /\ u \in Nat /\ Units \in Nat
      /\ exec[e].seen \in Catalogs
    BY <1>1, UnitFacts DEF ExecOK, ExecType, Stepping
<1>3. CASE ~CountedTo(u, Counts[u])
    <2>1. Leave(e) /\ UNCHANGED <<pending, applied>>
        BY <1>3 DEF FinishUnit
    <2>. QED
        BY <1>1, <2>1, Left, RestStep DEF TypesOK
<1>4. CASE CountedTo(u, Counts[u])
    <2> DEFINE pc == IF u = Units THEN "certify" ELSE "unit"
    <2>1. pending' = Absent /\ applied' = applied + 1 /\ Goto(e, pc, u + 1, 0)
        BY <1>4 DEF FinishUnit
    <2>2. /\ exec' \in [Executors -> ExecType] /\ Others(e)
          /\ exec'[e].pc = pc /\ exec'[e].unit = u + 1 /\ exec'[e].seen = exec[e].seen
        BY <1>1, <1>2, <2>1, Went
    <2>3. pending # Absent /\ pending.unit = u /\ pending.done = Counts[u] /\ u = applied + 1
        BY <1>1, <1>4 DEF CountedTo, RowOK
    <2>4. TypesOK' /\ RowOK' /\ ExecOK(e)'
        BY <1>1, <1>2, <2>1, <2>2, <2>3 DEF TypesOK, RowOK, ExecOK, Stepping
    <2>5. Claimed' = Claimed
        <3>1. \A t \in Stmts : t[1] <= applied + 1 <=>
                  t[1] <= applied \/ (t[1] = u /\ t[2] <= Counts[u])
            BY <1>1, <1>2, <2>3, StmtFacts, UnitFacts
        <3>. QED
            BY <2>1, <2>3, <3>1 DEF Claimed
    <2>6. RowsAreTrue'
        BY <1>1, <2>5 DEF MigrationInv, RowsAreTrue
    <2>7. cert = Absent
        BY <1>1, <1>2, <2>3 DEF MigrationInv, CertifiedIsComplete
    <2>8. ASSUME ~raced, QuietOK
          PROVE  /\ replayed' \subseteq Spare
                 /\ cat'.done \subseteq Claimed' \cup Spare \cup Gap'
                 /\ pending' # Absent => pending'.fp.done \subseteq Claimed' \cup Spare
                 /\ SoleOK(e)'
        <3>1. cat.done \subseteq Claimed \cup Spare /\ exec[e].seen = Fingerprint(cat)
            BY <1>1, <1>2, <2>8 DEF QuietOK, SoleOK
        <3>2. SoleOK(e)'
            BY <1>1, <1>2, <2>1, <2>2, <2>3, <3>1 DEF SoleOK, Stepping
        <3>. QED
            BY <1>1, <2>1, <2>5, <2>8, <3>1, <3>2 DEF QuietOK
    <2>. QED
        BY <1>1, <2>1, <2>2, <2>4, <2>6, <2>7, <2>8, WorkStep, UnitFacts
<1>. QED
    BY <1>3, <1>4

\* Work is undone between executions; the rows are left as they are.
LEMMA DropStep ==
    ASSUME MigrationInv, NEW s \in Droppable, Drop(s)
    PROVE  MigrationInv'
<1>1. /\ UNCHANGED <<applied, pending, cert, exec, sent, replayed, raced>>
      /\ cat' = [cat EXCEPT !.done = @ \ {s}] /\ \A e \in Executors : exec[e].pc = "idle"
    BY DEF Drop, traffic
<1>2. cat' \in Catalogs /\ cat'.done \subseteq cat.done
    BY <1>1 DEF MigrationInv, TypesOK, Catalogs
<1>3. TypesOK' /\ RowOK' /\ RowsAreTrue' /\ CertifiedIsComplete'
      /\ \A e \in Executors : ExecOK(e)'
    BY <1>1, <1>2
       DEF MigrationInv, TypesOK, RowOK, RowsAreTrue, Claimed, CertifiedIsComplete, ExecOK
<1>4. ASSUME ~raced' PROVE QuietOK'
    <2>1. QuietOK /\ Claimed' = Claimed /\ Gap' = Gap
        BY <1>1, <1>4 DEF MigrationInv, Claimed, Gap
    <2>2. \A e \in Executors : SoleOK(e)'
        BY <1>1 DEF SoleOK, Stepping
    <2>. QED
        BY <1>1, <1>2, <2>1, <2>2 DEF QuietOK
<1>. QED
    BY <1>3, <1>4 DEF MigrationInv

-----------------------------------------------------------------------------
(* The theorems of the migration *)

LEMMA MigrationInit ==
    ASSUME SchemaInit
    PROVE  MigrationInv
<1>1. exec \in [Executors -> ExecType] /\ \A e \in Executors : exec[e].pc = "idle"
    BY DEF SchemaInit, Resting, ExecType
<1>2. TypesOK /\ RowOK
    <2>1. EmptyCatalog \in Catalogs
        BY DEF Catalogs, EmptyCatalog
    <2>2. cat \in Catalogs
        BY <2>1 DEF SchemaInit
    <2>3. applied = 0 /\ pending = Absent /\ cert = Absent /\ sent = {} /\ replayed = {}
        BY DEF SchemaInit
    <2>4. raced \in BOOLEAN
        BY DEF SchemaInit
    <2>. QED
        BY <1>1, <2>2, <2>3, <2>4, UnitFacts DEF TypesOK, RowOK
<1>3. \A e \in Executors : ExecOK(e) /\ SoleOK(e)
    BY <1>1 DEF ExecOK, SoleOK, Stepping
<1>4. Claimed = {} /\ cat.done = {}
    BY StmtFacts DEF SchemaInit, Claimed, EmptyCatalog
<1>5. RowsAreTrue /\ CertifiedIsComplete /\ QuietOK
    BY <1>1, <1>3, <1>4 DEF SchemaInit, RowsAreTrue, CertifiedIsComplete, QuietOK
<1>. QED
    BY <1>2, <1>3, <1>5 DEF MigrationInv

LEMMA MigrationStep ==
    ASSUME MigrationInv, [SchemaNext]_schemaVars
    PROVE  MigrationInv'
<1>1. ASSUME NEW e \in Executors,
             \/ Inspect(e) \/ Admit(e) \/ Expire(e) \/ Execute(e)
             \/ CreateRole(e) \/ Bootstrap(e) \/ OpenUnit(e) \/ PreludeStatement(e)
      PROVE  MigrationInv'
    BY <1>1, PlanStep, ExecuteStep, CreateRoleStep, BootstrapStep, OpenUnitStep, PreludeStep
<1>2. ASSUME NEW e \in Executors,
             \/ Statement(e) \/ Checkpoint(e) \/ FinishUnit(e) \/ Certify(e)
             \/ Fail(e) \/ Crash(e)
      PROVE  MigrationInv'
    BY <1>2, StatementStep, CheckpointStep, FinishUnitStep, CertifyStep, FailStep
<1>3. ASSUME NEW s \in Droppable, Drop(s) PROVE MigrationInv'
    BY <1>3, DropStep
<1>4. CASE UNCHANGED schemaVars
    BY <1>4
       DEF schemaVars, MigrationInv, TypesOK, RowOK, RowsAreTrue, CertifiedIsComplete, ExecOK, QuietOK,
                SoleOK, Claimed, Gap, CountedTo
<1>. QED
    BY <1>1, <1>2, <1>3, <1>4 DEF SchemaNext

\* The inductive invariant holds of every state the controllers reach together.
THEOREM MigrationIsInvariant == SchemaSpec => []MigrationInv
<1>1. SchemaInit => MigrationInv
    BY MigrationInit
<1>2. MigrationInv /\ [SchemaNext]_schemaVars => MigrationInv'
    BY MigrationStep
<1>. QED
    BY <1>1, <1>2, PTL DEF SchemaSpec

\* The tracking rows never claim a statement that was not executed, and none is
\* executed before an earlier one, whatever executors raced, failed or died
\* (migration_controller.py:579-695).
THEOREM MigrationRowsAreTrue == SchemaSpec => []RowsAreTrue
<1>1. MigrationInv => RowsAreTrue
    BY DEF MigrationInv
<1>. QED
    BY <1>1, MigrationIsInvariant, PTL

\* A schema is certified READY only after every statement was executed and with
\* everything validate_catalog looks for in place (migration_controller.py:697-717).
THEOREM MigrationCertifiesComplete == SchemaSpec => []CertifiedIsComplete
<1>1. MigrationInv => CertifiedIsComplete
    BY DEF MigrationInv
<1>. QED
    BY <1>1, MigrationIsInvariant, PTL

\* While executions do not overlap, an acknowledgement gap is replayed only at a
\* prelude statement or one that leaves no trace in catalog()
\* (migration_controller.py:230).
THEOREM MigrationGapNotReplayed == SchemaSpec => []GapNotReplayed
<1>1. MigrationInv => GapNotReplayed
    BY DEF MigrationInv, QuietOK, GapNotReplayed, Spare
<1>. QED
    BY <1>1, MigrationIsInvariant, PTL
=============================================================================
