------------------------------ MODULE LiveGate ------------------------------
(* The permit gate in front of the live provider transport                   *)
(* (providers/live_gate.py, and its use by providers/nvidia.py).             *)
(*                                                                           *)
(* A permit names one commit, one source tree and the accepted test evidence *)
(* for both. Any number of processes may hold the same permit. Each call     *)
(* reads that state three times, file by file, while the repository may be   *)
(* edited, committed or tested again under it, and takes its unit from a     *)
(* durable ledger before the transport.                                      *)
EXTENDS Integers, FiniteSets

CONSTANTS
    Callers,     \* processes that present the permit
    Owner,       \* the process that issues it
    N,           \* number of source files, hashed in order
    Contents, Heads, Runs,   \* file contents, commits, test runs
    MaxCalls,    \* max_live_calls, 1 for a LIVE permit
    None

VARIABLES
    head, tree,  \* the repository: HEAD and the files
    evidence,    \* accepted-test-evidence.json
    accepted,    \* history: every evidence that was accepted
    permit,
    expired,     \* the clock is outside the time of the permit
    used,        \* the ledger row of the permit
    pc, read,    \* where a process is, and what it has read so far
    quiet,       \* history: nothing changed since the caller entered the transport
    posts        \* history: calls sent under the permit

world == <<head, tree, evidence, accepted>>
vars == <<head, tree, evidence, accepted, permit, expired, used, pc, read, quiet, posts>>

Files == 1..N
Readers == Callers \cup {Owner}
Trees == [Files -> Contents]
Evidence == [head : Heads, tree : Trees, run : Runs]
Permits == [head : Heads, tree : Trees, evidence : Evidence]

\* What a reader knows after `at` of its N + 2 readings.
Readings == [at : 0..(N + 2), head : Heads, tree : Trees, evidence : Evidence]

Init ==
    /\ head \in Heads /\ tree \in Trees
    /\ evidence \in Evidence
    /\ accepted = {evidence}
    /\ permit = None /\ expired = FALSE /\ used = 0
    /\ pc = [r \in Readers |-> "asked"]
    /\ read \in [Readers -> Readings] /\ \A r \in Readers : read[r].at = 0
    /\ quiet = [c \in Callers |-> FALSE]
    /\ posts = 0

-----------------------------------------------------------------------------
(* The repository, and the acceptance of a test run *)

Edit(f, x) ==
    /\ tree' = [tree EXCEPT ![f] = x]
    /\ quiet' = [c \in Callers |-> FALSE]
    /\ UNCHANGED <<head, evidence, accepted, permit, expired, used, pc, read, posts>>

Commit(h) ==
    /\ head' = h
    /\ quiet' = [c \in Callers |-> FALSE]
    /\ UNCHANGED <<tree, evidence, accepted, permit, expired, used, pc, read, posts>>

Accept(n) ==
    /\ evidence' = [head |-> head, tree |-> tree, run |-> n]
    /\ accepted' = accepted \cup {evidence'}
    /\ quiet' = [c \in Callers |-> FALSE]
    /\ UNCHANGED <<head, tree, permit, expired, used, pc, read, posts>>

-----------------------------------------------------------------------------
(* The source-state reader *)

Reading(r) == pc[r] \in {"issue", "require", "authorize", "transport"}

Reads(r, reading) ==
    /\ read' = [read EXCEPT ![r] = reading]
    /\ UNCHANGED <<world, permit, expired, used, pc, quiet, posts>>

ReadHead(r) ==
    /\ Reading(r) /\ read[r].at = 0
    /\ Reads(r, [read[r] EXCEPT !.at = 1, !.head = head])

HashFile(r) ==
    /\ Reading(r) /\ read[r].at \in Files
    /\ LET f == read[r].at IN
       Reads(r, [read[r] EXCEPT !.at = f + 1, !.tree = [@ EXCEPT ![f] = tree[f]]])

\* The evidence must be about the commit and the digest just read.
ReadEvidence(r) ==
    /\ Reading(r) /\ read[r].at = N + 1
    /\ evidence.head = read[r].head /\ evidence.tree = read[r].tree
    /\ Reads(r, [read[r] EXCEPT !.at = N + 2, !.evidence = evidence])

\* The last reading is HEAD again, and it has not moved.
Complete(r) == read[r].at = N + 2 /\ head = read[r].head

\* The state read is the state of the permit.
Matches(c) ==
    /\ read[c].head = permit.head /\ read[c].tree = permit.tree
    /\ read[c].evidence = permit.evidence

To(r, step) ==
    /\ pc' = [pc EXCEPT ![r] = step]
    /\ UNCHANGED <<world, expired>>

StartReading(r, step) ==
    /\ To(r, step)
    /\ read' = [read EXCEPT ![r] = [@ EXCEPT !.at = 0]]
    /\ UNCHANGED <<permit, used, posts>>

-----------------------------------------------------------------------------
(* Issuing the permit *)

IssueStart ==
    /\ pc[Owner] = "asked" /\ permit = None
    /\ StartReading(Owner, "issue")
    /\ UNCHANGED quiet

\* issue_live_permit: bound to what was just read.
Issue ==
    /\ pc[Owner] = "issue" /\ Complete(Owner)
    /\ permit' = [head |-> read[Owner].head, tree |-> read[Owner].tree,
                  evidence |-> read[Owner].evidence]
    /\ To(Owner, "done")
    /\ UNCHANGED <<used, read, quiet, posts>>

\* The clock passes the end of the permit's time, or is set back into it.
ClockMoves ==
    /\ permit # None
    /\ expired' = ~expired
    /\ UNCHANGED <<world, permit, used, pc, read, quiet, posts>>

-----------------------------------------------------------------------------
(* One call *)

\* require, before the secret is fetched.
Require(c) ==
    /\ pc[c] = "asked" /\ permit # None /\ ~expired
    /\ StartReading(c, "require")
    /\ UNCHANGED quiet

\* _validate: the state matches and the ledger has a call left.
Validated(c) == Complete(c) /\ Matches(c) /\ used < MaxCalls

Required(c) ==
    /\ pc[c] = "require" /\ Validated(c)
    /\ To(c, "key")
    /\ UNCHANGED <<permit, used, read, quiet, posts>>

Authorize(c) ==
    /\ pc[c] = "key" /\ ~expired
    /\ StartReading(c, "authorize")
    /\ UNCHANGED quiet

Validate(c) ==
    /\ pc[c] = "authorize" /\ Validated(c)
    /\ To(c, "consume")
    /\ UNCHANGED <<permit, used, read, quiet, posts>>

\* PermitUsageLedger.consume: checked again and counted in one transaction.
Consume(c) ==
    /\ pc[c] = "consume" /\ used < MaxCalls
    /\ used' = used + 1
    /\ To(c, "authorized")
    /\ UNCHANGED <<permit, read, quiet, posts>>

\* The transport consumes the authorization: expiry, then a fresh reading.
Transport(c) ==
    /\ pc[c] = "authorized" /\ ~expired
    /\ StartReading(c, "transport")
    /\ quiet' = [quiet EXCEPT ![c] = TRUE]

Consumed(c) ==
    /\ pc[c] = "transport" /\ Complete(c) /\ Matches(c)
    /\ To(c, "send")
    /\ UNCHANGED <<permit, used, read, quiet, posts>>

Post(c) ==
    /\ pc[c] = "send"
    /\ posts' = posts + 1
    /\ To(c, "done")
    /\ UNCHANGED <<permit, used, read, quiet>>

\* The call ends unsent: no or an expired permit, a reading that fails or does
\* not match, no key, no call left, no connection.
Block(r) ==
    /\ pc[r] # "done"
    /\ pc[r] = "asked" => permit = None \/ expired
    /\ pc[r] = "authorized" => expired
    /\ To(r, "done")
    /\ UNCHANGED <<permit, used, read, quiet, posts>>

\* The process dies, or the request is made again.
Again(r) ==
    /\ pc[r] # "asked"
    /\ To(r, "asked")
    /\ UNCHANGED <<permit, used, read, quiet, posts>>

CallStep(c) ==
    \/ Require(c) \/ Required(c) \/ Authorize(c) \/ Validate(c) \/ Consume(c)
    \/ Transport(c) \/ Consumed(c) \/ Post(c)

Next ==
    \/ \E f \in Files, x \in Contents : Edit(f, x)
    \/ \E h \in Heads : Commit(h)
    \/ \E n \in Runs : Accept(n)
    \/ \E r \in Readers : ReadHead(r) \/ HashFile(r) \/ ReadEvidence(r) \/ Block(r) \/ Again(r)
    \/ IssueStart \/ Issue \/ ClockMoves
    \/ \E c \in Callers : CallStep(c)

Spec == Init /\ [][Next]_vars

-----------------------------------------------------------------------------
Steps == {"asked", "issue", "require", "key", "authorize", "consume",
          "authorized", "transport", "send", "done"}

TypeOK ==
    /\ head \in Heads /\ tree \in Trees /\ evidence \in Evidence
    /\ accepted \subseteq Evidence
    /\ permit \in Permits \cup {None} /\ expired \in BOOLEAN
    /\ used \in 0..MaxCalls /\ posts \in Nat
    /\ pc \in [Readers -> Steps] /\ read \in [Readers -> Readings]
    /\ quiet \in [Callers -> BOOLEAN]

\* However many processes present the permit, race for its last call, die and
\* ask again, no more calls are sent than it allows (live_gate.py:565-599).
SentWithinPermit == posts <= MaxCalls

\* Unless somebody changed the repository after the call entered the transport,
\* the source a call is sent from is the one the permit names, and a test run of
\* exactly that source was accepted (live_gate.py:311-320, 673-685).
SentFromTestedSource ==
    \A c \in Callers : pc[c] = "send" /\ quiet[c] =>
        /\ permit # None
        /\ head = permit.head /\ tree = permit.tree /\ evidence = permit.evidence
        /\ permit.evidence \in accepted
        /\ permit.evidence.head = head /\ permit.evidence.tree = tree
=============================================================================
