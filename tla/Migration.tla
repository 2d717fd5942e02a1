----------------------------- MODULE Migration ------------------------------
(* The schema migration controller of the memory-patch database              *)
(* (adapters/cockroach/migration_controller.py, migration_contract.py).      *)
(*                                                                           *)
(* An operator inspects the catalog, has a plan admitted and executes it.    *)
(* Roles and the statements of every unit but the first run in autocommit    *)
(* mode; a row of schema_migrations per unit counts the acknowledged ones    *)
(* and fingerprints the catalog after each. An executor is one operator with *)
(* a controller of its own; it may fail or die between any two statements.   *)
(* catalog() does not show what every statement did (a REVOKE FROM PUBLIC    *)
(* leaves it as it was), and validate_catalog misses less than it shows.     *)
EXTENDS Naturals, Sequences, FiniteSets

CONSTANTS
    Executors,
    RoleCount,    \* manifest.role_suffixes
    Counts,       \* Counts[u]: statement_count of unit u; unit 1 is the bootstrap
    PreludeCount, \* manifest.tracking_prelude_statement_count, of the last unit
    Idempotent,   \* statements the database accepts a second time
    Visible,      \* statements after which catalog() reads differently
    Checked,      \* statements whose work validate_catalog would miss
    Droppable,    \* statements whose work somebody else may undo
    Absent,
    MaxFaults     \* bound: crashes, failures and drops

Units == Len(Counts)
Stmts == UNION {{<<u, i>> : i \in 1..Counts[u]} : u \in 2..Units}
Prelude == {<<Units, i>> : i \in 1..PreludeCount}

\* A catalog, and a row of schema_migrations in the state APPLYING.
Catalogs == [roles : SUBSET (1..RoleCount), boot : BOOLEAN, done : SUBSET Stmts]
Rows == [unit : Nat, done : Nat, fp : Catalogs]

ASSUME MigrationAssumption ==
    /\ RoleCount \in Nat /\ MaxFaults \in Nat
    /\ Counts \in Seq(Nat \ {0}) /\ Units >= 2
    /\ PreludeCount \in 0..(Counts[Units] - 1)
    /\ Prelude \subseteq Idempotent /\ Droppable \subseteq Stmts
    /\ Visible \subseteq Stmts /\ Checked \subseteq Visible
    /\ Absent \notin Rows

VARIABLES
    cat,      \* the catalog: roles, the bootstrap unit, executed statements
    applied,  \* how many units have an APPLIED row (they form a prefix)
    pending,  \* the APPLYING row, or Absent
    cert,     \* schema_certificate: the certified catalog, or Absent
    exec,     \* exec[e]: the locals of an executor
    sent,     \* statements sent to the database
    replayed, \* statements sent although the catalog already had them
    raced,    \* whether an execution ever started during another
    faults    \* faults so far

schemaVars == <<cat, applied, pending, cert, exec, sent, replayed, raced, faults>>

EmptyCatalog == [roles |-> {}, boot |-> FALSE, done |-> {}]

\* catalog(): what a controller reads and fingerprints.
Fingerprint(c) == [c EXCEPT !.done = @ \cap Visible]

Resting == [pc |-> "idle", snap |-> Absent, admitted |-> FALSE,
            unit |-> 0, at |-> 0, seen |-> Absent]

SchemaInit ==
    /\ cat = EmptyCatalog
    /\ applied = 0
    /\ pending = Absent
    /\ cert = Absent
    /\ exec = [e \in Executors |-> Resting]
    /\ sent = {}
    /\ replayed = {}
    /\ raced = FALSE
    /\ faults = 0

traffic == <<sent, replayed, raced>>
database == <<cat, applied, pending, cert, traffic>>

-----------------------------------------------------------------------------
(* Reading the tracking rows *)

\* Mutant of Explained: the fingerprint of the APPLYING row is not compared.
ExplainedByPosition(seen) == pending # Absent => pending.unit = applied + 1

\* read_pending: an APPLYING row is believed if it is for the next unit and the
\* catalog is the one it fingerprints; anything else is RECOVERY_REQUIRED.
Explained(seen) == pending # Absent => pending.unit = applied + 1 /\ pending.fp = seen

Observed == [cat |-> Fingerprint(cat), applied |-> applied, pending |-> pending]

\* inspect: the sealed snapshot an operator plans from.
Inspect(e) ==
    /\ exec[e].pc = "idle"
    /\ Explained(Fingerprint(cat))
    /\ exec' = [exec EXCEPT ![e].snap = Observed, ![e].admitted = FALSE]
    /\ UNCHANGED <<database, faults>>

\* plan and MigrationAdmission.admit: one authorization for this snapshot.
Admit(e) ==
    /\ exec[e].pc = "idle" /\ exec[e].snap # Absent /\ ~exec[e].admitted
    /\ exec' = [exec EXCEPT ![e].admitted = TRUE]
    /\ UNCHANGED <<database, faults>>

\* Five minutes pass: the snapshot and the authorization expire.
Expire(e) ==
    /\ exec[e].pc = "idle" /\ exec[e].snap # Absent
    /\ exec' = [exec EXCEPT ![e].snap = Absent, ![e].admitted = FALSE]
    /\ UNCHANGED <<database, faults>>

-----------------------------------------------------------------------------
(* execute *)

\* execute raises, or returns: the authorization is consumed either way.
Leave(e) == exec' = [exec EXCEPT ![e] = [Resting EXCEPT !.snap = exec[e].snap]]

Goto(e, pc, unit, at) ==
    exec' = [exec EXCEPT ![e].pc = pc, ![e].unit = unit, ![e].at = at]

\* The authorization is consumed; the catalog and the rows must be those of the
\* snapshot. A certified schema is a replay; roles are only made before unit 1.
Execute(e) ==
    /\ exec[e].pc = "idle" /\ exec[e].admitted
    /\ IF Observed = exec[e].snap /\ Explained(Fingerprint(cat)) /\ cert = Absent
       THEN exec' = [exec EXCEPT ![e].pc = IF applied = 0 THEN "roles"
                                           ELSE IF applied = Units THEN "certify" ELSE "unit",
                                 ![e].admitted = FALSE, ![e].seen = Fingerprint(cat),
                                 ![e].unit = applied + 1, ![e].at = 1]
       ELSE Leave(e)
    /\ raced' = (raced \/ \E f \in Executors : exec[f].pc # "idle")
    /\ UNCHANGED <<cat, applied, pending, cert, sent, replayed, faults>>

\* One role: created unless it exists with the expected flags.
CreateRole(e) ==
    /\ exec[e].pc = "roles"
    /\ IF exec[e].at > RoleCount
       THEN UNCHANGED cat /\ Goto(e, "unit", 1, 0)
       ELSE /\ cat' = [cat EXCEPT !.roles = @ \cup {exec[e].at}]
            /\ Goto(e, "roles", 1, exec[e].at + 1)
    /\ UNCHANGED <<applied, pending, cert, traffic, faults>>

\* Unit 1 is one serializable transaction; it fails if the schema exists.
Bootstrap(e) ==
    /\ exec[e].pc = "unit" /\ exec[e].unit = 1
    /\ IF cat.boot \/ applied > 0
       THEN Leave(e) /\ UNCHANGED <<cat, applied>>
       ELSE /\ cat' = [cat EXCEPT !.boot = TRUE]
            /\ applied' = 1
            /\ exec' = [exec EXCEPT ![e].unit = 2, ![e].seen = Fingerprint(cat')]
    /\ UNCHANGED <<pending, cert, traffic, faults>>

\* Resuming starts after the last acknowledged statement.
ResumeAt == pending.done + 1

\* The start of a unit: resume at the count of the APPLYING row, or insert one;
\* the primary key refuses a second row for a unit.
OpenUnit(e) ==
    LET u == exec[e].unit IN
    /\ exec[e].pc = "unit" /\ u > 1
    /\ \/ ~Explained(exec[e].seen) /\ Leave(e) /\ UNCHANGED pending
       \/ /\ Explained(exec[e].seen) /\ pending # Absent
          /\ Goto(e, "statement", u, ResumeAt)
          /\ UNCHANGED pending
       \/ /\ pending = Absent /\ applied >= u
          /\ Leave(e) /\ UNCHANGED pending
       \/ /\ pending = Absent /\ applied < u /\ u = Units /\ PreludeCount > 0
          /\ IF applied + 1 = u THEN Goto(e, "prelude", u, 1) ELSE Leave(e)
          /\ UNCHANGED pending
       \/ /\ pending = Absent /\ applied < u /\ ~(u = Units /\ PreludeCount > 0)
          /\ pending' = [unit |-> u, done |-> 0, fp |-> exec[e].seen]
          /\ Goto(e, "statement", u, 1)
    /\ UNCHANGED <<cat, applied, cert, traffic, faults>>

\* A statement goes to the database, which refuses what it cannot do twice.
Send(s) ==
    /\ sent' = sent \cup {s}
    /\ replayed' = IF s \in cat.done THEN replayed \cup {s} ELSE replayed
    /\ UNCHANGED raced

Accepted(s) == s \notin cat.done \/ s \in Idempotent

Perform(s) == cat' = [cat EXCEPT !.done = @ \cup {s}]

\* The prelude of the last unit, which makes room for its own tracking row.
PreludeStatement(e) ==
    LET s == <<exec[e].unit, exec[e].at>> IN
    /\ exec[e].pc = "prelude"
    /\ IF exec[e].at > PreludeCount
       THEN /\ IF pending # Absent \/ applied >= Units
               THEN Leave(e) /\ UNCHANGED pending
               ELSE /\ pending' = [unit |-> Units, done |-> PreludeCount, fp |-> exec[e].seen]
                    /\ Goto(e, "statement", Units, PreludeCount + 1)
            /\ UNCHANGED <<cat, traffic>>
       ELSE /\ Send(s) /\ Perform(s)
            /\ exec' = [exec EXCEPT ![e].at = @ + 1, ![e].seen = Fingerprint(cat')]
            /\ UNCHANGED pending
    /\ UNCHANGED <<applied, cert, faults>>

\* The next statement of the unit.
Statement(e) ==
    LET s == <<exec[e].unit, exec[e].at>> IN
    /\ exec[e].pc = "statement" /\ s \in Stmts
    /\ Send(s)
    /\ IF Accepted(s)
       THEN Perform(s) /\ Goto(e, "checkpoint", exec[e].unit, exec[e].at)
       ELSE Leave(e) /\ UNCHANGED cat
    /\ UNCHANGED <<applied, pending, cert, faults>>

\* WHERE ordinal=u AND state='APPLYING' AND completed_statements=done
CountedTo(u, done) == pending # Absent /\ pending.unit = u /\ pending.done = done

\* Mutant of Counted: the next statement is counted ahead.
CountedAhead(e) == [unit |-> exec[e].unit, done |-> exec[e].at + 1, fp |-> Fingerprint(cat)]

Counted(e) == [unit |-> exec[e].unit, done |-> exec[e].at, fp |-> Fingerprint(cat)]

\* The acknowledged statement is counted with the catalog it left behind.
Checkpoint(e) ==
    LET u == exec[e].unit IN
    /\ exec[e].pc = "checkpoint"
    /\ IF CountedTo(u, exec[e].at - 1)
       THEN /\ pending' = Counted(e)
            /\ exec' = [exec EXCEPT ![e].pc = "statement", ![e].at = @ + 1,
                                    ![e].seen = Fingerprint(cat)]
       ELSE Leave(e) /\ UNCHANGED pending
    /\ UNCHANGED <<cat, applied, cert, traffic, faults>>

\* The unit is complete: APPLYING becomes APPLIED.
FinishUnit(e) ==
    LET u == exec[e].unit IN
    /\ exec[e].pc = "statement" /\ exec[e].at > Counts[u]
    /\ IF CountedTo(u, Counts[u])
       THEN /\ pending' = Absent /\ applied' = applied + 1
            /\ Goto(e, IF u = Units THEN "certify" ELSE "unit", u + 1, 0)
       ELSE Leave(e) /\ UNCHANGED <<pending, applied>>
    /\ UNCHANGED <<cat, cert, traffic, faults>>

\* Mutant of Certifiable: the tracking rows are trusted without the catalog.
CertifiableByRows == TRUE

\* validate_catalog: the roles, tables, owners, policies, primary keys, functions
\* and their grants, triggers and the vector index are looked for by name; a
\* column, a CHECK, a foreign key, another index or a table grant is not missed.
Certifiable == cat.roles = 1..RoleCount /\ cat.boot /\ Checked \subseteq cat.done

\* The certificate is written once, for the validated catalog.
Certify(e) ==
    /\ exec[e].pc = "certify"
    /\ Leave(e)
    /\ IF Certifiable /\ applied = Units /\ cert = Absent
       THEN cert' = Fingerprint(cat) ELSE UNCHANGED cert
    /\ UNCHANGED <<cat, applied, pending, traffic, faults>>

-----------------------------------------------------------------------------
(* Faults *)

Fault == faults < MaxFaults /\ faults' = faults + 1

\* An exception between two steps (admission lapsed, connection lost): execute
\* unwinds. The controller still has its snapshot.
Fail(e) ==
    /\ Fault /\ exec[e].pc # "idle"
    /\ Leave(e)
    /\ UNCHANGED database

\* The process dies: the controller's keys, snapshot and authorization are gone.
Crash(e) ==
    /\ Fault /\ exec[e].pc # "idle"
    /\ exec' = [exec EXCEPT ![e] = Resting]
    /\ UNCHANGED database

\* Somebody else drops what statement s made, between two executions.
Drop(s) ==
    /\ Fault /\ \A e \in Executors : exec[e].pc = "idle"
    /\ s \in cat.done
    /\ cat' = [cat EXCEPT !.done = @ \ {s}]
    /\ UNCHANGED <<applied, pending, cert, exec, traffic>>

SchemaNext ==
    \/ \E e \in Executors :
          \/ Inspect(e) \/ Admit(e) \/ Expire(e) \/ Execute(e)
          \/ CreateRole(e) \/ Bootstrap(e) \/ OpenUnit(e) \/ PreludeStatement(e)
          \/ Statement(e) \/ Checkpoint(e) \/ FinishUnit(e) \/ Certify(e)
          \/ Fail(e) \/ Crash(e)
    \/ \E s \in Droppable : Drop(s)

SchemaSpec == SchemaInit /\ [][SchemaNext]_schemaVars

-----------------------------------------------------------------------------
SchemaTypeOK ==
    /\ cat \in Catalogs
    /\ applied \in 0..Units
    /\ pending \in Rows \cup {Absent}
    /\ pending # Absent => /\ pending.unit \in 2..Units
                         /\ pending.done \in 0..Counts[pending.unit]
    /\ cert \in Catalogs \cup {Absent}
    /\ replayed \subseteq sent /\ sent \subseteq Stmts
    /\ \A e \in Executors :
          /\ exec[e].pc \in {"idle", "roles", "unit", "prelude", "statement",
                             "checkpoint", "certify"}
          /\ exec[e].unit \in 0..(Units + 1)

Before(s, t) == s[1] < t[1] \/ (s[1] = t[1] /\ s[2] < t[2])

\* What the tracking rows claim was done: the APPLIED units, and the counted
\* statements of the APPLYING one.
Claimed ==
    {s \in Stmts : s[1] <= applied \/ (pending # Absent /\ s[1] = pending.unit /\ s[2] <= pending.done)}

\* The rows never claim a statement that was not executed, and none is executed
\* before an earlier one, whatever executors raced, failed or died
\* (migration_controller.py:579-695).
RowsAreTrue ==
    /\ Claimed \subseteq sent
    /\ \A s \in Stmts, t \in sent : Before(s, t) => s \in sent

\* A schema is certified READY only after every statement of every unit was
\* executed, and with everything validate_catalog looks for in place, whatever
\* failed or was undone on the way (migration_controller.py:697-717). What it does
\* not look for may have been dropped again.
CertifiedIsComplete ==
    cert # Absent =>
        /\ applied = Units /\ sent = Stmts
        /\ cert.roles = 1..RoleCount /\ cert.boot /\ Checked \subseteq cert.done

\* "An acknowledgement gap or unexplained catalog change is not replayed"
\* (migration_controller.py:230): outside the prelude, no statement is sent again
\* whose work is in place and shows in catalog(), as long as executions never
\* overlapped. Nothing in execute keeps two of them apart, and a statement that
\* leaves no trace in catalog() is sent again after a gap.
GapNotReplayed == raced \/ replayed \subseteq Prelude \cup (Stmts \ Visible)
=============================================================================
