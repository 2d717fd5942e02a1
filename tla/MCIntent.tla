------------------------------ MODULE MCIntent ------------------------------
(* Model-checking instance of IntentJournal: the effect of "a", which may be *)
(* delegated to "b", beside an effect at no cost under "d" and a provider    *)
(* call under "e", which share a nonce.                                      *)
EXTENDS IntentJournal, TLC
CONSTANT MaxVersion

Request(op) == [id |-> op, task |-> op, provider |-> "p", money |-> 1, risk |-> 1]

Warrant(id, nonce, op, kind, scope) ==
  [id |-> id, nonce |-> nonce, op |-> op, kind |-> kind, request |-> Request(op),
   epoch |-> 1, scope |-> scope, until |-> 1]

A == Warrant("a", "n1", "o1", "paid", 2)
B == Warrant("b", "n1", "o1", "paid", 1)
D == Warrant("d", "n2", "o2", "zero", 0)
E == Warrant("e", "n2", "o3", "call", 2)

MCRoots    == {A, D, E}
MCWarrants == {A, B, D, E}
MCRequests == {Request("o1"), Request("o2"), Request("o3")}

MCLimit == [l \in Levels |-> 2]

\* Callers, and sessions, differ in nothing but their name.
MCSymmetry == Permutations(Callers) \cup Permutations(Sessions)

MCVerdictOf == [r \in {"applied", "refused"} |-> IF r = "applied" THEN "Applied" ELSE "NotApplied"]

\* The snapshots the governor writes.
\* Histories of MaxVersion writes, of one less after a takeover and under the kill switch.
MCBound == gov.version + gov.epoch + (IF gov.kill THEN 1 ELSE 0) <= MaxVersion + 1

=============================================================================
