----------------------------- MODULE ReplayWindow ---------------------------
(* The signed packets of a paired device and the nonces that keep them from  *)
(* being used again (mobile_gateway/pairing.py, _nonce and handle).          *)
(*                                                                           *)
(* A packet is accepted while its time stamp is within Window seconds of the *)
(* clock. Its nonce is kept in the device record for the same time only, so  *)
(* that the record stays small. The handler reads the clock for each bound   *)
(* of the time stamp and again, after the signature check, for every nonce   *)
(* it looks at; the clock may move between any two readings, and be set back. *)
EXTENDS Integers, FiniteSets

CONSTANTS
    Packets,      \* signed packets, each with a nonce of its own
    Window,       \* seconds of tolerance (30)
    Limit,        \* nonces a device record may hold (128)
    None

\* What the constants stand for; the theorems' premise.
WindowAssumption ==
    /\ Window \in Nat /\ Limit \in Nat \ {0} /\ None \notin Packets

VARIABLES
    now,       \* int(clock())
    issued,    \* the time stamp of each packet
    recent,    \* recent_nonces: the packets whose nonce is in the device record
    handling,  \* the packet a handler is at, under the gateway lock
    at,        \* where that handler is
    left,      \* nonces it has not looked at yet
    kept,      \* nonces it has found to be in their window
    uses,      \* history: how often each packet was accepted
    backs,     \* history: how often the clock was set back
    setback    \* history: packets last accepted before the clock was set back

handler == <<handling, at, left, kept>>
vars == <<now, issued, recent, handling, at, left, kept, uses, backs, setback>>

Init ==
    /\ now \in Nat /\ issued \in [Packets -> Nat]
    /\ recent = {} /\ handling = None /\ at = "idle" /\ left = {} /\ kept = {}
    /\ uses = [p \in Packets |-> 0] /\ backs = 0 /\ setback = {}

\* The clock is never trusted to move forward.
SetClock(t) ==
    /\ now' = t
    /\ backs' = IF t < now THEN backs + 1 ELSE backs
    /\ setback' = IF t < now THEN Packets ELSE setback
    /\ UNCHANGED <<issued, recent, handler, uses>>

\* The last second in which the packet is accepted and its nonce is kept.
Until(p) == issued[p] + Window

\* A packet arrives, possibly again: delivery may repeat it at any time. _clock looks at the
\* earlier bound of its time stamp, and then at the later one.
Receive(p) ==
    /\ at = "idle"
    /\ now <= Until(p)
    /\ handling' = p /\ at' = "stamped"
    /\ UNCHANGED <<now, issued, recent, left, kept, uses, backs, setback>>

Stamped ==
    /\ at = "stamped"
    /\ issued[handling] <= now + Window
    /\ at' = "looking" /\ left' = recent /\ kept' = {}
    /\ UNCHANGED <<now, issued, recent, handling, uses, backs, setback>>

\* _nonce keeps what has not outlived its time stamp; each nonce has a reading of its own.
Look(p) ==
    /\ at = "looking" /\ p \in left
    /\ left' = left \ {p}
    /\ kept' = IF now <= Until(p) THEN kept \cup {p} ELSE kept
    /\ UNCHANGED <<now, issued, recent, handling, at, uses, backs, setback>>

\* It refuses a nonce it has kept or a full record; else the handler's transaction commits
\* with this nonce in the record.
Accept ==
    /\ at = "looking" /\ left = {}
    /\ handling \notin kept /\ Cardinality(kept) < Limit
    /\ recent' = kept \cup {handling}
    /\ uses' = [uses EXCEPT ![handling] = @ + 1]
    /\ setback' = setback \ {handling}
    /\ handling' = None /\ at' = "idle" /\ kept' = {}
    /\ UNCHANGED <<now, issued, left, backs>>

\* 409, 429, or anything else fails: nothing is kept.
Refuse ==
    /\ at # "idle"
    /\ handling' = None /\ at' = "idle" /\ left' = {} /\ kept' = {}
    /\ UNCHANGED <<now, issued, recent, uses, backs, setback>>

\* The owner approves the device again: the record is written afresh, with the
\* nonces still in their window.
Approve ==
    /\ at = "idle"
    /\ recent' = {p \in recent : now <= Until(p)}
    /\ UNCHANGED <<now, issued, handler, uses, backs, setback>>

Next ==
    \/ \E t \in Nat : SetClock(t)
    \/ \E p \in Packets : Receive(p) \/ Look(p)
    \/ Stamped \/ Accept \/ Refuse \/ Approve

Spec == Init /\ [][Next]_vars

-----------------------------------------------------------------------------
\* A packet that was accepted is accepted again only by a handler that has read the clock past
\* the end of its window, after it read it within the window for the time stamp, or when the
\* clock was set back meanwhile (pairing.py:43-51, 119-123, 162).
AcceptedAgainLate ==
    [][\A p \in Packets : uses[p] > 0 /\ uses'[p] > uses[p] =>
           now > Until(p) \/ p \in setback]_vars

\* So it is used twice at most for every time the clock is set back, and twice at most if it
\* never is, however often it is delivered and the device approved.
UsesBounded == \A p \in Packets : uses[p] <= 2 * (backs + 1)
=============================================================================
