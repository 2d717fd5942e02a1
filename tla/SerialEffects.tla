---------------------------- MODULE SerialEffects ----------------------------
(***************************************************************************)
(* What the effect-intent journal promises to an owner, without saying how *)
(* (the docstring of runtime/mission/intent.py): an operation is sent at   *)
(* most once; its outcome is unknown from the moment it may have been sent *)
(* until independently known, and then never changes; nothing new is sent  *)
(* anywhere while one outcome is unknown; only a known outcome is          *)
(* delivered, once.                                                        *)
(***************************************************************************)
CONSTANT Operations

VARIABLES
  outcome,     \* what is on record for each operation
  delivered    \* operations whose outcome was delivered

Verdicts == {"Applied", "NotApplied"}

Init ==
  /\ outcome = [o \in Operations |-> "None"]
  /\ delivered = {}

Send(o) ==
  /\ outcome[o] = "None"
  /\ \A p \in Operations : outcome[p] # "Unknown"
  /\ outcome' = [outcome EXCEPT ![o] = "Unknown"]
  /\ UNCHANGED delivered

Learn(o, v) ==
  /\ outcome[o] = "Unknown"
  /\ outcome' = [outcome EXCEPT ![o] = v]
  /\ UNCHANGED delivered

Deliver(o) ==
  /\ outcome[o] \in Verdicts
  /\ o \notin delivered
  /\ delivered' = delivered \cup {o}
  /\ UNCHANGED outcome

Next == \E o \in Operations : Send(o) \/ (\E v \in Verdicts : Learn(o, v)) \/ Deliver(o)

Spec == Init /\ [][Next]_<<outcome, delivered>>

=============================================================================
