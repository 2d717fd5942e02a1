---------------------------- MODULE MCLiteWatch -----------------------------
(* Model-checking instance of LiteWatch: one chat, one queued item and one   *)
(* critical-loop group compete for the budget of two hours.                  *)
EXTENDS LiteWatch
=============================================================================
