--------------------------- MODULE MCServiceGuard ---------------------------
(* The instance of ServiceGuard that TLC checks: one operation with several  *)
(* faults and a moving clock.                                                *)
EXTENDS ServiceGuard
=============================================================================
