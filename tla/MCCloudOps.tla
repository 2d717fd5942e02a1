----------------------------- MODULE MCCloudOps -----------------------------
(* Model-checking instance of CloudOps.                                      *)
EXTENDS CloudOps
=============================================================================
