---------------------------- MODULE MCAuditChain ----------------------------
(* Model-checking instance of AuditChain.                                  *)
EXTENDS AuditChain, TLC

CONSTANTS t1, t2, t3

\* Two tenants whose ids hash to the same lock, and one with a lock of its own.
OneCollision == (t1 :> 1) @@ (t2 :> 1) @@ (t3 :> 2)
=============================================================================
