-------------------------- MODULE MCStuckRecovery ---------------------------
(* Two runs of one automation, and two recoveries at once. *)
EXTENDS StuckRecovery, TLC

CONSTANTS t1, t2, a1, r1, r2

BothOfOne == (t1 :> a1) @@ (t2 :> a1)
=============================================================================
