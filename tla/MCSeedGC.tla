------------------------------ MODULE MCSeedGC ------------------------------
(* SeedGC on small instances: one domain and scaled-down thresholds. *)
EXTENDS SeedGC, TLC

CONSTANTS s1, p1, p2, d1

OneSeed == {s1}
TwoProblems == {p1, p2}
OneDomain == {d1}
OneDomainOf == s1 :> d1
=============================================================================
