----------------------------- MODULE MCGCSystem -----------------------------
(* GCSystem on a small instance: two problems of one domain, two seeds of   *)
(* which the first imports the second.                                      *)
EXTENDS GCSystem, TLC

CONSTANTS s1, s2, p1, p2, d1, unknown, r1, r2

TwoSeeds == {s1, s2}
TwoProblems == {p1, p2}
DomainsAndUnknown == {d1, unknown}
OneReconciler == {r1}
AllInOneDomain == s1 :> d1 @@ s2 :> d1
Chain == s1 :> {s2} @@ s2 :> {}
NoSeeds == {}
FirstOrNone == {{}, {s1}}
PinSecond == {{}, {s2}}
TwoAndOne == p1 :> 2 @@ p2 :> 1
OneOrTwo == p1 :> {1, 2} @@ p2 :> {2}

\* The first problem is one of the seeds' domain; the second may have no State.json.
MCInit == Init /\ p1 \in DOMAIN problem /\ \A p \in DOMAIN problem : problem[p].domain = d1
MCSpec == MCInit /\ [][Next]_vars

TwoSlugs == p1 :> 1 @@ p2 :> 2
=============================================================================
