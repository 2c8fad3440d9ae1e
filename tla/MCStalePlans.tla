---------------------------- MODULE MCStalePlans ----------------------------
(* StalePlans on small instances: one seed that maintainers pin and unpin,   *)
(* and scaled-down thresholds.                                               *)
EXTENDS StalePlans, TLC

CONSTANTS s1, p1, d1

OneSeed == {s1}
OneProblem == {p1}
OneDomain == {d1}
OneDomainOf == s1 :> d1
PinnedOrNot == [pinned : BOOLEAN, toolbox : {FALSE}, hits : {{}}]

\* A round has met the seed, in use, before anything succeeded.
MCInit ==
    /\ gc = [s \in Seeds |-> [NoRecord EXCEPT !.introduced = 0, !.lastUsed = 0]]
    /\ clock = [d \in Domains |-> 0]
    /\ view \in [Seeds -> Reaching]
    /\ plan = [p \in Plans |-> NoPlan]
    /\ writing = [m \in Maintainers |-> Idle]

MCSpec == MCInit /\ [][StaleNext]_staleVars /\ StaleFairness
=============================================================================
