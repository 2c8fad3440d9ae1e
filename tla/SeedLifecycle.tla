--------------------------- MODULE SeedLifecycle ----------------------------
(***************************************************************************)
(* What the seed collector promises, without clocks or metadata: a seed    *)
(* goes down one level at a time and only while nothing uses it, and a     *)
(* sweep lifts every seed in use.                                          *)
(***************************************************************************)
CONSTANT Seeds

VARIABLES
    level,   \* "active", "quarantined" or "archived", for each seed
    live     \* the seeds in use

vars == <<level, live>>

\* Where one sweep may leave a seed.
Outcome(l, isLive) ==
    IF isLive
    THEN IF l = "archived" THEN {"quarantined", "active"} ELSE {"active"}
    ELSE CASE l = "active" -> {"active", "quarantined"}
           [] l = "quarantined" -> {"quarantined", "archived"}
           [] OTHER -> {"archived"}

Init ==
    /\ level = [s \in Seeds |-> "active"]
    /\ live \in SUBSET Seeds

\* Every seed is swept at once.
Sweep ==
    /\ level' \in [Seeds -> {"active", "quarantined", "archived"}]
    /\ \A s \in Seeds : level'[s] \in Outcome(level[s], s \in live)
    /\ UNCHANGED live

\* Pins, imports and the selection of problems change what is in use.
UseChanges ==
    /\ live' \in SUBSET Seeds
    /\ UNCHANGED level

Next == Sweep \/ UseChanges

Spec == Init /\ [][Next]_vars

\* The weaker promise of a sweep that may let an archived seed in use wait.
PatientSweep ==
    /\ level' \in [Seeds -> {"active", "quarantined", "archived"}]
    /\ \A s \in Seeds :
          \/ level'[s] \in Outcome(level[s], s \in live)
          \/ level'[s] = "archived" /\ level[s] = "archived"
    /\ UNCHANGED live

PatientSpec == Init /\ [][PatientSweep \/ UseChanges]_vars

=============================================================================
