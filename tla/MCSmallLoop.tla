---------------------------- MODULE MCSmallLoop -----------------------------
(* Every run of up to three patches, and longer ones of a family that is given *)
(* more stagnant attempts.                                                     *)
EXTENDS SmallLoop, TLC

CONSTANTS e1, o1

Source == [place |-> "source", lean |-> TRUE]
ScopeSamples ==
    {{Source}, {Source, [place |-> "inside", lean |-> FALSE]},
     {[place |-> "spec", lean |-> TRUE]}, {[place |-> "unclean", lean |-> TRUE]}}

\* No limit of steps or queries; a limit of attempts is the default or an
\* override below it.
Limits(attempts, wall) ==
    [d \in Dimensions |-> CASE d = "attempts" -> attempts [] d = "wall" -> wall [] OTHER -> 0]

\* Families with an immediate stop, with the smallest K and with K = 2.
ShortCases ==
    {[runner |-> r, family |-> f, patches |-> n, tooling |-> t, limits |-> Limits(a, w)] :
        r \in {"cases", "scenarios"}, f \in {"ASSUMPTION", "TOOLING", "IMPORT"},
        n \in 0..3, t \in BOOLEAN, a \in 1..4, w \in {0, 2}}

\* K = 4, with patches enough to use it up after a progress in between.
LongCases ==
    {[runner |-> r, family |-> "TYPE", patches |-> 5, tooling |-> FALSE, limits |-> Limits(6, 0)] :
        r \in {"cases", "scenarios"}}

SmallCases == {c \in ShortCases : c.limits["attempts"] <= c.patches + 1} \union LongCases
=============================================================================
