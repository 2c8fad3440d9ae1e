--------------------------- MODULE MCSharedCache ----------------------------
(* One package of two files; one or two runners.                             *)
EXTENDS SharedCache, TLC

CONSTANTS r1, r2, w1, w2, mathlib

TwoFiles == mathlib :> {"top", "rest"}

OwnWorkspace == (r1 :> w1) @@ (r2 :> w2)
OneWorkspace == r1 :> w1

\* The workspace of run_cases is a donor too; that of run_scenario is not.
RepoThenWorkspace == <<"repo", w1>>
OnlyRepo == <<"repo">>
=============================================================================
