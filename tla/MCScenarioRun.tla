--------------------------- MODULE MCScenarioRun ----------------------------
(* Instances of ScenarioRun: the shapes of the scenarios of the repository.  *)
EXTENDS ScenarioRun, TLC

ModelModules == {"Hub", "t1", "t2"}
OneProblem == {"p"}
HubOnly == "Hub" :> {}

V(prepared, expected) == [problem |-> "p", prepared |-> prepared, expected |-> expected]
RunTask(v, reset, repeat) ==
    [kind |-> "run_task", variant |-> v, reset |-> reset, repeat |-> repeat]
Apply(l, specs) == [kind |-> "apply_overlay", overlay |-> [lib |-> l, specs |-> specs]]
Other(kind) == [kind |-> kind]

\* core_dummy_smoke: triaged, fixed by a maintainer, then a success.
Smoke == <<RunTask(V(FALSE, "TRIAGED"), TRUE, 1), Apply(<<>>, {"p"}),
           RunTask(V(FALSE, "SUCCESS"), FALSE, 1)>>

\* tool_reuse_chain: two promotions, each with a new hub, and runs between.
Chain == <<Apply("t1" :> {} @@ "Hub" :> {"t1"}, {}),
           RunTask(V(TRUE, "SUCCESS"), TRUE, 1),
           Apply("t2" :> {"t1"} @@ "Hub" :> {"t1", "t2"}, {}),
           RunTask(V(TRUE, "SUCCESS"), TRUE, 1)>>

\* regression: the same task twice, a clean, the task on what is there, a command.
Regression == <<RunTask(V(TRUE, "SUCCESS"), TRUE, 2), Other("clean"),
                RunTask(V(TRUE, "SUCCESS"), FALSE, 1), Other("run_cmd")>>

\* A pack of two tasks: all variants of one, of the other those the step leaves; a build.
Variants == "easy" :> <<V(TRUE, "SUCCESS"), V(FALSE, "TRIAGED")>>
            @@ "hard" :> <<V(TRUE, "SUCCESS"), V(FALSE, "TRIAGED")>>
Pack == <<[kind |-> "run_pack", repeat |-> 1,
           refs |-> <<[task |-> "easy", all |-> TRUE, variants |-> <<>>],
                      [task |-> "hard", all |-> FALSE, variants |-> Variants["hard"]]>>,
           only |-> "hard" :> {V(FALSE, "TRIAGED")}], Other("lake_build")>>

FourShapes == {Smoke, Chain, Regression, Pack}
ReuseShape == {Chain}

\* The shapes are of the scenarios the theorems speak of.
ASSUME ShapesKeepReach == NoLateReach
ASSUME ShapesArePassable == Passable
=============================================================================
