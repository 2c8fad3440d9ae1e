---------------------------- MODULE ScenarioRun -----------------------------
(***************************************************************************)
(* The scenario runner (tools/agent_eval/run_scenario.py), the agents it   *)
(* runs in one shared workspace, the operator who resumes an eval dir      *)
(* (--resume-eval-dir, --from-step) after the runner was killed or gave    *)
(* up, and the grader (grade_scenario.py).  The runner writes its files    *)
(* one after the other, and Break may come between any two of them.        *)
(***************************************************************************)
EXTENDS ScenarioGrade

CONSTANTS
    Scenarios,   \* sequences of scenario.yaml steps
    Repo,        \* the library of the repository: module -> its imports
    MaxRuns,     \* bound: processes of the runner
    Operator     \* what the operator does with --from-step: see MayResume

ASSUME ScenariosAssumption ==
    Repo \in Library /\ \A s \in Scenarios : ExpandSteps(s) \in Seq(Step)
ASSUME MaxRunsAssumption == MaxRuns \in Nat \ {0}
ASSUME OperatorAssumption == Operator \in {"careful", "restarts", "any"}

VARIABLES
    steps,       \* Plan.json: the expanded steps
    lib,         \* workspace/LeanAtlas: the library
    problems,    \* workspace/Problems: Spec solvable, Proof, Reports
    baseline,    \* BaselineToolSurface.json
    dirs,        \* runs/<step>
    runner,      \* the process of the runner
    verdict,     \* ScenarioEvalReport.json
    made,        \* history: the modules agents made, with their steps
    faulty       \* history: the steps whose agent did not do as it should

vars == <<steps, lib, problems, baseline, dirs, runner, verdict, made, faulty>>

N == Len(steps)

NoProblem == [solvable |-> FALSE, proof |-> NoProof, reports |-> <<>>]

\* The fixture: Spec imports the hub, Proof is a sorry, Reports is empty.
Fixture(v) ==
    [solvable |-> v.prepared, proof |-> [done |-> FALSE, imports |-> {Hub}],
     reports |-> [i \in 1..N |-> NoReport]]

Init ==
    /\ \E s \in Scenarios : steps = ExpandSteps(s)
    /\ lib = <<>>
    /\ problems = [p \in Problems |->
                     [NoProblem EXCEPT !.reports = [i \in 1..N |-> NoReport]]]
    /\ baseline = NoSurface
    /\ dirs = [i \in 1..N |-> NoDir(N)]
    /\ runner = [pc |-> "off", mode |-> "run", from |-> 1, step |-> 1, at |-> 1,
                 todo |-> {}, runs |-> 0, ended |-> FALSE]
    /\ verdict = NoVerdict
    /\ made = {}
    /\ faulty = {}

\* The overlays that a resumed process copies again before the steps from k on.
NextOverlay(at, k) ==
    LET later == {j \in at..k-1 : steps[j].kind = "apply_overlay"}
    IN IF later = {} THEN k ELSE Min(later)

Files(j) == IF steps[j].kind = "apply_overlay"
            THEN DOMAIN steps[j].overlay.lib \union steps[j].overlay.specs ELSE {}

\* The library after a file of it was written.
With(m, imports) == [x \in DOMAIN lib \union {m} |-> IF x = m THEN imports ELSE lib[x]]

\* A fresh eval dir: the skeleton of the repository is copied.
Start(mode) ==
    /\ runner.runs = 0
    /\ runner' = [runner EXCEPT !.pc = "copy", !.mode = mode, !.runs = 1,
                                !.todo = DOMAIN Repo]
    /\ UNCHANGED <<steps, lib, problems, baseline, dirs, verdict, made, faulty>>

CopySkeleton(m) ==
    /\ runner.pc = "copy" /\ m \in runner.todo
    /\ lib' = With(m, Repo[m])
    /\ runner' = [runner EXCEPT !.todo = @ \ {m}]
    /\ UNCHANGED <<steps, problems, baseline, dirs, verdict, made, faulty>>

TakeBaseline ==
    /\ runner.pc = "copy" /\ runner.todo = {}
    /\ baseline' = Surface(lib)
    /\ runner' = [runner EXCEPT !.pc = "step"]
    /\ UNCHANGED <<steps, lib, problems, dirs, verdict, made, faulty>>

\* careful: resumes where the last process stopped; restarts: also from an earlier
\* step, to run it again; any: whatever the runner accepts.
MayResume(k, reapply) ==
    \/ Operator = "any"
    \/ /\ baseline # NoSurface /\ runner.mode = "run" /\ reapply
       /\ IF Operator = "restarts" THEN k <= runner.step
          ELSE k = runner.step /\ ~runner.ended

\* The workspace is there and Plan.json is of the same scenario.  Nothing asks
\* whether the workspace is complete, or how far the last process came.
Resume(k, reapply) ==
    /\ runner.pc = "off" /\ ~verdict.graded
    /\ runner.runs \in 1..MaxRuns-1
    /\ lib # <<>>
    /\ MayResume(k, reapply)
    /\ LET at == IF reapply THEN NextOverlay(1, k) ELSE k
       IN runner' = [runner EXCEPT !.pc = IF at < k THEN "overlay" ELSE "step",
                                   !.mode = "run", !.from = k, !.step = k, !.at = at,
                                   !.todo = IF at < k THEN Files(at) ELSE {},
                                   !.runs = @ + 1, !.ended = FALSE]
    /\ UNCHANGED <<steps, lib, problems, baseline, dirs, verdict, made, faulty>>

\* The runner is killed, a call of it raises, or the package cache is not seeded.
Break ==
    /\ runner.pc # "off"
    /\ runner' = [runner EXCEPT !.pc = "off"]
    /\ UNCHANGED <<steps, lib, problems, baseline, dirs, verdict, made, faulty>>

-----------------------------------------------------------------------------
(* The loop over the steps. *)

Resumed == runner.runs > 1

\* Only the directory of the step a process is resumed at is removed first.
BeginStep ==
    /\ runner.pc = "step" /\ runner.step <= N
    /\ LET i == runner.step
           kind == steps[i].kind
       IN /\ dirs' = [dirs EXCEPT ![i] = IF Resumed /\ i = runner.from
                                         THEN EmptyDir(N) ELSE [@ EXCEPT !.made = TRUE]]
          /\ runner' = [runner EXCEPT !.pc = kind, !.at = i, !.todo = Files(i)]
    /\ UNCHANGED <<steps, lib, problems, baseline, verdict, made, faulty>>

AllSteps ==
    /\ runner.pc = "step" /\ runner.step > N
    /\ runner' = [runner EXCEPT !.pc = "off", !.ended = TRUE]
    /\ UNCHANGED <<steps, lib, problems, baseline, dirs, verdict, made, faulty>>

Onward == runner' = [runner EXCEPT !.pc = "step", !.step = @ + 1]

\* _write_tool_surface: the names of the tool modules there are.
WriteSurface(i) == dirs' = [dirs EXCEPT ![i].surface = Surface(lib), ![i].lib = lib]

\* Mutant: files that are there already are left as they are.
CopyNewFile(f) ==
    /\ runner.pc \in {"overlay", "apply_overlay"} /\ f \in runner.todo
    /\ LET o == steps[runner.at].overlay
       IN IF f \in Modules
          THEN /\ lib' = IF f \in DOMAIN lib THEN lib ELSE With(f, o.lib[f])
               /\ UNCHANGED problems
          ELSE problems' = [problems EXCEPT ![f].solvable = TRUE] /\ UNCHANGED lib
    /\ runner' = [runner EXCEPT !.todo = @ \ {f}]
    /\ UNCHANGED <<steps, baseline, dirs, verdict, made, faulty>>

\* _apply_overlay_tree copies every file over what is there; a patched Spec
\* makes its goal provable.
CopyFile(f) ==
    /\ runner.pc \in {"overlay", "apply_overlay"} /\ f \in runner.todo
    /\ LET o == steps[runner.at].overlay
       IN IF f \in Modules
          THEN lib' = With(f, o.lib[f]) /\ UNCHANGED problems
          ELSE problems' = [problems EXCEPT ![f].solvable = TRUE] /\ UNCHANGED lib
    /\ runner' = [runner EXCEPT !.todo = @ \ {f}]
    /\ UNCHANGED <<steps, baseline, dirs, verdict, made, faulty>>

\* resume: on to the next overlay before the first step
NextReplay ==
    /\ runner.pc = "overlay" /\ runner.todo = {}
    /\ LET at == NextOverlay(runner.at + 1, runner.step)
       IN runner' = [runner EXCEPT !.pc = IF at < runner.step THEN "overlay" ELSE "step",
                                   !.at = at,
                                   !.todo = IF at < runner.step THEN Files(at) ELSE {}]
    /\ UNCHANGED <<steps, lib, problems, baseline, dirs, verdict, made, faulty>>

OverlayApplied ==
    /\ runner.pc = "apply_overlay" /\ runner.todo = {}
    /\ WriteSurface(runner.step) /\ Onward
    /\ UNCHANGED <<steps, lib, problems, baseline, verdict, made, faulty>>

\* scripts/clean.sh empties Problems/*/Reports.
Clean ==
    /\ runner.pc = "clean"
    /\ problems' = [p \in Problems |->
                      [problems[p] EXCEPT !.reports = [i \in 1..N |-> NoReport]]]
    /\ WriteSurface(runner.step) /\ Onward
    /\ UNCHANGED <<steps, lib, baseline, verdict, made, faulty>>

\* lake_build and run_cmd leave the sources alone; their exit code is only recorded.
Command ==
    /\ runner.pc \in {"lake_build", "run_cmd"}
    /\ WriteSurface(runner.step) /\ Onward
    /\ UNCHANGED <<steps, lib, problems, baseline, verdict, made, faulty>>

-----------------------------------------------------------------------------
(* run_task *)

Task == steps[runner.step].variant

\* Mutant: the fixture is copied over the problem that is there.
MaterializeOver ==
    /\ runner.pc = "run_task"
    /\ problems' = IF steps[runner.step].reset
                   THEN [problems EXCEPT ![Task.problem] =
                           [Fixture(Task) EXCEPT !.reports = problems[Task.problem].reports]]
                   ELSE problems
    /\ runner' = [runner EXCEPT !.pc = "context"]
    /\ UNCHANGED <<steps, lib, baseline, dirs, verdict, made, faulty>>

\* Mutant: the problem is put back to its fixture whatever the step says.
MaterializeAlways ==
    /\ runner.pc = "run_task"
    /\ problems' = [problems EXCEPT ![Task.problem] = Fixture(Task)]
    /\ runner' = [runner EXCEPT !.pc = "context"]
    /\ UNCHANGED <<steps, lib, baseline, dirs, verdict, made, faulty>>

\* The problem is put back to its fixture if the step resets it.  (One step: what
\* a kill leaves of it half done is made anew when the step is run again, and no
\* operator but one of the kind "any" goes on without running it again.)
Materialize ==
    /\ runner.pc = "run_task"
    /\ problems' = IF steps[runner.step].reset
                   THEN [problems EXCEPT ![Task.problem] = Fixture(Task)] ELSE problems
    /\ runner' = [runner EXCEPT !.pc = "context"]
    /\ UNCHANGED <<steps, lib, baseline, dirs, verdict, made, faulty>>

\* PROMPT.md and CONTEXT.json
WriteRunFiles ==
    /\ runner.pc = "context"
    /\ dirs' = [dirs EXCEPT ![runner.step].context = runner.runs]
    /\ runner' = [runner EXCEPT !.pc = "before"]
    /\ UNCHANGED <<steps, lib, problems, baseline, verdict, made, faulty>>

\* The surface before the agent; in materialize mode the step ends here.
SurfaceBeforeAgent ==
    /\ runner.pc = "before"
    /\ WriteSurface(runner.step)
    /\ IF runner.mode = "run" THEN runner' = [runner EXCEPT !.pc = "agent"] ELSE Onward
    /\ UNCHANGED <<steps, lib, problems, baseline, verdict, made, faulty>>

\* The agent leaves a proof that imports tools, and a report, or none ("bare")
\* when it fails or is killed at its timeout.
AgentLeaves(proof, status) ==
    LET i == runner.step
    IN /\ problems' = [problems EXCEPT
              ![Task.problem].proof = proof,
              ![Task.problem].reports[i] =
                  IF status = "bare" THEN @ ELSE ReportOf(status, runner.runs)]
       /\ runner' = [runner EXCEPT !.pc = "pins"]
       /\ UNCHANGED <<steps, baseline, dirs, verdict>>

\* It proves the goal if that can be done, with the tools there are.
GoodAgent(tools) ==
    /\ runner.pc = "agent"
    /\ tools \subseteq DOMAIN lib
    /\ LET can == problems[Task.problem].solvable
       IN AgentLeaves([done |-> can, imports |-> {Hub} \union tools],
                      IF can THEN "SUCCESS" ELSE "TRIAGED")
    /\ faulty' = faulty \ {runner.step}
    /\ UNCHANGED <<lib, made>>

\* It leaves no report, or claims a success it does not have.
PoorAgent(status) ==
    /\ runner.pc = "agent"
    /\ AgentLeaves([done |-> FALSE, imports |-> {Hub}], status)
    /\ faulty' = faulty \union {runner.step}
    /\ UNCHANGED <<lib, made>>

\* It makes a tool module of its own, which an operator must not do, and says nothing.
AgentMakesTool(m) ==
    /\ runner.pc = "agent"
    /\ m \notin DOMAIN lib
    /\ lib' = With(m, {})
    /\ AgentLeaves([done |-> TRUE, imports |-> {Hub, m}], Task.expected)
    /\ made' = made \union {<<m, runner.step>>}
    /\ UNCHANGED faulty

\* ensure_pins_used writes into the report directory, and makes it if the agent did not.
EnsurePins ==
    /\ runner.pc = "pins"
    /\ problems' = [problems EXCEPT ![Task.problem].reports[runner.step] =
                      IF @ = NoReport THEN Bare ELSE @]
    /\ runner' = [runner EXCEPT !.pc = "reports"]
    /\ UNCHANGED <<steps, lib, baseline, dirs, verdict, made, faulty>>

\* snapshot/Reports is replaced by the reports there are, of all steps.
SnapReports ==
    /\ runner.pc = "reports"
    /\ dirs' = [dirs EXCEPT ![runner.step].reports = problems[Task.problem].reports]
    /\ runner' = [runner EXCEPT !.pc = "files"]
    /\ UNCHANGED <<steps, lib, problems, baseline, verdict, made, faulty>>

SnapFiles ==
    /\ runner.pc = "files"
    /\ dirs' = [dirs EXCEPT ![runner.step].proof = problems[Task.problem].proof]
    /\ runner' = [runner EXCEPT !.pc = "after"]
    /\ UNCHANGED <<steps, lib, problems, baseline, verdict, made, faulty>>

SurfaceAfterAgent ==
    /\ runner.pc = "after"
    /\ WriteSurface(runner.step) /\ Onward
    /\ UNCHANGED <<steps, lib, problems, baseline, verdict, made, faulty>>

-----------------------------------------------------------------------------

\* Bound: an eval dir is graded once, and not resumed after that.  Only an
\* operator of the kind "any" grades what did not run to its end.
Grade ==
    /\ runner.pc = "off" /\ runner.runs > 0 /\ ~verdict.graded
    /\ Operator # "any" => runner.ended
    /\ Gradeable(steps, dirs)
    /\ verdict' = Verdict(steps, dirs, baseline, lib)
    /\ UNCHANGED <<steps, lib, problems, baseline, dirs, runner, made, faulty>>

RunnerStep ==
    \/ \E m \in Modules : CopySkeleton(m)
    \/ TakeBaseline \/ BeginStep \/ AllSteps
    \/ \E f \in Modules \union Problems : CopyFile(f)
    \/ NextReplay \/ OverlayApplied \/ Clean \/ Command
    \/ Materialize \/ WriteRunFiles \/ SurfaceBeforeAgent
    \/ EnsurePins \/ SnapReports \/ SnapFiles \/ SurfaceAfterAgent

Agent ==
    \/ \E tools \in SUBSET Modules : GoodAgent(tools)
    \/ \E status \in {"bare", "SUCCESS"} : PoorAgent(status)
    \/ \E m \in Modules : AgentMakesTool(m)

Next ==
    \/ \E mode \in {"run", "materialize"} : Start(mode)
    \/ \E k \in 1..N, reapply \in BOOLEAN : Resume(k, reapply)
    \/ RunnerStep \/ Agent \/ Break \/ Grade

Spec == Init /\ [][Next]_vars

-----------------------------------------------------------------------------

\* A scenario in which an agent made a tool module does not pass, whatever
\* breaks and resumptions came in between: "If ToolSurface.json changes during
\* a run_task, the scenario fails even if logs look fine".
BreachesFail == verdict.passed => made = {}

\* A module the grader blames on the run of a step was made by the agent of
\* that step: "operator introduced tool modules (patch-scope breach ...)".
BlameIsReal == verdict.blamed \subseteq made

\* The report a passed run is graded on was written by the agent of the last
\* process that began that run, if the run starts from a fresh fixture.
EvidenceIsOwn ==
    verdict.passed =>
        \A i \in 1..N : steps[i].kind = "run_task" /\ steps[i].reset =>
            Located(dirs[i], i).by = dirs[i].context

\* Reuse that a passed scenario reports was there when the run ended: the
\* module could be reached from the proof in the library of that time.
ReuseIsReal ==
    verdict.passed =>
        \A e \in verdict.reused : e[1] \in Reachable(dirs[e[2]].proof.imports, dirs[e[2]].lib)

\* Agents that do as they should make the scenario pass: no break and no
\* resumption spoils it.
GoodAgentsPass ==
    verdict.graded /\ runner.mode = "run" /\ faulty = {} /\ made = {} => verdict.passed

\* The library the overlays are meant to give, applied once each and in order:
\* every module is as the last overlay that has it, or else as in the repository.
Overlays(m) ==
    {j \in 1..N : steps[j].kind = "apply_overlay" /\ m \in DOMAIN steps[j].overlay.lib}

Patched ==
    [m \in DOMAIN Repo \union {m \in Modules : Overlays(m) # {}} |->
        IF Overlays(m) = {} THEN Repo[m] ELSE steps[Max(Overlays(m))].overlay.lib[m]]

\* However often a run was broken and resumed, at its end the shared workspace
\* has the library of an uninterrupted run ("to reduce workspace drift").
LibraryConverges == runner.ended /\ made = {} => lib = Patched

-----------------------------------------------------------------------------
(* What the theorems ask of the scenarios. *)

\* The library of an uninterrupted run at its n-th step, if agents make nothing.
PlanOverlays(plan, m, n) ==
    {j \in 1..n-1 : plan[j].kind = "apply_overlay" /\ m \in DOMAIN plan[j].overlay.lib}

PlannedLibrary(plan, n) ==
    [m \in DOMAIN Repo \union {m \in Modules : PlanOverlays(plan, m, n) # {}} |->
        IF PlanOverlays(plan, m, n) = {} THEN Repo[m]
        ELSE plan[Max(PlanOverlays(plan, m, n))].overlay.lib[m]]

\* No overlay makes, between two modules that a run before it has, a way of
\* imports that the run did not have; the repository has the hub.
NoLateReach ==
    /\ Hub \in DOMAIN Repo
    /\ \A s \in Scenarios : \A n \in 1..Len(ExpandSteps(s)) :
          ExpandSteps(s)[n].kind = "run_task" =>
             LET then == PlannedLibrary(ExpandSteps(s), n)
                 end == PlannedLibrary(ExpandSteps(s), Len(ExpandSteps(s)) + 1)
             IN \A x, m \in DOMAIN then :
                   m \in Reachable({x}, end) => m \in Reachable({x}, then)

\* A step puts a problem back to its fixture, or patches its Spec; after it the
\* goal can be proved.
Resets(plan, j, p) ==
    plan[j].kind = "run_task" /\ plan[j].reset /\ plan[j].variant.problem = p
Patches(plan, j, p) == plan[j].kind = "apply_overlay" /\ p \in plan[j].overlay.specs
Makes(plan, j, p) ==
    Patches(plan, j, p) \/ (Resets(plan, j, p) /\ plan[j].variant.prepared)

\* The goal can be proved before the n-th step of an uninterrupted run; and it
\* may be, where overlays were copied again over a fixture put back since.
Solvable(plan, n, p) ==
    \E j \in 1..n-1 : Makes(plan, j, p) /\ \A k \in j+1..n-1 : ~ Resets(plan, k, p)
MayBeSolvable(plan, n, p) == Solvable(plan, n, p) \/ \E j \in 1..n-1 : Patches(plan, j, p)

\* Every run of a scenario expects a success just if its goal can be proved, as
\* it is and with the overlays before it copied again.
Passable ==
    \A s \in Scenarios : \A n \in 1..Len(ExpandSteps(s)) :
        ExpandSteps(s)[n].kind = "run_task" =>
            LET plan == ExpandSteps(s)
                v == plan[n].variant
            IN IF plan[n].reset THEN v.expected = "SUCCESS" <=> v.prepared
               ELSE /\ v.expected = "SUCCESS" => Solvable(plan, n, v.problem)
                    /\ MayBeSolvable(plan, n, v.problem) => v.expected = "SUCCESS"

=============================================================================
