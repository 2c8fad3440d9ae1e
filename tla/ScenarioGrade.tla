--------------------------- MODULE ScenarioGrade ----------------------------
(***************************************************************************)
(* Agent evaluation scenarios: how scenario.yaml expands into steps        *)
(* (tools/agent_eval/run_scenario.py), and how grade_scenario.py judges    *)
(* the step directories of an eval dir.  No variables: ScenarioRun has the *)
(* runner that fills the directories and the grader that reads them.       *)
(***************************************************************************)
EXTENDS Integers, Sequences, FiniteSets, SequencesExt

CONSTANTS
    Modules,     \* tool modules: Toolbox, Incubator/Seeds, Incubator/External
    Hub,         \* LeanAtlas.Toolbox.Imports, which every Spec.lean imports
    Problems,
    TaskVariants \* task -> its variants, in the order of task.yaml

ASSUME HubAssumption == Hub \in Modules
ASSUME NamesAssumption == Modules \intersect Problems = {} /\ "none" \notin Modules

\* A task variant.  prepared: its fixture overlay makes the goal provable.
\* The expected triage family and code count as part of the status.
ReportStatuses == {"SUCCESS", "TRIAGED"}
Variant == [problem : Problems, prepared : BOOLEAN, expected : ReportStatuses]

\* A library maps every module that has a file to the tool modules it imports.
Library == UNION {[S -> SUBSET Modules] : S \in SUBSET Modules}

\* What an overlay copies: modules with their imports, and patched Spec files.
Overlay == [lib : Library, specs : SUBSET Problems]

\* An expanded step.
Step == [kind : {"run_task"}, variant : Variant, reset : BOOLEAN]
        \union [kind : {"apply_overlay"}, overlay : Overlay]
        \union [kind : {"clean", "lake_build", "run_cmd"}]

-----------------------------------------------------------------------------
(* Expansion of the scenario's steps. *)

TaskStep(v, reset) == [kind |-> "run_task", variant |-> v, reset |-> reset]

\* The runs of a pack: of each task the variants its reference lists, or else all,
\* restricted by the step's own choice of variants.
PackRuns(step) ==
    FlattenSeq([i \in 1..Len(step.refs) |->
        LET ref == step.refs[i]
            listed == IF ref.all THEN TaskVariants[ref.task] ELSE ref.variants
        IN IF ref.task \in DOMAIN step.only
           THEN SelectSeq(listed, LAMBDA v : v \in step.only[ref.task]) ELSE listed])

\* A pack: all its runs, repeated as a whole, each from a fresh fixture.
ExpandedPack(step) ==
    FlattenSeq([r \in 1..step.repeat |->
                  [i \in DOMAIN PackRuns(step) |-> TaskStep(PackRuns(step)[i], TRUE)]])

Expanded(step) ==
    CASE step.kind = "run_task" ->
           [r \in 1..step.repeat |-> TaskStep(step.variant, step.reset)]
      [] step.kind = "run_pack" -> ExpandedPack(step)
      [] OTHER -> <<step>>

ExpandSteps(steps) == FlattenSeq([i \in 1..Len(steps) |-> Expanded(steps[i])])

-----------------------------------------------------------------------------
(* What a step directory holds. *)

\* A report directory Reports/<run_id>, run_id standing for its step: missing,
\* without a complete and valid set of files, or with a report.  By is the
\* process of the runner whose agent wrote it.
NoReport == [status |-> "missing", by |-> 0]
Bare == [status |-> "bare", by |-> 0]

ReportOf(status, run) == [status |-> status, by |-> run]

\* Spec.lean and Proof.lean: free of sorry or not, and the tool modules they import.
NoProof == [done |-> FALSE, imports |-> {}]

NoSurface == {"none"}

\* An empty step directory, and none.  context is the process that wrote
\* CONTEXT.json; reports and proof are the snapshot; lib is the library when the
\* surface was taken (history for the properties).
EmptyDir(n) ==
    [made |-> TRUE, context |-> 0, surface |-> NoSurface,
     reports |-> [i \in 1..n |-> NoReport], proof |-> NoProof, lib |-> <<>>]
NoDir(n) == [EmptyDir(n) EXCEPT !.made = FALSE]

-----------------------------------------------------------------------------
(* grade_one_run_task. *)

\* snapshot/Reports/<run_id>, or else the only directory there is.
Located(dir, i) ==
    LET kids == {j \in DOMAIN dir.reports : dir.reports[j] # NoReport}
    IN CASE dir.reports[i] # NoReport -> dir.reports[i]
         [] dir.reports[i] = NoReport /\ Cardinality(kids) = 1 ->
              dir.reports[CHOOSE j \in kids : TRUE]
         [] OTHER -> NoReport

TaskPasses(dir, i, v) ==
    /\ dir.context # 0
    /\ Located(dir, i).status = v.expected
    /\ v.expected = "SUCCESS" => dir.proof.done

\* Of the other steps only the directory is looked at.
StepPasses(steps, dirs, i) ==
    IF steps[i].kind = "run_task"
    THEN TaskPasses(dirs[i], i, steps[i].variant) ELSE dirs[i].made

-----------------------------------------------------------------------------
(* The timeline of tool surfaces. *)

\* The names of the modules there are.
Surface(lib) == DOMAIN lib

\* The surface a step is compared with: of the last step before it that has
\* one, or else the baseline.
SurfaceBefore(dirs, baseline, i) ==
    LET seen == {j \in 1..i-1 : dirs[j].surface # NoSurface}
    IN CASE seen # {} -> dirs[CHOOSE j \in seen : \A k \in seen : k <= j].surface
         [] seen = {} /\ baseline # NoSurface -> baseline
         [] OTHER -> {}

\* Mutant: every step is compared with the baseline.
IntroducedSinceBaseline(dirs, baseline) ==
    {e \in Modules \X DOMAIN dirs :
        dirs[e[2]].surface # NoSurface /\ e[1] \in dirs[e[2]].surface \ baseline}

\* The pairs of a module and the step it first shows at.
Introduced(dirs, baseline) ==
    {e \in Modules \X DOMAIN dirs :
        /\ dirs[e[2]].surface # NoSurface
        /\ e[1] \in dirs[e[2]].surface \ SurfaceBefore(dirs, baseline, e[2])}

\* "operator introduced tool modules": fails the scenario.
Blamed(steps, dirs, baseline) ==
    {e \in Introduced(dirs, baseline) : steps[e[2]].kind = "run_task"}

\* Modules reachable from roots in the sources of a library.
Reachable(roots, lib) ==
    LET files == Surface(lib)
        closed == {S \in SUBSET files :
                      /\ roots \intersect files \subseteq S
                      /\ \A m \in S : lib[m] \intersect files \subseteq S}
    IN roots \union {m \in files : \A S \in closed : m \in S}

\* Mutant: steps before the introduction count as reuse.
ReusedAtAnyTime(steps, dirs, baseline, lib) ==
    {u \in Modules \X DOMAIN dirs :
        /\ steps[u[2]].kind = "run_task" /\ dirs[u[2]].surface # NoSurface
        /\ \E e \in Introduced(dirs, baseline) : e[1] = u[1]
        /\ u[1] \in Reachable(dirs[u[2]].proof.imports, lib)}

\* Which later runs an introduced module is reachable from, in the library as
\* it is when the scenario is graded.
Reused(steps, dirs, baseline, lib) ==
    {u \in Modules \X DOMAIN dirs :
        /\ steps[u[2]].kind = "run_task" /\ dirs[u[2]].surface # NoSurface
        /\ \E e \in Introduced(dirs, baseline) : e[1] = u[1] /\ e[2] < u[2]
        /\ u[1] \in Reachable(dirs[u[2]].proof.imports, lib) \intersect dirs[u[2]].surface}

-----------------------------------------------------------------------------
(* The scenario report. *)

NoVerdict == [passed |-> FALSE, blamed |-> {}, reused |-> {}, graded |-> FALSE]

\* The grader raises, and writes no report, when the directory of a run is missing.
Gradeable(steps, dirs) ==
    \A i \in DOMAIN steps : steps[i].kind = "run_task" => dirs[i].made

\* Mutant: blame is reported but does not fail the scenario.
VerdictDespiteBlame(steps, dirs, baseline, lib) ==
    [passed |-> \A i \in DOMAIN steps : StepPasses(steps, dirs, i),
     blamed |-> Blamed(steps, dirs, baseline),
     reused |-> Reused(steps, dirs, baseline, lib), graded |-> TRUE]

Verdict(steps, dirs, baseline, lib) ==
    [passed |-> /\ \A i \in DOMAIN steps : StepPasses(steps, dirs, i)
                /\ Blamed(steps, dirs, baseline) = {},
     blamed |-> Blamed(steps, dirs, baseline),
     reused |-> Reused(steps, dirs, baseline, lib), graded |-> TRUE]

=============================================================================
