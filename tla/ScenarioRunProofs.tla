------------------------- MODULE ScenarioRunProofs --------------------------
(***************************************************************************)
(* Proofs about the scenario runner, for any scenarios, libraries, fixture *)
(* and agents, and for any number of processes that break and are resumed. *)
(***************************************************************************)
EXTENDS ScenarioRun, FiniteSetTheorems, SequenceTheorems, WellFoundedInduction, TLAPS

-----------------------------------------------------------------------------
(* Types. *)

Report == [status : {"missing", "bare"} \union ReportStatuses, by : Nat]
ProofFile == [done : BOOLEAN, imports : SUBSET Modules]
Surfaces == (SUBSET Modules) \union {NoSurface}
Dir(n) == [made : BOOLEAN, context : Nat, surface : Surfaces,
           reports : [1..n -> Report], proof : ProofFile, lib : Library]
Problem(n) == [solvable : BOOLEAN, proof : ProofFile, reports : [1..n -> Report]]

\* Where a process of the runner may be.
TaskPlaces ==
    {"run_task", "context", "before", "agent", "pins", "reports", "files", "after"}
Places ==
    {"off", "copy", "step", "overlay", "apply_overlay", "clean", "lake_build", "run_cmd"}
    \union TaskPlaces

Runner == [pc : Places, mode : {"run", "materialize"}, from : Nat, step : Nat \ {0}, at : Nat,
           todo : SUBSET (Modules \union Problems), runs : Nat, ended : BOOLEAN]

Types ==
    /\ steps \in Seq(Step)
    /\ lib \in Library
    /\ problems \in [Problems -> Problem(N)]
    /\ baseline \in Surfaces
    /\ dirs \in [1..N -> Dir(N)]
    /\ runner \in Runner
    /\ made \subseteq Modules \X (1..N)

\* Where the runner is says what it works on.
Place ==
    /\ runner.step <= N + 1
    /\ runner.pc = "overlay" =>
          runner.at \in 1..runner.step-1 /\ steps[runner.at].kind = "apply_overlay"
    /\ runner.pc = "apply_overlay" => runner.at = runner.step
    /\ runner.pc \in {"overlay", "apply_overlay"} => runner.todo \subseteq Files(runner.at)
    /\ runner.pc \in {"apply_overlay", "clean", "lake_build", "run_cmd"} =>
          runner.step <= N /\ steps[runner.step].kind = runner.pc
    /\ runner.pc \in TaskPlaces => runner.step <= N /\ steps[runner.step].kind = "run_task"
    /\ runner.pc \in {"agent", "pins", "reports", "files", "after"} => runner.mode = "run"
    /\ runner.mode = "materialize" => runner.runs <= 1
    /\ runner.runs = 0 => runner.pc = "off" /\ lib = <<>> /\ baseline = NoSurface
    /\ runner.ended => runner.pc = "off" /\ runner.step = N + 1 /\ baseline # NoSurface
    /\ runner.pc = "copy" => runner.todo \subseteq DOMAIN Repo /\ baseline = NoSurface
    /\ runner.pc \notin {"off", "copy"} => baseline # NoSurface
    /\ baseline = NoSurface => runner.step = 1 /\ made = {}
    /\ verdict.graded => runner.pc = "off" /\ runner.runs > 0

Shape == Types /\ Place

\* The steps by their kinds.
LEMMA StepKinds ==
    ASSUME steps \in Seq(Step), NEW i \in 1..N
    PROVE  /\ steps[i].kind \in {"run_task", "apply_overlay", "clean", "lake_build", "run_cmd"}
           /\ steps[i].kind = "run_task" => steps[i].variant \in Variant
           /\ steps[i].kind = "apply_overlay" => steps[i].overlay \in Overlay
           /\ N \in Nat
<1>1. N \in Nat /\ steps[i] \in Step
  BY DEF N
<1>2. CASE steps[i] \in [kind : {"run_task"}, variant : Variant, reset : BOOLEAN]
  BY <1>1, <1>2
<1>3. CASE steps[i] \in [kind : {"apply_overlay"}, overlay : Overlay]
  BY <1>1, <1>3
<1>4. CASE steps[i] \in [kind : {"clean", "lake_build", "run_cmd"}]
  BY <1>1, <1>4
<1> QED
  BY <1>1, <1>2, <1>3, <1>4 DEF Step

LEMMA LibraryIs ==
    ASSUME NEW l
    PROVE  l \in Library <=> DOMAIN l \in SUBSET Modules /\ l \in [DOMAIN l -> SUBSET Modules]
<1>1. ASSUME l \in Library
      PROVE  DOMAIN l \in SUBSET Modules /\ l \in [DOMAIN l -> SUBSET Modules]
  <2>1. PICK S \in SUBSET Modules : l \in [S -> SUBSET Modules]
    BY <1>1 DEF Library
  <2> QED
    BY <2>1
<1> QED
  BY <1>1 DEF Library

\* Writing a module's file.
LEMMA WithIs ==
    ASSUME lib \in Library, NEW m \in Modules, NEW imports \in SUBSET Modules
    PROVE  /\ With(m, imports) \in Library
           /\ DOMAIN With(m, imports) = DOMAIN lib \union {m}
           /\ With(m, imports)[m] = imports
           /\ \A x \in DOMAIN lib : x # m => With(m, imports)[x] = lib[x]
<1>1. DOMAIN lib \in SUBSET Modules /\ lib \in [DOMAIN lib -> SUBSET Modules]
  BY LibraryIs
<1>2. DOMAIN With(m, imports) = DOMAIN lib \union {m}
  BY DEF With
<1>3. With(m, imports) \in [DOMAIN lib \union {m} -> SUBSET Modules]
  BY <1>1 DEF With
<1>4. With(m, imports) \in Library
  BY <1>1, <1>2, <1>3, LibraryIs
<1> QED
  BY <1>2, <1>4 DEF With

\* What an overlay holds.
LEMMA OverlayIs ==
    ASSUME steps \in Seq(Step), NEW j \in 1..N, steps[j].kind = "apply_overlay"
    PROVE  /\ DOMAIN steps[j].overlay.lib \subseteq Modules
           /\ steps[j].overlay.specs \subseteq Problems
           /\ Files(j) = DOMAIN steps[j].overlay.lib \union steps[j].overlay.specs
           /\ \A m \in DOMAIN steps[j].overlay.lib : steps[j].overlay.lib[m] \in SUBSET Modules
<1>1. steps[j].overlay \in Overlay
  BY StepKinds
<1>2. steps[j].overlay.lib \in Library /\ steps[j].overlay.specs \in SUBSET Problems
  BY <1>1 DEF Overlay
<1> DEFINE l == steps[j].overlay.lib
<1>3. DOMAIN l \in SUBSET Modules /\ l \in [DOMAIN l -> SUBSET Modules]
  BY <1>2, LibraryIs
<1>4. Files(j) = DOMAIN l \union steps[j].overlay.specs
  BY DEF Files
<1> QED
  BY <1>2, <1>3, <1>4

LEMMA LeastNatural ==
    ASSUME NEW S \in SUBSET Nat, S # {}
    PROVE  \E n \in S : \A m \in S : n <= m
<1>1. PICK n \in S : \A m \in S : ~ (<<m, n>> \in OpToRel(<, Nat))
  BY NatLessThanWellFounded, WFMin
<1>2. \A m \in S : m \in Nat /\ n \in Nat
  OBVIOUS
<1>3. \A m \in S : ~ (m < n)
  BY <1>1, <1>2 DEF OpToRel
<1> QED
  BY <1>2, <1>3

LEMMA NextOverlayIs ==
    ASSUME NEW at \in Nat \ {0}, NEW k \in Nat, at <= k
    PROVE  /\ NextOverlay(at, k) \in at..k
           /\ NextOverlay(at, k) < k => steps[NextOverlay(at, k)].kind = "apply_overlay"
           /\ \A j \in at..k-1 : steps[j].kind = "apply_overlay" => NextOverlay(at, k) <= j
<1> DEFINE later == {j \in at..k-1 : steps[j].kind = "apply_overlay"}
<1>1. CASE later = {}
  BY <1>1 DEF NextOverlay
<1>2. CASE later # {}
  <2>1. \E n \in later : \A m \in later : n <= m
    <3>1. later \in SUBSET Nat
      OBVIOUS
    <3> QED
      BY <1>2, <3>1, LeastNatural
  <2>2. Min(later) \in later /\ \A m \in later : Min(later) <= m
    BY <2>1 DEF Min
  <2>3. NextOverlay(at, k) = Min(later)
    BY <1>2 DEF NextOverlay
  <2> QED
    BY <2>2, <2>3
<1> QED
  BY <1>1, <1>2

-----------------------------------------------------------------------------
(* What the steps do. *)

\* The process is at a place, and a step, and otherwise as it was.
Moved(pc, step) ==
    /\ runner' \in Runner
    /\ runner'.pc = pc /\ runner'.step = step
    /\ runner'.mode = runner.mode /\ runner'.from = runner.from
    /\ runner'.at = runner.at /\ runner'.todo = runner.todo
    /\ runner'.runs = runner.runs /\ runner'.ended = runner.ended

LEMMA MovesTo ==
    ASSUME runner \in Runner, NEW pc \in Places, runner' = [runner EXCEPT !.pc = pc]
    PROVE  Moved(pc, runner.step)
BY DEF Runner, Moved

LEMMA OnwardIs ==
    ASSUME runner \in Runner, Onward
    PROVE  Moved("step", runner.step + 1)
<1>1. "step" \in Places /\ runner.step + 1 \in Nat \ {0}
  BY DEF Places, Runner
<1>2. runner' = [runner EXCEPT !.pc = "step", !.step = runner.step + 1]
  BY DEF Onward, Runner
<1> HIDE DEF Places
<1> QED
  BY <1>1, <1>2 DEF Runner, Moved

\* The surface is written into the directory of a step, which is otherwise as it was.
Surfaced(i) ==
    /\ dirs' \in [1..N -> Dir(N)]
    /\ \A j \in 1..N : j # i => dirs'[j] = dirs[j]
    /\ dirs'[i].surface = DOMAIN lib /\ dirs'[i].lib = lib
    /\ dirs'[i].made = dirs[i].made
    /\ dirs'[i].context = dirs[i].context
    /\ dirs'[i].reports = dirs[i].reports
    /\ dirs'[i].proof = dirs[i].proof

LEMMA SurfacedIs ==
    ASSUME Types, NEW i \in 1..N, WriteSurface(i)
    PROVE  Surfaced(i)
<1>1. DOMAIN lib \in Surfaces /\ lib \in Library
  BY LibraryIs DEF Types, Surfaces
<1>2. dirs[i] \in Dir(N) /\ dirs' = [dirs EXCEPT ![i].surface = DOMAIN lib, ![i].lib = lib]
  BY DEF Types, WriteSurface, Surface
<1>3. [dirs[i] EXCEPT !.surface = DOMAIN lib, !.lib = lib] \in Dir(N)
  BY <1>1, <1>2 DEF Dir
<1>4. dirs' = [dirs EXCEPT ![i] = [dirs[i] EXCEPT !.surface = DOMAIN lib, !.lib = lib]]
  BY <1>2
<1> QED
  BY <1>2, <1>3, <1>4 DEF Surfaced, Types, Dir


\* Types of the rest, when only some of the variables are written.
LEMMA TypesOf ==
    ASSUME Types, steps' = steps, lib' \in Library, problems' \in [Problems -> Problem(N)],
           baseline' \in Surfaces, dirs' \in [1..N -> Dir(N)], runner' \in Runner,
           made' \subseteq Modules \X (1..N)
    PROVE  Types' /\ N' = N
<1>1. N' = N
  BY DEF N
<1> QED
  BY <1>1 DEF Types, Dir, Problem, Runner

LEMMA StartIs ==
    ASSUME Shape, NEW mode \in {"run", "materialize"}, Start(mode)
    PROVE  /\ Types' /\ UNCHANGED <<steps, lib, problems, baseline, dirs, verdict, made>>
           /\ runner.runs = 0 /\ runner'.runs = 1 /\ runner'.mode = mode
           /\ runner'.pc = "copy" /\ runner'.todo = DOMAIN Repo
           /\ runner'.step = runner.step /\ runner'.ended = runner.ended
<1>1. DOMAIN Repo \in SUBSET Modules
  BY ScenariosAssumption, LibraryIs
<1>2. /\ runner' \in Runner /\ runner'.runs = 1 /\ runner'.mode = mode
      /\ runner'.pc = "copy" /\ runner'.todo = DOMAIN Repo
      /\ runner'.step = runner.step /\ runner'.ended = runner.ended
  BY <1>1 DEF Start, Shape, Types, Runner, Places
<1> QED
  BY <1>2, TypesOf DEF Start, Shape, Types

LEMMA CopySkeletonIs ==
    ASSUME Shape, NEW m \in Modules, CopySkeleton(m)
    PROVE  /\ Types' /\ UNCHANGED <<steps, problems, baseline, dirs, verdict, made>>
           /\ runner.pc = "copy" /\ m \in runner.todo /\ m \in DOMAIN Repo
           /\ lib' = With(m, Repo[m]) /\ Repo[m] \in SUBSET Modules
           /\ runner'.pc = "copy" /\ runner'.todo = runner.todo \ {m}
           /\ runner'.mode = runner.mode /\ runner'.runs = runner.runs
           /\ runner'.step = runner.step /\ runner'.ended = runner.ended
<1>1. runner.pc = "copy" /\ m \in runner.todo /\ m \in DOMAIN Repo
  BY DEF CopySkeleton, Shape, Place
<1>2. Repo[m] \in SUBSET Modules
  BY <1>1, ScenariosAssumption, LibraryIs
<1>3. With(m, Repo[m]) \in Library
  BY <1>2, WithIs DEF Shape, Types
<1>4. /\ runner' \in Runner /\ runner'.pc = "copy" /\ runner'.todo = runner.todo \ {m}
      /\ runner'.mode = runner.mode /\ runner'.runs = runner.runs
      /\ runner'.step = runner.step /\ runner'.ended = runner.ended
  BY <1>1 DEF CopySkeleton, Shape, Types, Runner
<1> QED
  BY <1>1, <1>2, <1>3, <1>4, TypesOf DEF CopySkeleton, Shape, Types

LEMMA TakeBaselineIs ==
    ASSUME Shape, TakeBaseline
    PROVE  /\ Types' /\ UNCHANGED <<steps, lib, problems, dirs, verdict, made>>
           /\ runner.pc = "copy" /\ runner.todo = {}
           /\ baseline' = DOMAIN lib /\ baseline' # NoSurface
           /\ Moved("step", runner.step)
<1>1. DOMAIN lib \in SUBSET Modules
  BY LibraryIs DEF Shape, Types
<1>2. DOMAIN lib \in Surfaces /\ DOMAIN lib # NoSurface
  BY <1>1, NamesAssumption DEF Surfaces, NoSurface
<1>3. Moved("step", runner.step)
  BY MovesTo DEF TakeBaseline, Shape, Types, Places
<1> QED
  BY <1>2, <1>3, TypesOf DEF TakeBaseline, Surface, Shape, Types, Moved

\* What the operators of the proofs do.
Orderly == Operator \in {"careful", "restarts"}

LEMMA ResumeIs ==
    ASSUME Shape, Orderly, NEW k \in 1..N, NEW reapply \in BOOLEAN, Resume(k, reapply)
    PROVE  /\ Types' /\ UNCHANGED <<steps, lib, problems, baseline, dirs, verdict, made>>
           /\ runner.pc = "off" /\ ~verdict.graded /\ baseline # NoSurface
           /\ k <= runner.step /\ runner.mode = "run" /\ runner'.mode = "run"
           /\ Operator = "careful" => k = runner.step /\ ~runner.ended
           /\ runner'.step = k /\ ~runner'.ended
           /\ runner'.runs = runner.runs + 1 /\ runner.runs \in Nat
           /\ runner'.at \in 1..k
           /\ \A j \in 1..k-1 : steps[j].kind = "apply_overlay" => runner'.at <= j
           /\ runner'.at < k => steps[runner'.at].kind = "apply_overlay"
           /\ IF runner'.at < k
              THEN runner'.pc = "overlay" /\ runner'.todo = Files(runner'.at)
              ELSE runner'.pc = "step"
<1> DEFINE at == NextOverlay(1, k)
<1>1. /\ MayResume(k, reapply) /\ Operator # "any" /\ k \in Nat \ {0} /\ N \in Nat
      /\ runner.pc = "off" /\ ~verdict.graded
  BY DEF Resume, Orderly, Shape, Types, N
<1>2. /\ baseline # NoSurface /\ runner.mode = "run" /\ reapply
      /\ IF Operator = "restarts" THEN k <= runner.step
         ELSE k = runner.step /\ ~runner.ended
  BY <1>1 DEF MayResume
<1>3. k <= runner.step /\ (Operator = "careful" => k = runner.step /\ ~runner.ended)
  BY <1>2, <1>1 DEF Shape, Types, Runner
<1>4. /\ at \in 1..k /\ (at < k => steps[at].kind = "apply_overlay")
      /\ \A j \in 1..k-1 : steps[j].kind = "apply_overlay" => at <= j
  <2>1. 1 \in Nat \ {0} /\ k \in Nat /\ 1 <= k
    BY <1>1
  <2>2. NextOverlay(1, k) \in 1..k
          /\ (NextOverlay(1, k) < k => steps[NextOverlay(1, k)].kind = "apply_overlay")
          /\ \A j \in 1..k-1 : steps[j].kind = "apply_overlay" => NextOverlay(1, k) <= j
    BY <2>1, NextOverlayIs
  <2> QED
    BY <2>2
<1>5. Files(at) \subseteq Modules \union Problems
  <2>1. CASE at < k
    BY <1>1, <1>4, <2>1, OverlayIs DEF Shape, Types
  <2>2. CASE steps[at].kind # "apply_overlay"
    BY <2>2 DEF Files
  <2> QED
    BY <1>1, <2>1, <2>2, <1>4, OverlayIs DEF Shape, Types
<1>6. runner' = [runner EXCEPT !.pc = IF at < k THEN "overlay" ELSE "step",
                               !.mode = "run", !.from = k, !.step = k, !.at = at,
                               !.todo = IF at < k THEN Files(at) ELSE {},
                               !.runs = @ + 1, !.ended = FALSE]
  BY <1>2 DEF Resume
<1> DEFINE runs == runner.runs + 1
<1>7. runs \in Nat /\ runner.runs \in Nat
  BY DEF Shape, Types, Runner
<1> HIDE DEF at, runs
<1>8. /\ runner' \in Runner /\ runner'.mode = "run" /\ runner'.step = k /\ ~runner'.ended
      /\ runner'.runs = runs /\ runner'.at = at
      /\ IF at < k THEN runner'.pc = "overlay" /\ runner'.todo = Files(at)
         ELSE runner'.pc = "step"
  <2>1. runner \in Runner /\ k \in Nat \ {0} /\ at \in Nat
    BY <1>1, <1>4 DEF Shape, Types
  <2>2. CASE at < k
    <3>1. runner' = [runner EXCEPT !.pc = "overlay", !.mode = "run", !.from = k, !.step = k,
                                   !.at = at, !.todo = Files(at), !.runs = runs,
                                   !.ended = FALSE]
      BY <1>6, <2>2 DEF runs
    <3> QED
      BY <1>5, <1>7, <2>1, <2>2, <3>1 DEF Runner, Places
  <2>3. CASE ~(at < k)
    <3>1. runner' = [runner EXCEPT !.pc = "step", !.mode = "run", !.from = k, !.step = k,
                                   !.at = at, !.todo = {}, !.runs = runs, !.ended = FALSE]
      BY <1>6, <2>3 DEF runs
    <3> QED
      BY <1>7, <2>1, <2>3, <3>1 DEF Runner, Places
  <2> QED
    BY <2>2, <2>3
<1> QED
  BY <1>1, <1>2, <1>3, <1>4, <1>7, <1>8, TypesOf DEF Resume, Shape, Types, at, runs

LEMMA BreakIs ==
    ASSUME Shape, Break
    PROVE  /\ Types' /\ UNCHANGED <<steps, lib, problems, baseline, dirs, verdict, made>>
           /\ runner.pc # "off" /\ Moved("off", runner.step)
<1>1. Moved("off", runner.step)
  BY MovesTo DEF Break, Shape, Types, Places
<1> QED
  BY <1>1, TypesOf DEF Break, Shape, Types, Moved

LEMMA AllStepsIs ==
    ASSUME Shape, AllSteps
    PROVE  /\ Types' /\ UNCHANGED <<steps, lib, problems, baseline, dirs, verdict, made>>
           /\ runner.pc = "step" /\ runner.step = N + 1
           /\ runner'.pc = "off" /\ runner'.step = runner.step
           /\ runner'.mode = runner.mode /\ runner'.runs = runner.runs
<1>1. /\ runner' \in Runner
      /\ runner'.pc = "off" /\ runner'.step = runner.step
      /\ runner'.mode = runner.mode /\ runner'.runs = runner.runs
  BY DEF AllSteps, Shape, Types, Runner, Places
<1>2. runner.pc = "step" /\ runner.step = N + 1
  BY DEF AllSteps, Shape, Types, Place, Runner, N
<1> QED
  BY <1>1, <1>2, TypesOf DEF AllSteps, Shape, Types

\* The step the runner is at.
LEMMA CurrentStep ==
    ASSUME Shape, runner.step <= N
    PROVE  runner.step \in 1..N /\ N \in Nat /\ dirs[runner.step] \in Dir(N)
BY DEF Shape, Types, Runner, N

LEMMA BeginStepIs ==
    ASSUME Shape, BeginStep
    PROVE  /\ Types' /\ UNCHANGED <<steps, lib, problems, baseline, verdict, made>>
           /\ runner.pc = "step" /\ runner.step \in 1..N
           /\ \A j \in 1..N : j # runner.step => dirs'[j] = dirs[j]
           /\ \/ dirs'[runner.step].reports = dirs[runner.step].reports
              \/ \A j \in 1..N : dirs'[runner.step].reports[j] = NoReport
           /\ runner'.pc = steps[runner.step].kind
           /\ runner'.at = runner.step /\ runner'.todo = Files(runner.step)
           /\ runner'.step = runner.step /\ runner'.ended = runner.ended
           /\ runner'.mode = runner.mode /\ runner'.runs = runner.runs
<1> DEFINE i == runner.step
<1>1. runner.pc = "step" /\ i \in 1..N /\ dirs[i] \in Dir(N) /\ N \in Nat
  BY CurrentStep DEF BeginStep
<1>2. steps[i].kind \in Places /\ Files(i) \in SUBSET (Modules \union Problems)
  <2>1. steps[i].kind \in {"run_task", "apply_overlay", "clean", "lake_build", "run_cmd"}
    BY <1>1, StepKinds DEF Shape, Types
  <2>2. Files(i) \in SUBSET (Modules \union Problems)
    <3>1. CASE steps[i].kind = "apply_overlay"
      BY <1>1, <3>1, OverlayIs DEF Shape, Types
    <3>2. CASE steps[i].kind # "apply_overlay"
      BY <3>2 DEF Files
    <3> QED
      BY <3>1, <3>2
  <2> QED
    BY <2>1, <2>2 DEF Places, TaskPlaces
<1>3. /\ runner' = [runner EXCEPT !.pc = steps[i].kind, !.at = i, !.todo = Files(i)]
      /\ runner \in Runner /\ i \in Nat
  BY <1>1 DEF BeginStep, Shape, Types
<1>4. EmptyDir(N) \in Dir(N) /\ \A j \in 1..N : EmptyDir(N).reports[j] = NoReport
  <2>1. <<>> \in Library
    <3>1. <<>> \in [{} -> SUBSET Modules]
      OBVIOUS
    <3> QED
      BY <3>1 DEF Library
  <2>2. NoReport \in Report /\ NoProof \in ProofFile /\ NoSurface \in Surfaces
    <3>1. NoReport \in Report
      BY DEF NoReport, Report
    <3>2. NoProof \in ProofFile
      BY DEF NoProof, ProofFile
    <3>3. NoSurface \in Surfaces
      BY DEF Surfaces
    <3> QED
      BY <3>1, <3>2, <3>3
  <2> QED
    BY <2>1, <2>2 DEF EmptyDir, Dir
<1>5. PICK d \in Dir(N) : /\ dirs' = [dirs EXCEPT ![i] = d]
                          /\ \/ d.reports = dirs[i].reports
                             \/ \A j \in 1..N : d.reports[j] = NoReport
  <2>1. [dirs[i] EXCEPT !.made = TRUE] \in Dir(N)
          /\ [dirs[i] EXCEPT !.made = TRUE].reports = dirs[i].reports
    BY <1>1 DEF Dir
  <2>2. dirs' = [dirs EXCEPT ![i] = IF Resumed /\ i = runner.from
                                    THEN EmptyDir(N) ELSE [@ EXCEPT !.made = TRUE]]
    BY DEF BeginStep
  <2>3. CASE Resumed /\ i = runner.from
    BY <1>4, <2>2, <2>3
  <2>4. CASE ~(Resumed /\ i = runner.from)
    <3>1. dirs' = [dirs EXCEPT ![i] = [dirs[i] EXCEPT !.made = TRUE]]
      BY <1>1, <2>2, <2>4 DEF Shape, Types
    <3> QED
      BY <2>1, <3>1
  <2> QED
    BY <2>3, <2>4
<1>6. dirs' \in [1..N -> Dir(N)] /\ dirs'[i] = d /\ \A j \in 1..N : j # i => dirs'[j] = dirs[j]
  BY <1>1, <1>5 DEF Shape, Types
<1> HIDE DEF i
<1>7. /\ runner' \in Runner /\ runner'.pc = steps[i].kind
      /\ runner'.at = i /\ runner'.todo = Files(i)
      /\ runner'.step = runner.step /\ runner'.ended = runner.ended
      /\ runner'.mode = runner.mode /\ runner'.runs = runner.runs
  BY <1>2, <1>3 DEF Runner
<1> QED
  BY <1>1, <1>5, <1>6, <1>7, TypesOf DEF BeginStep, Shape, Types, i

LEMMA CopyFileIs ==
    ASSUME Shape, NEW f \in Modules \union Problems, CopyFile(f)
    PROVE  /\ Types' /\ UNCHANGED <<steps, baseline, dirs, verdict, made>>
           /\ runner.pc \in {"overlay", "apply_overlay"}
           /\ runner.at \in 1..N /\ f \in runner.todo
           /\ steps[runner.at].kind = "apply_overlay"
           /\ f \in Modules =>
                 /\ f \in DOMAIN steps[runner.at].overlay.lib
                 /\ lib' = With(f, steps[runner.at].overlay.lib[f])
                 /\ steps[runner.at].overlay.lib[f] \in SUBSET Modules
           /\ f \notin Modules => lib' = lib
           /\ runner'.todo = runner.todo \ {f} /\ runner'.pc = runner.pc
           /\ runner'.at = runner.at /\ runner'.step = runner.step
           /\ runner'.mode = runner.mode /\ runner'.runs = runner.runs
           /\ runner'.ended = runner.ended
<1> DEFINE o == steps[runner.at].overlay
<1>1. /\ runner.pc \in {"overlay", "apply_overlay"} /\ f \in runner.todo
      /\ runner.at \in 1..N /\ steps[runner.at].kind = "apply_overlay"
      /\ f \in Files(runner.at)
  BY DEF CopyFile, Shape, Types, Place, Runner, N
<1>2. /\ DOMAIN o.lib \subseteq Modules /\ o.specs \subseteq Problems
      /\ Files(runner.at) = DOMAIN o.lib \union o.specs
      /\ \A m \in DOMAIN o.lib : o.lib[m] \in SUBSET Modules
  BY <1>1, OverlayIs DEF Shape, Types
<1>3. IF f \in Modules THEN lib' = With(f, o.lib[f]) /\ problems' = problems
      ELSE problems' = [problems EXCEPT ![f].solvable = TRUE] /\ lib' = lib
  BY DEF CopyFile
<1> HIDE DEF o
<1>4. f \in Modules => f \in DOMAIN o.lib /\ o.lib[f] \in SUBSET Modules
  BY <1>1, <1>2, NamesAssumption
<1>5. lib' \in Library
  <2>1. lib \in Library
    BY DEF Shape, Types
  <2>2. CASE f \in Modules
    <3>1. o.lib[f] \in SUBSET Modules
      BY <1>4, <2>2
    <3>2. With(f, o.lib[f]) \in Library
      BY <2>1, <2>2, <3>1, WithIs
    <3> QED
      BY <1>3, <2>2, <3>2
  <2>3. CASE f \notin Modules
    BY <1>3, <2>1, <2>3
  <2> QED
    BY <2>2, <2>3
<1>6. problems' \in [Problems -> Problem(N)]
  <2>1. problems \in [Problems -> Problem(N)]
    BY DEF Shape, Types
  <2>2. CASE f \in Problems
    <3>1. [problems[f] EXCEPT !.solvable = TRUE] \in Problem(N)
      BY <2>1, <2>2 DEF Problem
    <3>2. f \notin Modules
      BY <2>2, NamesAssumption
    <3>3. problems' = [problems EXCEPT ![f] = [problems[f] EXCEPT !.solvable = TRUE]]
      BY <1>3, <3>2
    <3> QED
      BY <2>1, <3>1, <3>3
  <2> QED
    BY <1>3, <2>1, <2>2
<1>7. /\ runner' \in Runner
      /\ runner'.todo = runner.todo \ {f} /\ runner'.pc = runner.pc
      /\ runner'.at = runner.at /\ runner'.step = runner.step
      /\ runner'.mode = runner.mode /\ runner'.runs = runner.runs
      /\ runner'.ended = runner.ended
  BY DEF CopyFile, Shape, Types, Runner
<1> QED
  BY <1>1, <1>3, <1>4, <1>5, <1>6, <1>7, TypesOf DEF CopyFile, Shape, Types, o

LEMMA NextReplayIs ==
    ASSUME Shape, NextReplay
    PROVE  /\ Types' /\ UNCHANGED <<steps, lib, problems, baseline, dirs, verdict, made>>
           /\ runner.pc = "overlay" /\ runner.todo = {} /\ runner.at \in 1..runner.step-1
           /\ runner'.at = NextOverlay(runner.at + 1, runner.step)
           /\ runner'.at \in runner.at+1..runner.step
           /\ \A j \in runner.at+1..runner.step-1 :
                 steps[j].kind = "apply_overlay" => runner'.at <= j
           /\ IF runner'.at < runner.step
              THEN /\ runner'.pc = "overlay" /\ steps[runner'.at].kind = "apply_overlay"
                   /\ runner'.todo = Files(runner'.at)
              ELSE runner'.pc = "step"
           /\ runner'.step = runner.step /\ runner'.ended = runner.ended
           /\ runner'.mode = runner.mode /\ runner'.runs = runner.runs
<1> DEFINE k == runner.step
           at == NextOverlay(runner.at + 1, k)
<1>1. /\ runner.pc = "overlay" /\ runner.todo = {} /\ runner.at \in 1..k-1
      /\ k \in Nat \ {0} /\ N \in Nat /\ k <= N + 1 /\ runner.at \in Nat
  BY DEF NextReplay, Shape, Types, Place, Runner, N
<1>2. /\ at \in runner.at+1..k
      /\ at < k => steps[at].kind = "apply_overlay"
      /\ \A j \in runner.at+1..k-1 : steps[j].kind = "apply_overlay" => at <= j
  <2>1. runner.at + 1 \in Nat \ {0} /\ k \in Nat /\ runner.at + 1 <= k
    BY <1>1
  <2> QED
    BY <2>1, NextOverlayIs
<1>3. at < k => at \in 1..N /\ Files(at) \in SUBSET (Modules \union Problems)
  <2> SUFFICES ASSUME at < k
               PROVE  at \in 1..N /\ Files(at) \in SUBSET (Modules \union Problems)
    OBVIOUS
  <2>1. at \in 1..N
    BY <1>1, <1>2
  <2> QED
    BY <1>2, <2>1, OverlayIs DEF Shape, Types
<1>4. runner' = [runner EXCEPT !.pc = IF at < k THEN "overlay" ELSE "step",
                               !.at = at,
                               !.todo = IF at < k THEN Files(at) ELSE {}]
  BY DEF NextReplay
<1>5. runner \in Runner /\ at \in Nat
  BY <1>1, <1>2 DEF Shape, Types
<1> HIDE DEF at, k
<1>6. /\ runner' \in Runner /\ runner'.at = at
      /\ IF at < k THEN runner'.pc = "overlay" /\ runner'.todo = Files(at)
                   ELSE runner'.pc = "step"
      /\ runner'.step = runner.step /\ runner'.ended = runner.ended
      /\ runner'.mode = runner.mode /\ runner'.runs = runner.runs
  <2>1. CASE at < k
    <3>1. runner' = [runner EXCEPT !.pc = "overlay", !.at = at, !.todo = Files(at)]
      BY <1>4, <2>1
    <3> QED
      BY <1>3, <1>5, <2>1, <3>1 DEF Runner, Places
  <2>2. CASE ~(at < k)
    <3>1. runner' = [runner EXCEPT !.pc = "step", !.at = at, !.todo = {}]
      BY <1>4, <2>2
    <3> QED
      BY <1>5, <2>2, <3>1 DEF Runner, Places
  <2> QED
    BY <2>1, <2>2
<1>7. Types'
  BY <1>6, TypesOf DEF NextReplay, Shape, Types
<1> QED
  BY <1>1, <1>2, <1>6, <1>7 DEF NextReplay, at, k

\* Steps that end with writing the surface.
LEMMA EndIs ==
    ASSUME Shape, runner.step <= N, WriteSurface(runner.step), Onward,
           steps' = steps, UNCHANGED <<lib, baseline, made>>,
           problems' \in [Problems -> Problem(N)]
    PROVE  Types' /\ Surfaced(runner.step) /\ Moved("step", runner.step + 1)
<1>1. runner.step \in 1..N
  BY CurrentStep
<1>2. Surfaced(runner.step)
  BY <1>1, SurfacedIs DEF Shape
<1>3. Moved("step", runner.step + 1)
  BY OnwardIs DEF Shape, Types
<1> QED
  BY <1>2, <1>3, TypesOf DEF Shape, Types, Surfaced, Moved

\* An overlay is applied, the reports are cleaned, or a command has run.
Plain == OverlayApplied \/ Clean \/ Command

LEMMA PlainIs ==
    ASSUME Shape, Plain
    PROVE  /\ Types' /\ UNCHANGED <<steps, lib, baseline, verdict, made>>
           /\ runner.step \in 1..N /\ steps[runner.step].kind = runner.pc
           /\ runner.pc \in {"apply_overlay", "clean", "lake_build", "run_cmd"}
           /\ runner.pc = "apply_overlay" => runner.todo = {} /\ runner.at = runner.step
           /\ Surfaced(runner.step) /\ Moved("step", runner.step + 1)
<1>1. /\ runner.pc \in {"apply_overlay", "clean", "lake_build", "run_cmd"}
      /\ runner.pc = "apply_overlay" => runner.todo = {}
      /\ WriteSurface(runner.step) /\ Onward
      /\ UNCHANGED <<steps, lib, baseline, verdict, made>>
  BY DEF Plain, OverlayApplied, Clean, Command
<1>2. runner.step \in 1..N /\ steps[runner.step].kind = runner.pc /\ runner.step <= N
  BY <1>1, CurrentStep DEF Shape, Place
<1>3. problems' \in [Problems -> Problem(N)]
  <2>1. CASE Clean
    <3>1. NoReport \in Report
      BY DEF NoReport, Report
    <3>2. ASSUME NEW p \in Problems
          PROVE  [problems[p] EXCEPT !.reports = [i \in 1..N |-> NoReport]] \in Problem(N)
      BY <3>1 DEF Shape, Types, Problem
    <3> QED
      BY <2>1, <3>2 DEF Clean
  <2>2. CASE problems' = problems
    BY <2>2 DEF Shape, Types
  <2> QED
    BY <2>1, <2>2 DEF Plain, OverlayApplied, Command
<1>4. Types' /\ Surfaced(runner.step) /\ Moved("step", runner.step + 1)
  BY <1>1, <1>2, <1>3, EndIs
<1> QED
  BY <1>1, <1>2, <1>4 DEF Shape, Place

\* The task of the step the runner is at.
LEMMA CurrentTask ==
    ASSUME Shape, runner.pc \in TaskPlaces
    PROVE  /\ runner.step \in 1..N /\ runner.step <= N /\ N \in Nat
           /\ steps[runner.step].kind = "run_task"
           /\ Task.problem \in Problems /\ Task.prepared \in BOOLEAN
           /\ Task.expected \in ReportStatuses
           /\ problems[Task.problem] \in Problem(N)
<1>1. runner.step <= N /\ steps[runner.step].kind = "run_task"
  BY DEF Shape, Place
<1>2. runner.step \in 1..N /\ N \in Nat
  BY <1>1, CurrentStep
<1>3. Task \in Variant
  BY <1>1, <1>2, StepKinds DEF Shape, Types, Task
<1> QED
  BY <1>1, <1>2, <1>3 DEF Variant, Shape, Types

LEMMA MaterializeIs ==
    ASSUME Shape, Materialize
    PROVE  /\ Types' /\ UNCHANGED <<steps, lib, baseline, dirs, verdict, made>>
           /\ runner.pc = "run_task" /\ Moved("context", runner.step)
           /\ steps[runner.step].reset =>
                 \A j \in 1..N : problems'[Task.problem].reports[j] = NoReport
<1>1. runner.pc = "run_task" /\ runner.pc \in TaskPlaces
  BY DEF Materialize, TaskPlaces
<1>2. Moved("context", runner.step)
  BY MovesTo DEF Materialize, Shape, Types, Places, TaskPlaces
<1>3. Fixture(Task) \in Problem(N) /\ \A j \in 1..N : Fixture(Task).reports[j] = NoReport
  <2>1. NoReport \in Report
    BY DEF NoReport, Report
  <2>2. [done |-> FALSE, imports |-> {Hub}] \in ProofFile
    BY HubAssumption DEF ProofFile
  <2>3. Task.prepared \in BOOLEAN
    BY <1>1, CurrentTask
  <2> QED
    BY <2>1, <2>2, <2>3 DEF Fixture, Problem
<1>4. problems' = IF steps[runner.step].reset
                  THEN [problems EXCEPT ![Task.problem] = Fixture(Task)] ELSE problems
  BY DEF Materialize
<1>5. problems \in [Problems -> Problem(N)] /\ Task.problem \in Problems
  BY <1>1, CurrentTask DEF Shape, Types
<1>6. /\ problems' \in [Problems -> Problem(N)]
      /\ steps[runner.step].reset =>
            \A j \in 1..N : problems'[Task.problem].reports[j] = NoReport
  BY <1>3, <1>4, <1>5
<1> QED
  BY <1>1, <1>2, <1>6, TypesOf DEF Materialize, Shape, Types, Moved

LEMMA WriteRunFilesIs ==
    ASSUME Shape, WriteRunFiles
    PROVE  /\ Types' /\ UNCHANGED <<steps, lib, problems, baseline, verdict, made>>
           /\ runner.pc = "context" /\ Moved("before", runner.step)
           /\ \A j \in 1..N : j # runner.step => dirs'[j] = dirs[j]
           /\ dirs'[runner.step].context = runner.runs
           /\ dirs'[runner.step].reports = dirs[runner.step].reports
<1> DEFINE i == runner.step
<1>1. runner.pc = "context" /\ runner.pc \in TaskPlaces
  BY DEF WriteRunFiles, TaskPlaces
<1>2. i \in 1..N /\ dirs[i] \in Dir(N) /\ runner.runs \in Nat
  BY <1>1, CurrentTask, CurrentStep DEF Shape, Types, Runner
<1>3. [dirs[i] EXCEPT !.context = runner.runs] \in Dir(N)
  BY <1>2 DEF Dir
<1>4. dirs' = [dirs EXCEPT ![i] = [dirs[i] EXCEPT !.context = runner.runs]]
  BY <1>2 DEF WriteRunFiles, Shape, Types
<1>5. /\ dirs' \in [1..N -> Dir(N)] /\ \A j \in 1..N : j # i => dirs'[j] = dirs[j]
      /\ dirs'[i].context = runner.runs /\ dirs'[i].reports = dirs[i].reports
  BY <1>2, <1>3, <1>4 DEF Shape, Types, Dir
<1>6. Moved("before", i)
  BY MovesTo DEF WriteRunFiles, Shape, Types, Places, TaskPlaces
<1> QED
  BY <1>1, <1>5, <1>6, TypesOf DEF WriteRunFiles, Shape, Types, Moved

LEMMA SurfaceBeforeAgentIs ==
    ASSUME Shape, SurfaceBeforeAgent
    PROVE  /\ Types' /\ UNCHANGED <<steps, lib, problems, baseline, verdict, made>>
           /\ runner.pc = "before" /\ Surfaced(runner.step)
           /\ \/ runner.mode = "run" /\ Moved("agent", runner.step)
              \/ runner.mode = "materialize" /\ Moved("step", runner.step + 1)
<1>1. runner.pc = "before" /\ runner.pc \in TaskPlaces
  BY DEF SurfaceBeforeAgent, TaskPlaces
<1>2. runner.step \in 1..N /\ runner \in Runner
  BY <1>1, CurrentTask DEF Shape, Types
<1>3. Surfaced(runner.step)
  BY <1>2, SurfacedIs DEF SurfaceBeforeAgent, Shape
<1>4. \/ runner.mode = "run" /\ Moved("agent", runner.step)
      \/ runner.mode = "materialize" /\ Moved("step", runner.step + 1)
  <2>1. CASE runner.mode = "run"
    BY <1>2, <2>1, MovesTo DEF SurfaceBeforeAgent, Places, TaskPlaces
  <2>2. CASE runner.mode # "run"
    <3>1. Onward /\ runner.mode = "materialize"
      BY <1>2, <2>2 DEF SurfaceBeforeAgent, Runner
    <3> QED
      BY <1>2, <3>1, OnwardIs
  <2> QED
    BY <2>1, <2>2
<1> QED
  BY <1>1, <1>3, <1>4, TypesOf DEF SurfaceBeforeAgent, Surfaced, Shape, Types, Moved

LEMMA AgentLeavesIs ==
    ASSUME Shape, runner.pc = "agent", NEW proof \in ProofFile,
           NEW status \in {"bare"} \union ReportStatuses, AgentLeaves(proof, status),
           lib' \in Library, made' \subseteq Modules \X (1..N)
    PROVE  /\ Types' /\ UNCHANGED <<steps, baseline, dirs, verdict>>
           /\ Moved("pins", runner.step)
           /\ \A j \in 1..N : j # runner.step =>
                 problems'[Task.problem].reports[j] = problems[Task.problem].reports[j]
           /\ \/ problems'[Task.problem].reports[runner.step]
                    = problems[Task.problem].reports[runner.step]
              \/ problems'[Task.problem].reports[runner.step] = ReportOf(status, runner.runs)
                 /\ status \in ReportStatuses
<1> DEFINE i == runner.step
           p == Task.problem
           old == problems[p]
<1>1. i \in 1..N /\ p \in Problems /\ old \in Problem(N) /\ runner.runs \in Nat
  BY CurrentTask DEF TaskPlaces, Shape, Types, Runner
<1>2. PICK rep \in Report :
          /\ problems' = [problems EXCEPT ![p] =
                            [old EXCEPT !.proof = proof,
                                        !.reports = [old.reports EXCEPT ![i] = rep]]]
          /\ \/ rep = old.reports[i]
             \/ rep = ReportOf(status, runner.runs) /\ status \in ReportStatuses
  <2>1. problems' = [problems EXCEPT
              ![p].proof = proof,
              ![p].reports[i] = IF status = "bare" THEN @ ELSE ReportOf(status, runner.runs)]
    BY DEF AgentLeaves
  <2>2. CASE status = "bare"
    <3>1. old.reports[i] \in Report
      BY <1>1 DEF Problem
    <3>2. problems' = [problems EXCEPT ![p].proof = proof, ![p].reports[i] = @]
      BY <2>1, <2>2
    <3>3. problems' = [problems EXCEPT ![p] =
                         [old EXCEPT !.proof = proof,
                                     !.reports = [old.reports EXCEPT ![i] = old.reports[i]]]]
      BY <1>1, <3>2 DEF Problem, Shape, Types
    <3> QED
      BY <3>1, <3>3
  <2>3. CASE status # "bare"
    <3>1. status \in ReportStatuses /\ ReportOf(status, runner.runs) \in Report
      BY <1>1, <2>3 DEF ReportOf, Report
    <3>2. problems' = [problems EXCEPT ![p].proof = proof,
                                       ![p].reports[i] = ReportOf(status, runner.runs)]
      BY <2>1, <2>3
    <3>3. problems' = [problems EXCEPT ![p] =
                         [old EXCEPT !.proof = proof,
                                     !.reports = [old.reports EXCEPT
                                                    ![i] = ReportOf(status, runner.runs)]]]
      BY <1>1, <3>2 DEF Problem, Shape, Types
    <3> QED
      BY <3>1, <3>3
  <2> QED
    BY <2>2, <2>3
<1> DEFINE new == [old EXCEPT !.proof = proof,
                              !.reports = [old.reports EXCEPT ![i] = rep]]
<1>3. /\ new \in Problem(N) /\ new.reports[i] = rep
      /\ \A j \in 1..N : j # i => new.reports[j] = old.reports[j]
  BY <1>1 DEF Problem
<1>4. problems' = [problems EXCEPT ![p] = new]
  BY <1>2
<1> HIDE DEF new
<1>5. problems' \in [Problems -> Problem(N)] /\ problems'[p] = new
  BY <1>1, <1>3, <1>4 DEF Shape, Types
<1>6. Moved("pins", i)
  BY MovesTo DEF AgentLeaves, Shape, Types, Places, TaskPlaces
<1>7. Types'
  BY <1>5, <1>6, TypesOf DEF AgentLeaves, Shape, Types, Moved
<1> QED
  BY <1>2, <1>3, <1>5, <1>6, <1>7 DEF AgentLeaves

\* What an agent does: it leaves the library alone, or makes a module.
LEMMA AgentIs ==
    ASSUME Shape, Agent
    PROVE  /\ Types' /\ UNCHANGED <<steps, baseline, dirs, verdict>>
           /\ runner.pc = "agent" /\ runner.step \in 1..N
           /\ Moved("pins", runner.step)
           /\ \A j \in 1..N : j # runner.step =>
                 problems'[Task.problem].reports[j] = problems[Task.problem].reports[j]
           /\ \/ problems'[Task.problem].reports[runner.step]
                    = problems[Task.problem].reports[runner.step]
              \/ \E status \in ReportStatuses :
                    problems'[Task.problem].reports[runner.step]
                       = ReportOf(status, runner.runs)
           /\ \/ UNCHANGED <<lib, made>>
              \/ \E m \in Modules : /\ m \notin DOMAIN lib
                                    /\ DOMAIN lib' = DOMAIN lib \union {m}
                                    /\ made' = made \union {<<m, runner.step>>}
<1>1. runner.pc = "agent" /\ runner.pc \in TaskPlaces
  BY DEF Agent, GoodAgent, PoorAgent, AgentMakesTool, TaskPlaces
<1>2. runner.step \in 1..N /\ Task.expected \in ReportStatuses
  BY <1>1, CurrentTask
<1>3. \E proof \in ProofFile, status \in {"bare"} \union ReportStatuses :
         AgentLeaves(proof, status)
  <2>1. ASSUME NEW tools \in SUBSET Modules, GoodAgent(tools)
        PROVE  \E proof \in ProofFile, status \in {"bare"} \union ReportStatuses :
                  AgentLeaves(proof, status)
    <3> DEFINE can == problems[Task.problem].solvable
               status == IF can THEN "SUCCESS" ELSE "TRIAGED"
    <3>1. can \in BOOLEAN
      BY <1>1, CurrentTask DEF Problem
    <3>2. [done |-> can, imports |-> {Hub} \union tools] \in ProofFile
      BY <3>1, HubAssumption DEF ProofFile
    <3>3. status \in {"bare"} \union ReportStatuses
      BY DEF ReportStatuses
    <3>4. AgentLeaves([done |-> can, imports |-> {Hub} \union tools], status)
      BY <2>1 DEF GoodAgent
    <3> QED
      BY <3>2, <3>3, <3>4
  <2>2. ASSUME NEW status \in {"bare", "SUCCESS"}, PoorAgent(status)
        PROVE  \E proof \in ProofFile, s \in {"bare"} \union ReportStatuses :
                  AgentLeaves(proof, s)
    <3>1. [done |-> FALSE, imports |-> {Hub}] \in ProofFile
      BY HubAssumption DEF ProofFile
    <3>2. status \in {"bare"} \union ReportStatuses
      BY DEF ReportStatuses
    <3> QED
      BY <2>2, <3>1, <3>2 DEF PoorAgent
  <2>3. ASSUME NEW m \in Modules, AgentMakesTool(m)
        PROVE  \E proof \in ProofFile, s \in {"bare"} \union ReportStatuses :
                  AgentLeaves(proof, s)
    <3>1. [done |-> TRUE, imports |-> {Hub, m}] \in ProofFile
      BY HubAssumption DEF ProofFile
    <3> QED
      BY <1>2, <2>3, <3>1 DEF AgentMakesTool
  <2> QED
    BY <2>1, <2>2, <2>3 DEF Agent
<1>4. \/ UNCHANGED <<lib, made>>
      \/ \E m \in Modules : /\ m \notin DOMAIN lib /\ lib' = With(m, {})
                            /\ made' = made \union {<<m, runner.step>>}
  BY DEF Agent, GoodAgent, PoorAgent, AgentMakesTool
<1>5. /\ lib' \in Library /\ made' \subseteq Modules \X (1..N)
      /\ \/ UNCHANGED <<lib, made>>
         \/ \E m \in Modules : /\ m \notin DOMAIN lib
                               /\ DOMAIN lib' = DOMAIN lib \union {m}
                               /\ made' = made \union {<<m, runner.step>>}
  <2>1. lib \in Library /\ made \subseteq Modules \X (1..N)
    BY DEF Shape, Types
  <2>2. ASSUME NEW m \in Modules
        PROVE  With(m, {}) \in Library /\ DOMAIN With(m, {}) = DOMAIN lib \union {m}
    BY <2>1, WithIs
  <2>3. CASE UNCHANGED <<lib, made>>
    BY <2>1, <2>3
  <2>4. ASSUME NEW m \in Modules, m \notin DOMAIN lib, lib' = With(m, {}),
               made' = made \union {<<m, runner.step>>}
        PROVE  /\ lib' \in Library /\ made' \subseteq Modules \X (1..N)
               /\ DOMAIN lib' = DOMAIN lib \union {m}
    <3>1. <<m, runner.step>> \in Modules \X (1..N)
      BY <1>2
    <3> QED
      BY <2>1, <2>2, <2>4, <3>1
  <2> QED
    BY <1>4, <2>3, <2>4
<1> QED
  BY <1>1, <1>2, <1>3, <1>5, AgentLeavesIs

\* The step directory gets the reports; the files; a second surface.
LEMMA EnsurePinsIs ==
    ASSUME Shape, EnsurePins
    PROVE  /\ Types' /\ UNCHANGED <<steps, lib, baseline, dirs, verdict, made>>
           /\ runner.pc = "pins" /\ Moved("reports", runner.step)
           /\ problems'[Task.problem].reports[runner.step]
                 = IF problems[Task.problem].reports[runner.step] = NoReport
                   THEN Bare ELSE problems[Task.problem].reports[runner.step]
<1> DEFINE i == runner.step
           p == Task.problem
           old == problems[p]
           rep == IF old.reports[i] = NoReport THEN Bare ELSE old.reports[i]
<1>1. runner.pc = "pins" /\ runner.pc \in TaskPlaces
  BY DEF EnsurePins, TaskPlaces
<1>2. i \in 1..N /\ p \in Problems /\ old \in Problem(N) /\ N \in Nat
  BY <1>1, CurrentTask
<1>3. rep \in Report
  <2>1. Bare \in Report
    BY DEF Bare, Report
  <2>2. old.reports[i] \in Report
    BY <1>2 DEF Problem
  <2> QED
    BY <2>1, <2>2
<1>4. problems' = [problems EXCEPT ![p] = [old EXCEPT !.reports = [old.reports EXCEPT ![i] = rep]]]
  <2>1. problems' = [problems EXCEPT ![p].reports[i] = IF @ = NoReport THEN Bare ELSE @]
    BY DEF EnsurePins
  <2> QED
    BY <1>2, <2>1 DEF Problem, Shape, Types
<1> HIDE DEF rep
<1>5. [old EXCEPT !.reports = [old.reports EXCEPT ![i] = rep]] \in Problem(N)
        /\ [old EXCEPT !.reports = [old.reports EXCEPT ![i] = rep]].reports[i] = rep
  BY <1>2, <1>3 DEF Problem
<1>6. problems' \in [Problems -> Problem(N)] /\ problems'[p].reports[i] = rep
  BY <1>2, <1>4, <1>5 DEF Shape, Types
<1>7. Moved("reports", i)
  BY MovesTo DEF EnsurePins, Shape, Types, Places, TaskPlaces
<1> QED
  BY <1>1, <1>6, <1>7, TypesOf DEF EnsurePins, Shape, Types, Moved, rep

LEMMA SnapReportsIs ==
    ASSUME Shape, SnapReports
    PROVE  /\ Types' /\ UNCHANGED <<steps, lib, problems, baseline, verdict, made>>
           /\ runner.pc = "reports" /\ Moved("files", runner.step)
           /\ \A j \in 1..N : j # runner.step => dirs'[j] = dirs[j]
           /\ dirs'[runner.step].context = dirs[runner.step].context
           /\ dirs'[runner.step].reports = problems[Task.problem].reports
<1> DEFINE i == runner.step
           reports == problems[Task.problem].reports
<1>1. runner.pc = "reports" /\ runner.pc \in TaskPlaces
  BY DEF SnapReports, TaskPlaces
<1>2. i \in 1..N /\ dirs[i] \in Dir(N) /\ reports \in [1..N -> Report]
  BY <1>1, CurrentTask, CurrentStep DEF Problem
<1>3. dirs' = [dirs EXCEPT ![i] = [dirs[i] EXCEPT !.reports = reports]]
  BY <1>2 DEF SnapReports, Shape, Types
<1> HIDE DEF reports
<1>4. [dirs[i] EXCEPT !.reports = reports] \in Dir(N)
  BY <1>2 DEF Dir
<1>5. /\ dirs' \in [1..N -> Dir(N)] /\ \A j \in 1..N : j # i => dirs'[j] = dirs[j]
      /\ dirs'[i].context = dirs[i].context /\ dirs'[i].reports = reports
  BY <1>2, <1>3, <1>4 DEF Shape, Types, Dir
<1>6. Moved("files", i)
  BY MovesTo DEF SnapReports, Shape, Types, Places, TaskPlaces
<1> QED
  BY <1>1, <1>5, <1>6, TypesOf DEF SnapReports, Shape, Types, Moved, reports

LEMMA SnapFilesIs ==
    ASSUME Shape, SnapFiles
    PROVE  /\ Types' /\ UNCHANGED <<steps, lib, problems, baseline, verdict, made>>
           /\ runner.pc = "files" /\ Moved("after", runner.step)
           /\ \A j \in 1..N : j # runner.step => dirs'[j] = dirs[j]
           /\ dirs'[runner.step].context = dirs[runner.step].context
           /\ dirs'[runner.step].reports = dirs[runner.step].reports
<1> DEFINE i == runner.step
           proof == problems[Task.problem].proof
<1>1. runner.pc = "files" /\ runner.pc \in TaskPlaces
  BY DEF SnapFiles, TaskPlaces
<1>2. i \in 1..N /\ dirs[i] \in Dir(N) /\ proof \in ProofFile
  BY <1>1, CurrentTask, CurrentStep DEF Problem
<1>3. dirs' = [dirs EXCEPT ![i] = [dirs[i] EXCEPT !.proof = proof]]
  BY <1>2 DEF SnapFiles, Shape, Types
<1> HIDE DEF proof
<1>4. [dirs[i] EXCEPT !.proof = proof] \in Dir(N)
  BY <1>2 DEF Dir
<1>5. /\ dirs' \in [1..N -> Dir(N)] /\ \A j \in 1..N : j # i => dirs'[j] = dirs[j]
      /\ dirs'[i].context = dirs[i].context /\ dirs'[i].reports = dirs[i].reports
  BY <1>2, <1>3, <1>4 DEF Shape, Types, Dir
<1>6. Moved("after", i)
  BY MovesTo DEF SnapFiles, Shape, Types, Places, TaskPlaces
<1> QED
  BY <1>1, <1>5, <1>6, TypesOf DEF SnapFiles, Shape, Types, Moved

LEMMA SurfaceAfterAgentIs ==
    ASSUME Shape, SurfaceAfterAgent
    PROVE  /\ Types' /\ UNCHANGED <<steps, lib, problems, baseline, verdict, made>>
           /\ runner.pc = "after" /\ runner.step \in 1..N
           /\ Surfaced(runner.step) /\ Moved("step", runner.step + 1)
<1>1. runner.pc = "after" /\ runner.pc \in TaskPlaces
  BY DEF SurfaceAfterAgent, TaskPlaces
<1>2. runner.step \in 1..N /\ runner.step <= N
  BY <1>1, CurrentTask
<1> QED
  BY <1>1, <1>2, EndIs DEF SurfaceAfterAgent, Shape, Types

LEMMA GradeIs ==
    ASSUME Shape, Grade
    PROVE  /\ Types' /\ UNCHANGED <<steps, lib, problems, baseline, dirs, runner, made>>
           /\ runner.pc = "off" /\ runner.runs > 0 /\ ~verdict.graded
           /\ Orderly => runner.ended
           /\ verdict' = Verdict(steps, dirs, baseline, lib)
<1>1. Orderly => runner.ended
  BY DEF Grade, Orderly
<1> QED
  BY <1>1, TypesOf DEF Grade, Shape, Types

-----------------------------------------------------------------------------
(* Shape is an invariant. *)

\* What is written of a plan that stays.
LEMMA SamePlan ==
    ASSUME steps' = steps
    PROVE  N' = N /\ \A j : Files(j)' = Files(j)
BY DEF N, Files

LEMMA Numbers ==
    ASSUME Shape
    PROVE  /\ N \in Nat /\ runner.step \in Nat /\ runner.step \in 1..N+1 /\ runner.runs \in Nat
           /\ runner.at \in Nat
BY DEF Shape, Types, Place, Runner, N

LEMMA InitShape ==
    ASSUME Init
    PROVE  Shape
<1>1. /\ steps \in Seq(Step) /\ N \in Nat
  BY ScenariosAssumption DEF Init, N
<1>2. <<>> \in Library /\ NoReport \in Report /\ NoProof \in ProofFile /\ NoSurface \in Surfaces
  <2>1. <<>> \in Library
    <3>1. <<>> \in [{} -> SUBSET Modules]
      OBVIOUS
    <3> QED
      BY <3>1 DEF Library
  <2>2. NoReport \in Report
    BY DEF NoReport, Report
  <2>3. NoProof \in ProofFile
    BY DEF NoProof, ProofFile
  <2> QED
    BY <2>1, <2>2, <2>3 DEF Surfaces
<1>3. problems \in [Problems -> Problem(N)]
  BY <1>2 DEF Init, NoProblem, Problem
<1>4. dirs \in [1..N -> Dir(N)]
  BY <1>2 DEF Init, NoDir, EmptyDir, Dir
<1>5. /\ runner \in Runner /\ runner.pc = "off" /\ runner.mode = "run" /\ runner.step = 1
      /\ runner.runs = 0 /\ ~runner.ended
  BY DEF Init, Runner, Places
<1>6. Types
  BY <1>1, <1>2, <1>3, <1>4, <1>5 DEF Init, Types
<1>7. Place
  BY <1>1, <1>5 DEF Init, Place, TaskPlaces, NoVerdict
<1> QED
  BY <1>6, <1>7 DEF Shape

LEMMA ShapeKept ==
    ASSUME Shape, Orderly, [Next]_vars
    PROVE  Shape'
<1>1. ASSUME UNCHANGED vars
      PROVE  Shape'
  BY <1>1 DEF vars, Shape, Types, Place, N, Dir, Problem, Files, TaskPlaces, Places, Runner
<1>2. ASSUME NEW mode \in {"run", "materialize"}, Start(mode)
      PROVE  Shape'
  BY <1>2, StartIs, SamePlan DEF Shape, Types, Place, TaskPlaces, Runner
<1>3. ASSUME NEW k \in 1..N, NEW reapply \in BOOLEAN, Resume(k, reapply)
      PROVE  Shape'
  BY <1>3, ResumeIs, SamePlan, Numbers DEF Shape, Place, TaskPlaces
<1>4. ASSUME NEW m \in Modules, CopySkeleton(m)
      PROVE  Shape'
  BY <1>4, CopySkeletonIs, SamePlan DEF Shape, Place, TaskPlaces
<1>5. CASE TakeBaseline
  BY <1>5, TakeBaselineIs, SamePlan DEF Shape, Place, TaskPlaces, Moved
<1>6. CASE BeginStep
  <2>1. steps[runner.step].kind
          \in {"run_task", "apply_overlay", "clean", "lake_build", "run_cmd"}
    BY <1>6, BeginStepIs, StepKinds DEF Shape, Types
  <2> QED
    BY <1>6, <2>1, BeginStepIs, SamePlan, Numbers DEF Shape, Place, TaskPlaces
<1>7. CASE AllSteps
  BY <1>7, AllStepsIs, SamePlan DEF Shape, Place, TaskPlaces
<1>8. ASSUME NEW f \in Modules \union Problems, CopyFile(f)
      PROVE  Shape'
  BY <1>8, CopyFileIs, SamePlan DEF Shape, Place, TaskPlaces
<1>9. CASE NextReplay
  BY <1>9, NextReplayIs, SamePlan, Numbers DEF Shape, Place, TaskPlaces
<1>10. CASE Plain
  BY <1>10, PlainIs, SamePlan, Numbers DEF Shape, Place, TaskPlaces, Moved
<1>11. CASE Materialize
  BY <1>11, MaterializeIs, SamePlan DEF Shape, Place, TaskPlaces, Moved
<1>12. CASE WriteRunFiles
  BY <1>12, WriteRunFilesIs, SamePlan DEF Shape, Place, TaskPlaces, Moved
<1>13. CASE SurfaceBeforeAgent
  BY <1>13, SurfaceBeforeAgentIs, SamePlan, Numbers DEF Shape, Place, TaskPlaces, Moved
<1>14. CASE Agent
  BY <1>14, AgentIs, SamePlan DEF Shape, Place, TaskPlaces, Moved
<1>15. CASE EnsurePins
  BY <1>15, EnsurePinsIs, SamePlan DEF Shape, Place, TaskPlaces, Moved
<1>16. CASE SnapReports
  BY <1>16, SnapReportsIs, SamePlan DEF Shape, Place, TaskPlaces, Moved
<1>17. CASE SnapFiles
  BY <1>17, SnapFilesIs, SamePlan DEF Shape, Place, TaskPlaces, Moved
<1>18. CASE SurfaceAfterAgent
  BY <1>18, SurfaceAfterAgentIs, SamePlan, Numbers DEF Shape, Place, TaskPlaces, Moved
<1>19. CASE Break
  BY <1>19, BreakIs, SamePlan DEF Shape, Place, TaskPlaces, Moved
<1>20. CASE Grade
  BY <1>20, GradeIs, SamePlan DEF Shape, Place, TaskPlaces
<1> QED
  BY <1>1, <1>2, <1>3, <1>4, <1>5, <1>6, <1>7, <1>8, <1>9, <1>10, <1>11, <1>12, <1>13, <1>14,
     <1>15, <1>16, <1>17, <1>18, <1>19, <1>20 DEF Next, RunnerStep, Plain

-----------------------------------------------------------------------------
(* What the surfaces say, for an operator who resumes where the runner      *)
(* stopped.                                                                 *)

\* The surface before a step, when all before it have one.
Before(i) == IF i = 1 THEN baseline ELSE dirs[i-1].surface

\* The modules that agents made at a step.
MadeAt(i) == {m \in Modules : <<m, i>> \in made}

OverlayNames(j) == DOMAIN steps[j].overlay.lib

\* The surface of a step that is done grew by what its agent made, if it has one.
Grew(j) ==
    /\ dirs[j].surface # NoSurface
    /\ Before(j) \subseteq dirs[j].surface
    /\ steps[j].kind = "run_task" => dirs[j].surface \ Before(j) = MadeAt(j)

\* The library holds the surface before the current step, and at a run only
\* what its agent made besides; a later step made nothing.
Growing ==
    /\ Before(runner.step) \subseteq DOMAIN lib
    /\ runner.step <= N /\ steps[runner.step].kind = "run_task" =>
          DOMAIN lib \ Before(runner.step) = MadeAt(runner.step)
    /\ \A e \in made : e[2] <= runner.step /\ steps[e[2]].kind = "run_task"

\* To copy an overlay again adds no module.
Covered ==
    /\ \A j \in 1..runner.step-1 :
          steps[j].kind = "apply_overlay" => OverlayNames(j) \subseteq DOMAIN lib
    /\ runner.pc = "apply_overlay" =>
          OverlayNames(runner.step) \subseteq DOMAIN lib \union runner.todo

SurfacesTell ==
    baseline # NoSurface => /\ \A j \in 1..runner.step-1 : Grew(j)
                            /\ Growing /\ Covered

\* Steps that leave the modules, the surfaces and the place alone.
LEMMA SurfacesStay ==
    ASSUME Shape, SurfacesTell,
           UNCHANGED <<steps, baseline, made>>, DOMAIN lib' = DOMAIN lib,
           runner'.step = runner.step,
           \A j \in 1..N : j # runner.step => dirs'[j].surface = dirs[j].surface,
           runner'.pc = "apply_overlay" =>
              OverlayNames(runner.step) \subseteq DOMAIN lib \union runner'.todo
    PROVE  SurfacesTell'
<1> SUFFICES ASSUME baseline # NoSurface
             PROVE  (\A j \in 1..runner.step-1 : Grew(j)') /\ Growing' /\ Covered'
  BY DEF SurfacesTell
<1>1. /\ N \in Nat /\ runner.step \in 1..N+1 /\ N' = N
      /\ (\A j \in 1..runner.step-1 : Grew(j)) /\ Growing /\ Covered
  BY Numbers, SamePlan DEF SurfacesTell
<1>2. \A j : MadeAt(j)' = MadeAt(j) /\ OverlayNames(j)' = OverlayNames(j)
  BY DEF MadeAt, OverlayNames
<1>3. \A j \in 1..runner.step : Before(j)' = Before(j)
  BY <1>1 DEF Before
<1>4. ASSUME NEW j \in 1..runner.step-1
      PROVE  Grew(j)'
  BY <1>1, <1>2, <1>3 DEF Grew
<1>5. Before(runner.step)' = Before(runner.step) /\ MadeAt(runner.step)' = MadeAt(runner.step)
  BY <1>1, <1>2, <1>3
<1>6. Growing'
  BY <1>1, <1>5 DEF Growing
<1>7. Covered'
  BY <1>1, <1>2 DEF Covered
<1> QED
  BY <1>4, <1>6, <1>7

\* The end of a step: its surface is the library's.
LEMMA SurfaceAtEnd ==
    ASSUME Shape, SurfacesTell, UNCHANGED <<steps, lib, baseline, made>>,
           runner.step \in 1..N, Surfaced(runner.step), Moved("step", runner.step + 1),
           runner.pc \notin {"off", "copy"},
           runner.pc = "apply_overlay" => runner.todo = {},
           steps[runner.step].kind = "apply_overlay" => runner.pc = "apply_overlay"
    PROVE  SurfacesTell'
<1> PICK i \in 1..N : i = runner.step
  OBVIOUS
<1>1. /\ i = runner.step /\ N \in Nat /\ N' = N /\ baseline # NoSurface
      /\ (\A j \in 1..i-1 : Grew(j)) /\ Growing /\ Covered
      /\ runner'.step = i + 1 /\ runner'.pc = "step"
      /\ dirs'[i].surface = DOMAIN lib /\ \A j \in 1..N : j # i => dirs'[j] = dirs[j]
  BY Numbers, SamePlan DEF SurfacesTell, Shape, Place, Surfaced, Moved
<1>2. \A j : MadeAt(j)' = MadeAt(j) /\ OverlayNames(j)' = OverlayNames(j)
  BY DEF MadeAt, OverlayNames
<1>3. \A j \in 1..i : Before(j)' = Before(j)
  BY <1>1 DEF Before
<1>4. ASSUME NEW j \in 1..i-1
      PROVE  Grew(j)'
  <2>1. dirs'[j] = dirs[j]
    BY <1>1
  <2> QED
    BY <1>1, <1>2, <1>3, <2>1 DEF Grew
<1>5. Grew(i)'
  <2>1. DOMAIN lib \in SUBSET Modules /\ NoSurface \notin SUBSET Modules
    BY LibraryIs, NamesAssumption DEF Shape, Types, NoSurface
  <2>2. DOMAIN lib # NoSurface
    BY <2>1
  <2>3. Before(i)' = Before(i) /\ MadeAt(i)' = MadeAt(i)
    BY <1>2, <1>3
  <2>4. Before(i) \subseteq DOMAIN lib
          /\ (steps[i].kind = "run_task" => DOMAIN lib \ Before(i) = MadeAt(i))
    BY <1>1 DEF Growing
  <2> QED
    BY <1>1, <2>2, <2>3, <2>4 DEF Grew
<1>6. \A e \in made : e[2] <= i /\ e[2] \in 1..N /\ steps[e[2]].kind = "run_task"
  BY <1>1 DEF Growing, Shape, Types
<1>7. MadeAt(i + 1)' = {}
  BY <1>6 DEF MadeAt
<1>8. Before(i + 1)' = DOMAIN lib
  BY <1>1 DEF Before
<1>9. Growing'
  <2>1. \A e \in made : e[2] <= i + 1
    BY <1>6
  <2>2. (runner.step = i + 1)'
    BY <1>1
  <2>3. Before(runner.step)' = DOMAIN lib /\ MadeAt(runner.step)' = {}
    BY <1>7, <1>8, <2>2
  <2> QED
    BY <1>1, <1>6, <2>1, <2>2, <2>3 DEF Growing
<1>10. Covered'
  <2>1. steps[i].kind = "apply_overlay" => OverlayNames(i) \subseteq DOMAIN lib
    BY <1>1 DEF Covered
  <2> QED
    BY <1>1, <1>2, <2>1 DEF Covered
<1>11. \A j \in 1..i : Grew(j)'
  BY <1>1, <1>4, <1>5
<1> QED
  BY <1>1, <1>9, <1>10, <1>11 DEF SurfacesTell

\* An agent makes a module.
LEMMA SurfacesOfTool ==
    ASSUME Shape, SurfacesTell, UNCHANGED <<steps, baseline, dirs>>,
           runner.pc = "agent", Moved("pins", runner.step),
           NEW m \in Modules, m \notin DOMAIN lib, DOMAIN lib' = DOMAIN lib \union {m},
           made' = made \union {<<m, runner.step>>}
    PROVE  SurfacesTell'
<1> PICK i \in 1..N : i = runner.step /\ steps[i].kind = "run_task"
  BY CurrentTask DEF TaskPlaces
<1>1. /\ i = runner.step /\ N \in Nat /\ N' = N /\ baseline # NoSurface
      /\ (\A j \in 1..i-1 : Grew(j)) /\ Growing /\ Covered
      /\ runner'.step = i /\ runner'.pc = "pins"
  BY Numbers, SamePlan DEF SurfacesTell, Shape, Place, Moved
<1>2. \A j : Before(j)' = Before(j) /\ OverlayNames(j)' = OverlayNames(j)
  BY DEF Before, OverlayNames
<1>3. (\A j \in 1..i-1 : MadeAt(j)' = MadeAt(j)) /\ MadeAt(i)' = MadeAt(i) \union {m}
  BY <1>1 DEF MadeAt
<1>4. ASSUME NEW j \in 1..i-1
      PROVE  Grew(j)'
  BY <1>1, <1>2, <1>3 DEF Grew
<1>5. Growing'
  <2>1. Before(i) \subseteq DOMAIN lib /\ DOMAIN lib \ Before(i) = MadeAt(i)
    BY <1>1 DEF Growing
  <2>2. Before(i)' \subseteq DOMAIN lib' /\ DOMAIN lib' \ Before(i)' = MadeAt(i)'
    BY <1>2, <1>3, <2>1
  <2>3. \A e \in made' : e[2] <= i /\ steps[e[2]].kind = "run_task"
    BY <1>1 DEF Growing
  <2>4. Before(runner.step)' = Before(i)' /\ MadeAt(runner.step)' = MadeAt(i)'
    BY <1>1
  <2> QED
    BY <1>1, <2>2, <2>3, <2>4 DEF Growing
<1>6. Covered'
  <2>1. \A j \in 1..i-1 : steps[j].kind = "apply_overlay" => OverlayNames(j) \subseteq DOMAIN lib
    BY <1>1 DEF Covered
  <2> QED
    BY <1>1, <1>2, <2>1 DEF Covered
<1> QED
  BY <1>1, <1>4, <1>5, <1>6 DEF SurfacesTell

\* An overlay's file is copied, for the first time or again.
LEMMA SurfacesOfCopy ==
    ASSUME Shape, SurfacesTell, NEW f \in Modules \union Problems, CopyFile(f)
    PROVE  SurfacesTell'
<1>1. /\ UNCHANGED <<steps, baseline, dirs, made>>
      /\ runner.pc \in {"overlay", "apply_overlay"} /\ runner.at \in 1..N
      /\ steps[runner.at].kind = "apply_overlay" /\ f \in runner.todo
      /\ f \in Modules => f \in OverlayNames(runner.at) /\ DOMAIN lib' = DOMAIN lib \union {f}
      /\ f \notin Modules => lib' = lib
      /\ runner'.todo = runner.todo \ {f} /\ runner'.pc = runner.pc
      /\ runner'.step = runner.step
  <2>1. ASSUME f \in Modules
        PROVE  DOMAIN lib' = DOMAIN lib \union {f}
    <3>1. PICK imports \in SUBSET Modules : lib' = With(f, imports)
      BY <2>1, CopyFileIs
    <3>2. lib \in Library
      BY DEF Shape, Types
    <3> QED
      BY <2>1, <3>1, <3>2, WithIs
  <2> QED
    BY <2>1, CopyFileIs DEF OverlayNames
<1>2. /\ N \in Nat /\ N' = N /\ baseline # NoSurface /\ runner.step \in 1..N+1
      /\ (\A j \in 1..runner.step-1 : Grew(j)) /\ Growing /\ Covered
  BY <1>1, Numbers, SamePlan DEF SurfacesTell, Shape, Place
<1>3. CASE runner.pc = "overlay"
  <2>1. runner.at \in 1..runner.step-1
    BY <1>3 DEF Shape, Place
  <2>2. OverlayNames(runner.at) \subseteq DOMAIN lib
    BY <1>1, <1>2, <2>1 DEF Covered
  <2>3. DOMAIN lib' = DOMAIN lib
    BY <1>1, <2>2
  <2> QED
    BY <1>1, <1>3, <2>3, SurfacesStay
<1>4. CASE runner.pc = "apply_overlay"
  <2> PICK i \in 1..N : i = runner.step /\ steps[i].kind = "apply_overlay"
    BY <1>1, <1>4 DEF Shape, Place
  <2>2. \A j : Before(j)' = Before(j) /\ OverlayNames(j)' = OverlayNames(j)
                 /\ MadeAt(j)' = MadeAt(j)
    BY <1>1 DEF Before, OverlayNames, MadeAt
  <2>3. DOMAIN lib \subseteq DOMAIN lib'
    BY <1>1
  <2>4. \A j \in 1..i-1 : Grew(j)'
    BY <1>1, <1>2, <2>2 DEF Grew
  <2>5. Growing'
    <3>1. Before(i) \subseteq DOMAIN lib
      BY <1>2 DEF Growing
    <3>2. Before(runner.step)' = Before(i)
      BY <1>1, <2>2
    <3> QED
      BY <1>1, <1>2, <2>3, <3>1, <3>2 DEF Growing
  <2>6. Covered'
    <3>1. OverlayNames(i) \subseteq Modules
      BY OverlayIs DEF OverlayNames, Shape, Types
    <3>2. OverlayNames(i) \subseteq DOMAIN lib \union runner.todo
      BY <1>2, <1>4 DEF Covered
    <3>3. OverlayNames(i) \subseteq DOMAIN lib' \union runner'.todo
      BY <1>1, <3>1, <3>2
    <3>4. \A j \in 1..i-1 : steps[j].kind = "apply_overlay" => OverlayNames(j) \subseteq DOMAIN lib'
      BY <1>2, <2>3 DEF Covered
    <3>5. OverlayNames(runner.step)' = OverlayNames(i)
      BY <1>1, <2>2
    <3> QED
      BY <1>1, <2>2, <3>3, <3>4, <3>5 DEF Covered
  <2> QED
    BY <1>1, <2>4, <2>5, <2>6 DEF SurfacesTell
<1> QED
  BY <1>1, <1>3, <1>4

LEMMA SurfacesKept ==
    ASSUME Shape, SurfacesTell, Operator = "careful", [Next]_vars
    PROVE  SurfacesTell'
<1>1. ASSUME UNCHANGED vars
      PROVE  SurfacesTell'
  BY <1>1, SurfacesStay DEF vars, SurfacesTell, Covered, Growing, Grew, Before, MadeAt,
        OverlayNames, N
<1>2. ASSUME NEW mode \in {"run", "materialize"}, Start(mode)
      PROVE  SurfacesTell'
  BY <1>2, StartIs DEF SurfacesTell, Shape, Place
<1>3. ASSUME NEW k \in 1..N, NEW reapply \in BOOLEAN, Resume(k, reapply)
      PROVE  SurfacesTell'
  <2>1. runner'.pc # "apply_overlay" /\ runner'.step = runner.step
    BY <1>3, ResumeIs DEF Orderly
  <2> QED
    BY <1>3, <2>1, ResumeIs, SurfacesStay DEF Orderly
<1>4. ASSUME NEW m \in Modules, CopySkeleton(m)
      PROVE  SurfacesTell'
  BY <1>4, CopySkeletonIs DEF SurfacesTell, Shape, Place
<1>5. CASE TakeBaseline
  <2>1. /\ runner'.step = 1 /\ made' = {} /\ runner'.pc = "step" /\ baseline' = DOMAIN lib'
        /\ N' \in Nat
    BY <1>5, TakeBaselineIs, Numbers, SamePlan DEF Shape, Place, Moved
  <2>2. Before(runner.step)' = DOMAIN lib' /\ MadeAt(runner.step)' = {}
    BY <2>1 DEF Before, MadeAt
  <2> QED
    BY <2>1, <2>2 DEF SurfacesTell, Growing, Covered
<1>6. CASE BeginStep
  <2>1. runner'.pc = "apply_overlay" =>
           OverlayNames(runner.step) \subseteq DOMAIN lib \union runner'.todo
    <3>1. steps[runner.step].kind = "apply_overlay" => OverlayNames(runner.step) \subseteq Files(runner.step)
      BY DEF OverlayNames, Files
    <3> QED
      BY <1>6, <3>1, BeginStepIs
  <2> QED
    BY <1>6, <2>1, BeginStepIs, SurfacesStay
<1>7. CASE AllSteps
  BY <1>7, AllStepsIs, SurfacesStay
<1>8. ASSUME NEW f \in Modules \union Problems, CopyFile(f)
      PROVE  SurfacesTell'
  BY <1>8, SurfacesOfCopy
<1>9. CASE NextReplay
  BY <1>9, NextReplayIs, SurfacesStay
<1>10. CASE Plain
  BY <1>10, PlainIs, SurfaceAtEnd
<1>11. CASE Materialize
  BY <1>11, MaterializeIs, SurfacesStay DEF Moved
<1>12. CASE WriteRunFiles
  BY <1>12, WriteRunFilesIs, SurfacesStay DEF Moved
<1>13. CASE SurfaceBeforeAgent
  <2>1. /\ runner.pc = "before" /\ runner.step \in 1..N /\ steps[runner.step].kind = "run_task"
    BY <1>13, SurfaceBeforeAgentIs, CurrentTask DEF TaskPlaces
  <2>2. CASE Moved("agent", runner.step)
    BY <1>13, <2>2, SurfaceBeforeAgentIs, SurfacesStay DEF Moved, Surfaced
  <2>3. CASE Moved("step", runner.step + 1)
    BY <1>13, <2>1, <2>3, SurfaceBeforeAgentIs, SurfaceAtEnd
  <2> QED
    BY <1>13, <2>2, <2>3, SurfaceBeforeAgentIs
<1>14. CASE Agent
  <2>1. CASE UNCHANGED <<lib, made>>
    BY <1>14, <2>1, AgentIs, SurfacesStay DEF Moved
  <2>2. ASSUME NEW m \in Modules, m \notin DOMAIN lib, DOMAIN lib' = DOMAIN lib \union {m},
               made' = made \union {<<m, runner.step>>}
        PROVE  SurfacesTell'
    BY <1>14, <2>2, AgentIs, SurfacesOfTool
  <2> QED
    BY <1>14, <2>1, <2>2, AgentIs
<1>15. CASE EnsurePins
  BY <1>15, EnsurePinsIs, SurfacesStay DEF Moved
<1>16. CASE SnapReports
  BY <1>16, SnapReportsIs, SurfacesStay DEF Moved
<1>17. CASE SnapFiles
  BY <1>17, SnapFilesIs, SurfacesStay DEF Moved
<1>18. CASE SurfaceAfterAgent
  <2>1. steps[runner.step].kind = "run_task"
    BY <1>18, SurfaceAfterAgentIs, CurrentTask DEF TaskPlaces
  <2> QED
    BY <1>18, <2>1, SurfaceAfterAgentIs, SurfaceAtEnd
<1>19. CASE Break
  BY <1>19, BreakIs, SurfacesStay DEF Moved
<1>20. CASE Grade
  <2>1. runner' = runner /\ runner.pc = "off"
    BY <1>20, GradeIs
  <2> QED
    BY <1>20, <2>1, GradeIs, SurfacesStay
<1> QED
  BY <1>1, <1>2, <1>3, <1>4, <1>5, <1>6, <1>7, <1>8, <1>9, <1>10, <1>11, <1>12, <1>13, <1>14,
     <1>15, <1>16, <1>17, <1>18, <1>19, <1>20 DEF Next, RunnerStep, Plain

\* When all steps are done, the grader compares each with the one before it.
LEMMA SurfaceBeforeIs ==
    ASSUME Shape, SurfacesTell, runner.ended, NEW i \in 1..N
    PROVE  SurfaceBefore(dirs, baseline, i) = Before(i)
<1> DEFINE seen == {j \in 1..i-1 : dirs[j].surface # NoSurface}
<1>1. /\ N \in Nat /\ baseline # NoSurface /\ runner.step = N + 1
      /\ \A j \in 1..N : dirs[j].surface # NoSurface
  <2>1. N \in Nat /\ baseline # NoSurface /\ runner.step = N + 1
    BY Numbers DEF Shape, Place
  <2> QED
    BY <2>1 DEF SurfacesTell, Grew
<1>2. seen = 1..i-1
  BY <1>1
<1>3. CASE i = 1
  <2>1. seen = {}
    BY <1>2, <1>3
  <2>2. SurfaceBefore(dirs, baseline, i) = baseline
    BY <1>1, <2>1, Zenon DEF SurfaceBefore
  <2> QED
    BY <1>3, <2>2 DEF Before
<1>4. CASE i # 1
  <2>1. i - 1 \in seen /\ \A k \in seen : k <= i - 1
    BY <1>1, <1>2, <1>4
  <2>2. (CHOOSE j \in seen : \A k \in seen : k <= j) = i - 1
    BY <1>2, <2>1
  <2>3. SurfaceBefore(dirs, baseline, i)
           = dirs[CHOOSE j \in seen : \A k \in seen : k <= j].surface
    <3>1. seen # {}
      BY <2>1
    <3> QED
      BY <3>1, Zenon DEF SurfaceBefore
  <2> QED
    BY <1>4, <2>2, <2>3 DEF Before
<1> QED
  BY <1>3, <1>4

LEMMA BlamedAreMade ==
    ASSUME Shape, SurfacesTell, runner.ended
    PROVE  Blamed(steps, dirs, baseline) = made
<1>1. /\ N \in Nat /\ baseline # NoSurface /\ runner.step = N + 1
      /\ DOMAIN dirs = 1..N /\ made \subseteq Modules \X (1..N)
  BY Numbers DEF Shape, Place, Types
<1>2. \A j \in 1..N : Grew(j)
  BY <1>1 DEF SurfacesTell
<1>3. \A e \in made : e[2] \in 1..N /\ e[1] \in Modules /\ steps[e[2]].kind = "run_task"
  BY <1>1 DEF SurfacesTell, Growing
<1>4. ASSUME NEW e \in Modules \X (1..N)
      PROVE  e \in Blamed(steps, dirs, baseline) <=> e \in made
  <2> DEFINE m == e[1]
             i == e[2]
  <2>1. m \in Modules /\ i \in 1..N /\ e = <<m, i>>
    OBVIOUS
  <2>2. e \in Blamed(steps, dirs, baseline)
           <=> /\ dirs[i].surface # NoSurface
               /\ m \in dirs[i].surface \ Before(i)
               /\ steps[i].kind = "run_task"
    BY <1>1, <2>1, SurfaceBeforeIs DEF Blamed, Introduced
  <2>3. e \in made => steps[i].kind = "run_task"
    BY <1>3
  <2>4. steps[i].kind = "run_task" => (m \in dirs[i].surface \ Before(i) <=> m \in MadeAt(i))
    BY <1>2, <2>1 DEF Grew
  <2>5. m \in MadeAt(i) <=> e \in made
    BY <2>1 DEF MadeAt
  <2> QED
    BY <1>2, <2>1, <2>2, <2>3, <2>4, <2>5 DEF Grew
<1>5. Blamed(steps, dirs, baseline) \subseteq Modules \X (1..N)
  BY <1>1 DEF Blamed, Introduced
<1> QED
  BY <1>1, <1>4, <1>5

\* The verdict blames the agents that made modules, and none else.
Judged ==
    /\ verdict.graded => verdict.blamed = made /\ (verdict.passed => made = {})
    /\ ~verdict.graded => ~verdict.passed /\ verdict.blamed = {}

LEMMA JudgedKept ==
    ASSUME Shape, SurfacesTell, Judged, Operator = "careful", [Next]_vars
    PROVE  Judged'
<1>1. CASE Grade
  <2>1. /\ verdict' = Verdict(steps, dirs, baseline, lib) /\ made' = made
        /\ Blamed(steps, dirs, baseline) = made
    BY <1>1, GradeIs, BlamedAreMade DEF Orderly
  <2>2. /\ verdict'.graded /\ verdict'.blamed = Blamed(steps, dirs, baseline)
        /\ verdict'.passed => Blamed(steps, dirs, baseline) = {}
    BY <2>1 DEF Verdict
  <2> QED
    BY <2>1, <2>2 DEF Judged
<1>2. CASE Agent
  <2>1. ~verdict.graded /\ verdict' = verdict
    BY <1>2, AgentIs DEF Shape, Place
  <2> QED
    BY <2>1 DEF Judged
<1>3. CASE UNCHANGED <<verdict, made>>
  BY <1>3 DEF Judged
<1>4. Grade \/ Agent \/ UNCHANGED <<verdict, made>>
  BY DEF Next, RunnerStep, vars, Start, CopySkeleton, TakeBaseline, Resume, Break, BeginStep,
         AllSteps, CopyFile, NextReplay, OverlayApplied, Clean, Command, Materialize,
         WriteRunFiles, SurfaceBeforeAgent, EnsurePins, SnapReports, SnapFiles,
         SurfaceAfterAgent
<1> QED
  BY <1>1, <1>2, <1>3, <1>4


LEMMA BlameInvariant ==
    ASSUME Operator = "careful"
    PROVE  Spec => [](Shape /\ SurfacesTell /\ Judged)
<1>1. Init => Shape /\ SurfacesTell /\ Judged
  <2> SUFFICES ASSUME Init PROVE Shape /\ SurfacesTell /\ Judged
    OBVIOUS
  <2>1. SurfacesTell
    BY DEF Init, SurfacesTell
  <2>2. Judged
    BY DEF Init, Judged, NoVerdict
  <2> QED
    BY <2>1, <2>2, InitShape
<1>2. Shape /\ SurfacesTell /\ Judged /\ [Next]_vars => (Shape /\ SurfacesTell /\ Judged)'
  BY ShapeKept, SurfacesKept, JudgedKept DEF Orderly
<1> QED
  BY <1>1, <1>2, PTL DEF Spec

\* Where an operator resumes a run where it stopped, and has it run to its end,
\* a scenario in which an agent made a module does not pass.
THEOREM BreachNeverPasses ==
    ASSUME Operator = "careful"
    PROVE  Spec => []BreachesFail
<1>1. Judged => BreachesFail
  BY DEF Judged, BreachesFail
<1> QED
  BY <1>1, BlameInvariant, PTL

\* And the grader blames exactly the modules that the agents made, each with
\* the step that its agent made it at.
THEOREM BlameIsExact ==
    ASSUME Operator = "careful"
    PROVE  Spec => [](BlameIsReal /\ (verdict.graded => verdict.blamed = made))
<1>1. Judged => BlameIsReal /\ (verdict.graded => verdict.blamed = made)
  BY DEF Judged, BlameIsReal
<1> QED
  BY <1>1, BlameInvariant, PTL

-----------------------------------------------------------------------------
(* Whose report a run is graded on. *)

\* A report directory of a run that ended: only pins, or the report of a process.
Wrote(report, run) ==
    /\ report.status \in {"bare"} \union ReportStatuses
    /\ report.status = "bare" \/ report.by = run

\* Nothing is snapshot unless agents run.
Blank ==
    runner.runs = 0 \/ runner.mode = "materialize" =>
        \A i, j \in 1..N : dirs[i].reports[j] = NoReport

\* The snapshot of a run that is done, if it began afresh.
Own(i) ==
    steps[i].kind = "run_task" /\ steps[i].reset => Wrote(dirs[i].reports[i], dirs[i].context)

DoneOwn == runner.mode = "run" => \A i \in 1..runner.step-1 : Own(i)

\* The reports of a run that began afresh, as they come about.
OwnAtWork ==
    runner.pc \in TaskPlaces /\ steps[runner.step].reset =>
        LET i == runner.step
            reports == problems[Task.problem].reports
        IN /\ runner.pc \in {"context", "before", "agent"} => reports[i] = NoReport
           /\ runner.pc \in {"before", "agent", "pins", "reports", "files", "after"} =>
                 dirs[i].context = runner.runs
           /\ runner.pc = "pins" => reports[i] = NoReport \/ Wrote(reports[i], runner.runs)
           /\ runner.pc = "reports" => Wrote(reports[i], runner.runs)
           /\ runner.pc \in {"files", "after"} => Wrote(dirs[i].reports[i], runner.runs)

Ungraded == ~verdict.graded => ~verdict.passed

Evidence == Blank /\ DoneOwn /\ OwnAtWork /\ EvidenceIsOwn /\ Ungraded

LEMMA BlankKept ==
    ASSUME Shape, Blank, Orderly, [Next]_vars
    PROVE  Blank'
<1>1. ASSUME UNCHANGED <<steps, dirs>>,
             runner'.runs = 0 \/ runner'.mode = "materialize" =>
                runner.runs = 0 \/ runner.mode = "materialize"
      PROVE  Blank'
  BY <1>1, SamePlan DEF Blank
<1>2. ASSUME steps' = steps, runner'.mode = runner.mode, runner'.runs = runner.runs,
             \A i, j \in 1..N : dirs[i].reports[j] = NoReport => dirs'[i].reports[j] = NoReport
      PROVE  Blank'
  BY <1>2, SamePlan DEF Blank
<1>3. ASSUME UNCHANGED vars
      PROVE  Blank'
  BY <1>1, <1>3 DEF vars
<1>4. ASSUME NEW mode \in {"run", "materialize"}, Start(mode)
      PROVE  Blank'
  BY <1>1, <1>4, StartIs
<1>5. ASSUME NEW k \in 1..N, NEW reapply \in BOOLEAN, Resume(k, reapply)
      PROVE  Blank'
  <2>1. runner'.runs # 0 /\ runner'.mode = "run" /\ UNCHANGED <<steps, dirs>>
    BY <1>5, ResumeIs
  <2> QED
    BY <1>1, <2>1
<1>6. ASSUME NEW m \in Modules, CopySkeleton(m)
      PROVE  Blank'
  BY <1>1, <1>6, CopySkeletonIs
<1>7. CASE TakeBaseline
  BY <1>1, <1>7, TakeBaselineIs DEF Moved
<1>8. CASE BeginStep
  BY <1>2, <1>8, BeginStepIs
<1>9. CASE AllSteps
  BY <1>1, <1>9, AllStepsIs
<1>10. ASSUME NEW f \in Modules \union Problems, CopyFile(f)
       PROVE  Blank'
  BY <1>1, <1>10, CopyFileIs
<1>11. CASE NextReplay
  BY <1>1, <1>11, NextReplayIs
<1>12. CASE Plain
  BY <1>2, <1>12, PlainIs DEF Moved, Surfaced
<1>13. CASE Materialize
  BY <1>1, <1>13, MaterializeIs DEF Moved
<1>14. CASE WriteRunFiles
  BY <1>2, <1>14, WriteRunFilesIs DEF Moved
<1>15. CASE SurfaceBeforeAgent
  BY <1>2, <1>15, SurfaceBeforeAgentIs DEF Moved, Surfaced
<1>16. CASE Agent
  BY <1>1, <1>16, AgentIs DEF Moved
<1>17. CASE EnsurePins
  BY <1>1, <1>17, EnsurePinsIs DEF Moved
<1>18. CASE SnapReports
  <2>1. runner'.mode = "run" /\ runner'.runs # 0 /\ steps' = steps
    BY <1>18, SnapReportsIs DEF Moved, Shape, Place
  <2> QED
    BY <2>1 DEF Blank
<1>19. CASE SnapFiles
  BY <1>2, <1>19, SnapFilesIs DEF Moved
<1>20. CASE SurfaceAfterAgent
  BY <1>2, <1>20, SurfaceAfterAgentIs DEF Moved, Surfaced
<1>21. CASE Break
  BY <1>1, <1>21, BreakIs DEF Moved
<1>22. CASE Grade
  BY <1>1, <1>22, GradeIs
<1> QED
  BY <1>3, <1>4, <1>5, <1>6, <1>7, <1>8, <1>9, <1>10, <1>11, <1>12, <1>13, <1>14,
     <1>15, <1>16, <1>17, <1>18, <1>19, <1>20, <1>21, <1>22 DEF Next, RunnerStep, Plain

LEMMA DoneOwnKept ==
    ASSUME Shape, DoneOwn, OwnAtWork, Orderly, [Next]_vars
    PROVE  DoneOwn'
<1>1. ASSUME steps' = steps, runner'.mode = "run" => runner.mode = "run" \/ runner.step = 1,
             runner'.step <= runner.step, runner'.step \in Nat,
             \A j \in 1..N : j # runner.step => dirs'[j] = dirs[j]
      PROVE  DoneOwn'
  <2>1. ASSUME runner'.mode = "run", NEW i \in 1..runner'.step-1
        PROVE  Own(i)'
    <3>1. i \in 1..runner.step-1 /\ i \in 1..N /\ i # runner.step /\ runner.mode = "run"
      BY <1>1, <2>1, Numbers
    <3> QED
      BY <1>1, <3>1 DEF DoneOwn, Own
  <2> QED
    BY <2>1 DEF DoneOwn
<1>2. ASSUME steps' = steps, runner.step \in 1..N, Surfaced(runner.step),
             Moved("step", runner.step + 1),
             runner.mode = "run" => steps[runner.step].kind # "run_task" \/ runner.pc = "after"
      PROVE  DoneOwn'
  <2> SUFFICES ASSUME runner.mode = "run", NEW i \in 1..runner.step
               PROVE  Own(i)'
    BY <1>2, Numbers DEF DoneOwn, Moved
  <2>1. CASE i # runner.step
    <3>1. i \in 1..runner.step-1 /\ i \in 1..N
      BY <1>2, <2>1, Numbers
    <3> QED
      BY <1>2, <2>1, <3>1 DEF DoneOwn, Own, Surfaced
  <2>2. CASE i = runner.step
    <3>1. dirs'[i].reports = dirs[i].reports /\ dirs'[i].context = dirs[i].context
      BY <1>2, <2>2 DEF Surfaced
    <3>2. steps[i].kind = "run_task" /\ steps[i].reset =>
             Wrote(dirs[i].reports[i], runner.runs) /\ dirs[i].context = runner.runs
      BY <1>2, <2>2 DEF OwnAtWork, TaskPlaces
    <3> QED
      BY <1>2, <3>1, <3>2 DEF Own
  <2> QED
    BY <2>1, <2>2
<1>3. ASSUME UNCHANGED vars
      PROVE  DoneOwn'
  BY <1>1, <1>3, Numbers DEF vars
<1>4. ASSUME NEW mode \in {"run", "materialize"}, Start(mode)
      PROVE  DoneOwn'
  <2>1. runner.step = 1
    BY <1>4, StartIs DEF Shape, Place
  <2> QED
    BY <1>1, <1>4, <2>1, StartIs
<1>5. ASSUME NEW k \in 1..N, NEW reapply \in BOOLEAN, Resume(k, reapply)
      PROVE  DoneOwn'
  BY <1>1, <1>5, ResumeIs
<1>6. ASSUME NEW m \in Modules, CopySkeleton(m)
      PROVE  DoneOwn'
  BY <1>1, <1>6, CopySkeletonIs, Numbers
<1>7. CASE TakeBaseline
  BY <1>1, <1>7, TakeBaselineIs, Numbers DEF Moved
<1>8. CASE BeginStep
  BY <1>1, <1>8, BeginStepIs, Numbers
<1>9. CASE AllSteps
  BY <1>1, <1>9, AllStepsIs, Numbers
<1>10. ASSUME NEW f \in Modules \union Problems, CopyFile(f)
       PROVE  DoneOwn'
  BY <1>1, <1>10, CopyFileIs, Numbers
<1>11. CASE NextReplay
  BY <1>1, <1>11, NextReplayIs, Numbers
<1>12. CASE Plain
  <2>1. steps[runner.step].kind # "run_task"
    BY <1>12, PlainIs
  <2> QED
    BY <1>2, <1>12, <2>1, PlainIs
<1>13. CASE Materialize
  BY <1>1, <1>13, MaterializeIs, Numbers DEF Moved
<1>14. CASE WriteRunFiles
  BY <1>1, <1>14, WriteRunFilesIs, Numbers DEF Moved
<1>15. CASE SurfaceBeforeAgent
  <2>1. CASE Moved("agent", runner.step)
    BY <1>1, <1>15, <2>1, SurfaceBeforeAgentIs, Numbers DEF Moved, Surfaced
  <2>2. CASE runner.mode = "materialize" /\ Moved("step", runner.step + 1)
    BY <2>2 DEF DoneOwn, Moved
  <2> QED
    BY <1>15, <2>1, <2>2, SurfaceBeforeAgentIs
<1>16. CASE Agent
  BY <1>1, <1>16, AgentIs, Numbers DEF Moved
<1>17. CASE EnsurePins
  BY <1>1, <1>17, EnsurePinsIs, Numbers DEF Moved
<1>18. CASE SnapReports
  BY <1>1, <1>18, SnapReportsIs, Numbers DEF Moved
<1>19. CASE SnapFiles
  BY <1>1, <1>19, SnapFilesIs, Numbers DEF Moved
<1>20. CASE SurfaceAfterAgent
  BY <1>2, <1>20, SurfaceAfterAgentIs
<1>21. CASE Break
  BY <1>1, <1>21, BreakIs, Numbers DEF Moved
<1>22. CASE Grade
  BY <1>1, <1>22, GradeIs, Numbers
<1> QED
  BY <1>3, <1>4, <1>5, <1>6, <1>7, <1>8, <1>9, <1>10, <1>11, <1>12, <1>13, <1>14,
     <1>15, <1>16, <1>17, <1>18, <1>19, <1>20, <1>21, <1>22 DEF Next, RunnerStep, Plain

LEMMA OwnAtWorkKept ==
    ASSUME Shape, OwnAtWork, Orderly, [Next]_vars
    PROVE  OwnAtWork'
<1>1. ASSUME runner'.pc \notin TaskPlaces
      PROVE  OwnAtWork'
  BY <1>1 DEF OwnAtWork, TaskPlaces
<1>2. ASSUME steps' = steps, runner'.step = runner.step
      PROVE  Task' = Task
  BY <1>2 DEF Task
<1>3. ASSUME UNCHANGED <<steps, problems, dirs, runner>>
      PROVE  OwnAtWork'
  BY <1>3 DEF OwnAtWork, Task
<1>4. ASSUME NEW mode \in {"run", "materialize"}, Start(mode)
      PROVE  OwnAtWork'
  BY <1>1, <1>4, StartIs DEF TaskPlaces
<1>5. ASSUME NEW k \in 1..N, NEW reapply \in BOOLEAN, Resume(k, reapply)
      PROVE  OwnAtWork'
  BY <1>1, <1>5, ResumeIs DEF TaskPlaces
<1>6. ASSUME NEW m \in Modules, CopySkeleton(m)
      PROVE  OwnAtWork'
  BY <1>1, <1>6, CopySkeletonIs DEF TaskPlaces
<1>7. CASE TakeBaseline \/ AllSteps \/ NextReplay \/ Plain \/ SurfaceAfterAgent \/ Break
  <2>1. runner'.pc \in {"step", "off", "overlay"}
    BY <1>7, TakeBaselineIs, AllStepsIs, NextReplayIs, PlainIs, SurfaceAfterAgentIs, BreakIs
       DEF Moved
  <2> QED
    BY <1>1, <2>1 DEF TaskPlaces
<1>8. CASE BeginStep
  <2>1. runner'.pc \in {"run_task", "apply_overlay", "clean", "lake_build", "run_cmd"}
    BY <1>8, BeginStepIs, StepKinds DEF Shape, Types
  <2> QED
    BY <2>1 DEF OwnAtWork, TaskPlaces
<1>9. ASSUME NEW f \in Modules \union Problems, CopyFile(f)
      PROVE  OwnAtWork'
  BY <1>1, <1>9, CopyFileIs DEF TaskPlaces
<1>10. CASE Materialize
  <2>1. runner.step \in 1..N
    BY <1>10, CurrentTask DEF Materialize, TaskPlaces
  <2> QED
    BY <1>2, <1>10, <2>1, MaterializeIs DEF OwnAtWork, Moved
<1>11. CASE WriteRunFiles
  BY <1>2, <1>11, WriteRunFilesIs DEF OwnAtWork, Moved, TaskPlaces
<1>12. CASE SurfaceBeforeAgent
  BY <1>2, <1>12, SurfaceBeforeAgentIs DEF OwnAtWork, Moved, TaskPlaces, Surfaced
<1>13. CASE Agent
  <2>1. \A status \in ReportStatuses : Wrote(ReportOf(status, runner.runs), runner.runs)
    BY DEF Wrote, ReportOf
  <2> QED
    BY <1>2, <1>13, <2>1, AgentIs DEF OwnAtWork, Moved, TaskPlaces
<1>14. CASE EnsurePins
  <2>1. Wrote(Bare, runner.runs)
    BY DEF Wrote, Bare
  <2> QED
    BY <1>2, <1>14, <2>1, EnsurePinsIs DEF OwnAtWork, Moved, TaskPlaces
<1>15. CASE SnapReports
  BY <1>2, <1>15, SnapReportsIs DEF OwnAtWork, Moved, TaskPlaces
<1>16. CASE SnapFiles
  BY <1>2, <1>16, SnapFilesIs DEF OwnAtWork, Moved, TaskPlaces
<1>17. CASE Grade
  BY <1>1, <1>17, GradeIs DEF TaskPlaces
<1> QED
  BY <1>3, <1>4, <1>5, <1>6, <1>7, <1>8, <1>9, <1>10, <1>11, <1>12, <1>13, <1>14,
     <1>15, <1>16, <1>17 DEF Next, RunnerStep, Plain, vars

\* The report a run is graded on: its own if there is one, and none where no
\* run has a report.
\* Only the grader writes the verdict, and once it has nothing changes.
LEMMA GradedStays ==
    ASSUME Shape, [Next]_vars
    PROVE  /\ steps' = steps
           /\ ~ Grade => verdict' = verdict
           /\ ~ Grade /\ verdict.graded => UNCHANGED vars
<1>1. steps' = steps /\ (~ Grade => verdict' = verdict)
  BY DEF Next, RunnerStep, vars, Start, CopySkeleton, TakeBaseline, Resume, Break,
         BeginStep, AllSteps, CopyFile, NextReplay, OverlayApplied, Clean, Command,
         Materialize, WriteRunFiles, SurfaceBeforeAgent, EnsurePins, SnapReports,
         SnapFiles, SurfaceAfterAgent, Agent, GoodAgent, PoorAgent, AgentMakesTool,
         AgentLeaves, Grade
<1>2. ASSUME ~ Grade, verdict.graded
      PROVE  UNCHANGED vars
  <2>1. runner.pc = "off" /\ runner.runs > 0
    BY <1>2 DEF Shape, Place
  <2> QED
    BY <1>2, <2>1 DEF Next, RunnerStep, Start, CopySkeleton, TakeBaseline, Resume, Break,
         BeginStep, AllSteps, CopyFile, NextReplay, OverlayApplied, Clean, Command,
         Materialize, WriteRunFiles, SurfaceBeforeAgent, EnsurePins, SnapReports,
         SnapFiles, SurfaceAfterAgent, Agent, GoodAgent, PoorAgent, AgentMakesTool
<1> QED
  BY <1>1, <1>2

LEMMA LocatedIs ==
    ASSUME NEW dir, NEW i
    PROVE  /\ dir.reports[i] # NoReport => Located(dir, i) = dir.reports[i]
           /\ dir.reports[i] = NoReport /\ (\A j \in DOMAIN dir.reports : dir.reports[j] = NoReport)
                 => Located(dir, i) = NoReport
<1> DEFINE kids == {j \in DOMAIN dir.reports : dir.reports[j] # NoReport}
<1>1. ASSUME dir.reports[i] # NoReport
      PROVE  Located(dir, i) = dir.reports[i]
  BY <1>1, Zenon DEF Located
<1>2. ASSUME dir.reports[i] = NoReport, \A j \in DOMAIN dir.reports : dir.reports[j] = NoReport
      PROVE  Located(dir, i) = NoReport
  <2>1. kids = {}
    BY <1>2
  <2>2. Cardinality(kids) # 1
    BY <2>1, FS_EmptySet
  <2> QED
    BY <1>2, <2>2, Zenon DEF Located
<1> QED
  BY <1>1, <1>2

LEMMA GradedOnOwn ==
    ASSUME Shape, Blank, DoneOwn, runner.ended,
           Verdict(steps, dirs, baseline, lib).passed,
           NEW i \in 1..N, steps[i].kind = "run_task", steps[i].reset
    PROVE  Located(dirs[i], i).by = dirs[i].context
<1>1. StepPasses(steps, dirs, i)
  <2>1. DOMAIN steps = 1..N
    BY DEF Shape, Types, N
  <2> QED
    BY <2>1 DEF Verdict
<1>2. Located(dirs[i], i).status = steps[i].variant.expected
        /\ steps[i].variant.expected \in ReportStatuses
  <2>1. steps[i].variant \in Variant
    BY StepKinds DEF Shape, Types
  <2> QED
    BY <1>1, <2>1 DEF StepPasses, TaskPasses, Variant
<1>3. CASE runner.mode = "run"
  <2>1. runner.step = N + 1 /\ N \in Nat
    BY Numbers DEF Shape, Place
  <2>2. Wrote(dirs[i].reports[i], dirs[i].context)
    BY <1>3, <2>1 DEF DoneOwn, Own
  <2>3. dirs[i].reports[i] # NoReport
    BY <2>2 DEF Wrote, NoReport, ReportStatuses
  <2> QED
    BY <1>2, <2>2, <2>3, LocatedIs DEF Wrote, ReportStatuses
<1>4. CASE runner.mode # "run"
  <2>1. runner.mode = "materialize" /\ DOMAIN dirs[i].reports = 1..N
    BY <1>4 DEF Shape, Types, Runner, Dir
  <2>2. Located(dirs[i], i) = NoReport
    BY <2>1, LocatedIs DEF Blank
  <2> QED
    BY <1>2, <2>2 DEF NoReport, ReportStatuses
<1> QED
  BY <1>3, <1>4

LEMMA EvidenceKept ==
    ASSUME Shape, Evidence, Orderly, [Next]_vars
    PROVE  Evidence'
<1>1. Blank' /\ DoneOwn' /\ OwnAtWork'
  BY BlankKept, DoneOwnKept, OwnAtWorkKept DEF Evidence
<1>2. CASE Grade
  <2>1. /\ verdict' = Verdict(steps, dirs, baseline, lib) /\ runner.ended
        /\ UNCHANGED <<steps, dirs>> /\ verdict'.graded
    BY <1>2, GradeIs DEF Verdict
  <2>2. EvidenceIsOwn'
    BY <2>1, GradedOnOwn, SamePlan DEF EvidenceIsOwn, Evidence
  <2> QED
    BY <1>1, <2>1, <2>2 DEF Evidence, Ungraded
<1>3. CASE ~Grade
  <2>1. verdict' = verdict
    BY <1>3, GradedStays
  <2>2. CASE verdict.graded
    BY <1>1, <1>3, <2>2, GradedStays, SamePlan DEF vars, Evidence, EvidenceIsOwn, Ungraded
  <2>3. CASE ~verdict.graded
    BY <1>1, <2>1, <2>3 DEF Evidence, EvidenceIsOwn, Ungraded
  <2> QED
    BY <2>2, <2>3
<1> QED
  BY <1>2, <1>3

\* Where an operator resumes a run where it stopped, or runs it again from an
\* earlier step, with the overlays before it, and has it run to its end, each
\* run that begins from a fresh fixture is graded on a report that the agent of
\* its last process wrote.
THEOREM GradedOnOwnEvidence ==
    ASSUME Orderly
    PROVE  Spec => []EvidenceIsOwn
<1>1. Init => Shape /\ Evidence
  <2> SUFFICES ASSUME Init PROVE Shape /\ Evidence
    OBVIOUS
  <2>1. Shape
    BY InitShape
  <2>2. Blank
    BY DEF Init, Blank, NoDir, EmptyDir
  <2>3. DoneOwn /\ OwnAtWork
    BY DEF Init, DoneOwn, OwnAtWork, TaskPlaces
  <2>4. EvidenceIsOwn /\ Ungraded
    BY DEF Init, NoVerdict, EvidenceIsOwn, Ungraded
  <2> QED
    BY <2>1, <2>2, <2>3, <2>4 DEF Evidence
<1>2. Shape /\ Evidence /\ [Next]_vars => (Shape /\ Evidence)'
  BY ShapeKept, EvidenceKept
<1>3. Evidence => EvidenceIsOwn
  BY DEF Evidence
<1> QED
  BY <1>1, <1>2, <1>3, PTL DEF Spec

-----------------------------------------------------------------------------
(* The library at the end. *)

\* The process has copied the module of an overlay, or is past the overlay.
Applied(m, j) ==
    IF runner.pc \in {"overlay", "apply_overlay"}
    THEN j < runner.at \/ (j = runner.at /\ m \notin runner.todo)
    ELSE (runner.pc \notin {"copy", "off"} \/ runner.ended) /\ j < runner.step

\* The last overlay with the module so far.
Newest(m, j) ==
    /\ j \in Overlays(m) /\ Applied(m, j)
    /\ \A k \in Overlays(m) : Applied(m, k) => k <= j

AsOverlaid ==
    \A m \in Modules : \A j \in Overlays(m) :
        Newest(m, j) => m \in DOMAIN lib /\ lib[m] = steps[j].overlay.lib[m]

\* The skeleton as far as it is copied, and what no overlay has.
AsInRepo ==
    /\ runner.pc = "copy" =>
          DOMAIN lib = DOMAIN Repo \ runner.todo /\ \A m \in DOMAIN lib : lib[m] = Repo[m]
    /\ baseline # NoSurface =>
          \A m \in Modules : Overlays(m) = {} =>
              /\ m \in DOMAIN lib <=> m \in DOMAIN Repo
              /\ m \in DOMAIN lib => lib[m] = Repo[m]

Progress == made = {} => AsOverlaid /\ AsInRepo

\* Nothing is copied, and what counts as applied stays or is to be applied anew.
LEMMA ProgressStays ==
    ASSUME Progress, UNCHANGED <<steps, lib, made>>,
           \/ \A m \in Modules : \A j \in Overlays(m) : Applied(m, j)' <=> Applied(m, j)
           \/ \A m \in Modules : \A j \in Overlays(m) : ~ Applied(m, j)',
           baseline' = baseline, runner'.pc # "copy"
    PROVE  Progress'
<1> SUFFICES ASSUME made = {}
             PROVE  AsOverlaid' /\ AsInRepo'
  BY DEF Progress
<1>1. \A m : Overlays(m)' = Overlays(m)
  BY DEF Overlays, N
<1>2. AsInRepo'
  BY <1>1 DEF AsInRepo, Progress
<1>3. ASSUME NEW m \in Modules, NEW j \in Overlays(m), Newest(m, j)'
      PROVE  m \in DOMAIN lib /\ lib[m] = steps[j].overlay.lib[m]
  <2>1. Applied(m, j)' /\ \A k \in Overlays(m) : Applied(m, k)' => k <= j
    BY <1>1, <1>3 DEF Newest
  <2>2. Newest(m, j)
    BY <2>1, <1>3 DEF Newest
  <2> QED
    BY <1>3, <2>2 DEF Progress, AsOverlaid
<1> QED
  BY <1>1, <1>2, <1>3 DEF AsOverlaid

LEMMA OverlaysAre ==
    ASSUME Shape, NEW m, NEW j \in Overlays(m)
    PROVE  /\ j \in 1..N /\ steps[j].kind = "apply_overlay"
           /\ m \in DOMAIN steps[j].overlay.lib /\ m \in Files(j)
<1>1. /\ j \in 1..N /\ steps[j].kind = "apply_overlay"
      /\ m \in DOMAIN steps[j].overlay.lib
  BY DEF Overlays
<1>2. Files(j) = DOMAIN steps[j].overlay.lib \union steps[j].overlay.specs
  BY <1>1, OverlayIs DEF Shape, Types
<1> QED
  BY <1>1, <1>2

LEMMA ProgressOfCopy ==
    ASSUME Shape, Progress, NEW f \in Modules \union Problems, CopyFile(f)
    PROVE  Progress'
<1> SUFFICES ASSUME made = {}
             PROVE  AsOverlaid' /\ AsInRepo'
  BY CopyFileIs DEF Progress
<1> PICK at \in 1..N : at = runner.at
  BY CopyFileIs
<1>1. /\ UNCHANGED <<steps, baseline>>
      /\ runner.pc \in {"overlay", "apply_overlay"} /\ f \in runner.todo
      /\ steps[at].kind = "apply_overlay"
      /\ f \notin Modules => lib' = lib
      /\ runner'.todo = runner.todo \ {f} /\ runner'.pc = runner.pc
      /\ runner'.at = at
  BY CopyFileIs
<1>2. ASSUME f \in Modules
      PROVE  /\ at \in Overlays(f)
             /\ f \in DOMAIN lib' /\ lib'[f] = steps[at].overlay.lib[f]
             /\ DOMAIN lib' = DOMAIN lib \union {f}
             /\ \A x \in DOMAIN lib : x # f => lib'[x] = lib[x]
  <2> DEFINE imports == steps[at].overlay.lib[f]
  <2>1. /\ f \in DOMAIN steps[at].overlay.lib /\ imports \in SUBSET Modules
        /\ lib' = With(f, imports) /\ lib \in Library
    BY <1>2, CopyFileIs DEF Shape, Types
  <2>2. at \in Overlays(f)
    BY <1>1, <2>1 DEF Overlays
  <2> HIDE DEF imports
  <2>3. /\ DOMAIN lib' = DOMAIN lib \union {f} /\ lib'[f] = imports
        /\ \A x \in DOMAIN lib : x # f => lib'[x] = lib[x]
    BY <1>2, <2>1, WithIs
  <2> QED
    BY <2>2, <2>3 DEF imports
<1>3. \A m : Overlays(m)' = Overlays(m)
  BY <1>1 DEF Overlays, N
<1>4. /\ \A m, j : Applied(m, j) <=> j < at \/ (j = at /\ m \notin runner.todo)
      /\ \A m, j : Applied(m, j)' <=> j < at \/ (j = at /\ m \notin runner.todo \ {f})
  BY <1>1 DEF Applied
<1>5. ASSUME NEW m \in Modules, NEW j \in Overlays(m), Newest(m, j)'
      PROVE  m \in DOMAIN lib' /\ lib'[m] = steps[j].overlay.lib[m]
  <2>1. /\ j \in 1..N /\ Applied(m, j)'
        /\ \A k \in Overlays(m) : Applied(m, k)' => k <= j
    BY <1>3, <1>5, OverlaysAre DEF Newest
  <2>2. CASE m = f
    <3>1. at \in Overlays(f) /\ Applied(f, at)'
      BY <1>2, <1>4, <2>2
    <3>2. j = at
      BY <1>4, <2>1, <2>2, <3>1
    <3> QED
      BY <1>2, <2>2, <3>2
  <2>3. CASE m # f
    <3>1. \A k : Applied(m, k)' <=> Applied(m, k)
      BY <1>4, <2>3
    <3>2. Newest(m, j)
      BY <2>1, <3>1 DEF Newest
    <3>3. m \in DOMAIN lib /\ lib[m] = steps[j].overlay.lib[m]
      BY <3>2 DEF Progress, AsOverlaid
    <3> QED
      BY <1>1, <1>2, <2>3, <3>3
  <2> QED
    BY <2>2, <2>3
<1>6. AsOverlaid'
  BY <1>1, <1>3, <1>5 DEF AsOverlaid
<1>7. AsInRepo'
  <2>1. ASSUME NEW m \in Modules, Overlays(m) = {}, baseline # NoSurface
        PROVE  /\ m \in DOMAIN lib' <=> m \in DOMAIN Repo
               /\ m \in DOMAIN lib' => lib'[m] = Repo[m]
    <3>1. /\ m \in DOMAIN lib <=> m \in DOMAIN Repo
          /\ m \in DOMAIN lib => lib[m] = Repo[m]
      BY <2>1 DEF Progress, AsInRepo
    <3>2. f \in Modules => m # f
      BY <1>2, <2>1
    <3> QED
      BY <1>1, <1>2, <3>1, <3>2
  <2> QED
    BY <1>1, <1>3, <2>1 DEF AsInRepo
<1> QED
  BY <1>6, <1>7

LEMMA ProgressKept ==
    ASSUME Shape, Progress, Orderly, [Next]_vars
    PROVE  Progress'
<1> DEFINE Same == \A m \in Modules : \A j \in Overlays(m) : Applied(m, j)' <=> Applied(m, j)
<1>1. CASE UNCHANGED vars \/ Grade
  <2>1. UNCHANGED <<steps, lib, made, baseline, runner>>
    BY <1>1, GradeIs DEF vars
  <2> QED
    BY <2>1 DEF Progress, AsOverlaid, AsInRepo, Newest, Applied, Overlays, N
<1>2. ASSUME NEW mode \in {"run", "materialize"}, Start(mode)
      PROVE  Progress'
  <2>1. lib = <<>> /\ baseline = NoSurface
    BY <1>2, StartIs DEF Shape, Place
  <2>2. AsInRepo'
    BY <1>2, <2>1, StartIs DEF AsInRepo
  <2>3. AsOverlaid'
    BY <1>2, StartIs DEF AsOverlaid, Newest, Applied, Shape, Place
  <2> QED
    BY <2>2, <2>3 DEF Progress
<1>3. ASSUME NEW k \in 1..N, NEW reapply \in BOOLEAN, Resume(k, reapply)
      PROVE  Progress'
  <2>1. ASSUME NEW m \in Modules, NEW j \in Overlays(m)
        PROVE  ~ Applied(m, j)'
    <3>1. j \in 1..N /\ steps[j].kind = "apply_overlay" /\ m \in Files(j) /\ N \in Nat
      BY OverlaysAre, Numbers
    <3>2. /\ runner'.step = k /\ ~runner'.ended /\ runner'.at \in 1..k
          /\ \A i \in 1..k-1 : steps[i].kind = "apply_overlay" => runner'.at <= i
          /\ IF runner'.at < k
             THEN runner'.pc = "overlay" /\ runner'.todo = Files(runner'.at)
             ELSE runner'.pc = "step"
      BY <1>3, ResumeIs
    <3>3. j < k => runner'.at <= j
      BY <3>1, <3>2
    <3> QED
      BY <3>1, <3>2, <3>3 DEF Applied
  <2>2. runner'.pc # "copy" /\ UNCHANGED <<steps, lib, made, baseline>>
    BY <1>3, ResumeIs
  <2> QED
    BY <2>1, <2>2, ProgressStays
<1>4. ASSUME NEW m \in Modules, CopySkeleton(m)
      PROVE  Progress'
  <2>1. /\ DOMAIN lib' = DOMAIN lib \union {m} /\ lib'[m] = Repo[m]
        /\ \A x \in DOMAIN lib : x # m => lib'[x] = lib[x]
    <3>1. lib \in Library /\ lib' = With(m, Repo[m]) /\ Repo[m] \in SUBSET Modules
      BY <1>4, CopySkeletonIs DEF Shape, Types
    <3> QED
      BY <3>1, WithIs
  <2>2. /\ runner.pc = "copy" /\ runner'.pc = "copy" /\ baseline' = NoSurface /\ made' = made
        /\ m \in DOMAIN Repo /\ m \in runner.todo /\ runner'.todo = runner.todo \ {m}
        /\ ~runner.ended /\ runner'.ended = runner.ended
    BY <1>4, CopySkeletonIs DEF Shape, Place
  <2>3. made = {} => AsInRepo'
    BY <2>1, <2>2 DEF AsInRepo, Progress
  <2>4. AsOverlaid'
    BY <2>2 DEF AsOverlaid, Newest, Applied
  <2> QED
    BY <2>2, <2>3, <2>4 DEF Progress
<1>5. CASE TakeBaseline
  <2>1. /\ runner.pc = "copy" /\ runner.todo = {} /\ runner'.pc = "step" /\ runner'.step = 1
        /\ UNCHANGED <<steps, lib, made>>
    BY <1>5, TakeBaselineIs DEF Moved, Shape, Place
  <2>2. made = {} => AsInRepo'
    BY <2>1 DEF AsInRepo, Progress
  <2>3. AsOverlaid'
    <3>1. ASSUME NEW m \in Modules, NEW j \in Overlays(m)'
          PROVE  ~ Applied(m, j)'
      <4>1. j \in 1..N
        BY <2>1, <3>1, SamePlan DEF Overlays
      <4> QED
        BY <2>1, <4>1, Numbers DEF Applied
    <3> QED
      BY <3>1 DEF AsOverlaid, Newest
  <2> QED
    BY <2>1, <2>2, <2>3 DEF Progress
<1>6. CASE BeginStep
  <2>1. Same
    <3> SUFFICES ASSUME NEW m \in Modules, NEW j \in Overlays(m)
                 PROVE  Applied(m, j)' <=> Applied(m, j)
      OBVIOUS
    <3>1. m \in Files(j) /\ j \in 1..N /\ steps[j].kind = "apply_overlay"
      BY OverlaysAre
    <3>2. /\ runner.pc = "step" /\ runner'.pc = steps[runner.step].kind
          /\ runner'.at = runner.step /\ runner'.step = runner.step
          /\ runner'.todo = Files(runner.step) /\ runner.step \in 1..N
      BY <1>6, BeginStepIs
    <3>3. steps[runner.step].kind
            \in {"run_task", "apply_overlay", "clean", "lake_build", "run_cmd"}
      BY <3>2, StepKinds DEF Shape, Types
    <3> QED
      BY <3>1, <3>2, <3>3 DEF Applied
  <2>2. runner'.pc # "copy"
    BY <1>6, BeginStepIs, StepKinds DEF Shape, Types
  <2> QED
    BY <1>6, <2>1, <2>2, BeginStepIs, ProgressStays
<1>7. CASE AllSteps
  <2>1. runner'.ended /\ ~runner.ended
    BY <1>7 DEF AllSteps, Shape, Place, Types, Runner
  <2>2. Same
    BY <1>7, <2>1, AllStepsIs DEF Applied
  <2> QED
    BY <1>7, <2>2, AllStepsIs, ProgressStays
<1>8. ASSUME NEW f \in Modules \union Problems, CopyFile(f)
      PROVE  Progress'
  BY <1>8, ProgressOfCopy
<1>9. CASE NextReplay
  <2>1. Same
    <3> SUFFICES ASSUME NEW m \in Modules, NEW j \in Overlays(m)
                 PROVE  Applied(m, j)' <=> Applied(m, j)
      OBVIOUS
    <3>1. m \in Files(j) /\ j \in 1..N /\ steps[j].kind = "apply_overlay"
      BY OverlaysAre
    <3>2. /\ runner.pc = "overlay" /\ runner.todo = {} /\ runner.at \in 1..runner.step-1
          /\ runner'.at \in runner.at+1..runner.step
          /\ \A i \in runner.at+1..runner.step-1 :
                steps[i].kind = "apply_overlay" => runner'.at <= i
          /\ IF runner'.at < runner.step
             THEN runner'.pc = "overlay" /\ runner'.todo = Files(runner'.at)
             ELSE runner'.pc = "step"
          /\ runner'.step = runner.step /\ runner.step \in Nat
      BY <1>9, NextReplayIs, Numbers
    <3>3. Applied(m, j) <=> j <= runner.at
      BY <3>1, <3>2 DEF Applied
    <3>4. j > runner.at /\ j < runner.step => runner'.at <= j
      BY <3>1, <3>2
    <3>5. CASE runner'.at < runner.step
      BY <3>1, <3>2, <3>3, <3>4, <3>5 DEF Applied
    <3>6. CASE ~(runner'.at < runner.step)
      BY <3>1, <3>2, <3>3, <3>4, <3>6 DEF Applied
    <3> QED
      BY <3>5, <3>6
  <2>2. runner'.pc # "copy"
    BY <1>9, NextReplayIs
  <2> QED
    BY <1>9, <2>1, <2>2, NextReplayIs, ProgressStays
<1>10. CASE Plain
  <2>1. Same
    <3> SUFFICES ASSUME NEW m \in Modules, NEW j \in Overlays(m)
                 PROVE  Applied(m, j)' <=> Applied(m, j)
      OBVIOUS
    <3>1. j \in 1..N /\ steps[j].kind = "apply_overlay"
      BY OverlaysAre
    <3>2. /\ runner.pc \in {"apply_overlay", "clean", "lake_build", "run_cmd"}
          /\ runner.pc = "apply_overlay" => runner.todo = {} /\ runner.at = runner.step
          /\ steps[runner.step].kind = runner.pc
          /\ runner'.pc = "step" /\ runner'.step = runner.step + 1 /\ runner.step \in Nat
      BY <1>10, PlainIs, Numbers DEF Moved
    <3> QED
      BY <3>1, <3>2 DEF Applied
  <2> QED
    BY <1>10, <2>1, PlainIs, ProgressStays DEF Moved
<1>11. ASSUME runner.pc \in TaskPlaces, UNCHANGED <<steps, lib, made, baseline>>,
              \/ runner'.pc \in TaskPlaces /\ runner'.step = runner.step
              \/ runner'.pc = "step" /\ runner'.step = runner.step + 1
       PROVE  Progress'
  <2>1. Same
    <3> SUFFICES ASSUME NEW m \in Modules, NEW j \in Overlays(m)
                 PROVE  Applied(m, j)' <=> Applied(m, j)
      OBVIOUS
    <3>1. j \in 1..N /\ steps[j].kind = "apply_overlay"
      BY OverlaysAre
    <3>2. steps[runner.step].kind = "run_task" /\ runner.step \in Nat
      BY <1>11, Numbers DEF Shape, Place
    <3> QED
      BY <1>11, <3>1, <3>2 DEF Applied, TaskPlaces
  <2>2. runner'.pc # "copy"
    BY <1>11 DEF TaskPlaces
  <2> QED
    BY <1>11, <2>1, <2>2, ProgressStays
<1>12. CASE \/ Materialize \/ WriteRunFiles \/ SurfaceBeforeAgent \/ EnsurePins
            \/ SnapReports \/ SnapFiles \/ SurfaceAfterAgent
  BY <1>11, <1>12, MaterializeIs, WriteRunFilesIs, SurfaceBeforeAgentIs, EnsurePinsIs,
     SnapReportsIs, SnapFilesIs, SurfaceAfterAgentIs DEF Moved, TaskPlaces
<1>13. CASE Agent
  <2>1. CASE UNCHANGED <<lib, made>>
    BY <1>11, <1>13, <2>1, AgentIs DEF Moved, TaskPlaces
  <2>2. CASE made' # {}
    BY <2>2 DEF Progress
  <2> QED
    BY <1>13, <2>1, <2>2, AgentIs
<1>14. CASE Break
  <2>1. runner'.pc = "off" /\ ~runner'.ended
    BY <1>14, BreakIs DEF Moved, Shape, Place
  <2>2. \A m \in Modules : \A j \in Overlays(m) : ~ Applied(m, j)'
    BY <2>1 DEF Applied
  <2> QED
    BY <1>14, <2>1, <2>2, BreakIs, ProgressStays
<1> QED
  BY <1>1, <1>2, <1>3, <1>4, <1>5, <1>6, <1>7, <1>8, <1>9, <1>10, <1>12, <1>13, <1>14
     DEF Next, RunnerStep, Plain

LEMMA GreatestNatural ==
    ASSUME NEW n \in Nat, NEW S \in SUBSET (1..n), S # {}
    PROVE  Max(S) \in S /\ \A k \in S : k <= Max(S)
<1> DEFINE D == {n - k : k \in S}
<1>0. \A k \in S : k \in Nat /\ k \in 1..n /\ n - k \in Nat
  OBVIOUS
<1>1. D \in SUBSET Nat /\ D # {}
  BY <1>0
<1>2. PICK d \in D : \A e \in D : d <= e
  BY <1>1, LeastNatural
<1>3. PICK x \in S : d = n - x
  BY <1>2
<1>4. ASSUME NEW k \in S
      PROVE  k <= x
  <2>1. n - k \in D
    OBVIOUS
  <2>2. n - x <= n - k
    BY <1>2, <1>3, <2>1
  <2> QED
    BY <1>0, <2>2
<1>5. \E y \in S : \A k \in S : y >= k
  BY <1>0, <1>4
<1>6. Max(S) \in S /\ \A k \in S : Max(S) >= k
  BY <1>5 DEF Max
<1> QED
  BY <1>0, <1>6

LEMMA LastOverlayIs ==
    ASSUME Shape, NEW m, Overlays(m) # {}
    PROVE  Max(Overlays(m)) \in Overlays(m) /\ \A k \in Overlays(m) : k <= Max(Overlays(m))
<1>1. N \in Nat /\ Overlays(m) \in SUBSET (1..N)
  BY Numbers DEF Overlays
<1> QED
  BY <1>1, GreatestNatural

LEMMA EndIsPatched ==
    ASSUME Shape, Progress, runner.ended, made = {}
    PROVE  lib = Patched
<1>1. /\ N \in Nat /\ runner.step = N + 1 /\ runner.pc = "off" /\ baseline # NoSurface
      /\ lib \in Library /\ AsOverlaid /\ AsInRepo
  BY Numbers DEF Progress, Shape, Place, Types
<1>2. ASSUME NEW m \in Modules, Overlays(m) # {}
      PROVE  m \in DOMAIN lib /\ lib[m] = steps[Max(Overlays(m))].overlay.lib[m]
  <2> DEFINE j == Max(Overlays(m))
  <2>1. j \in Overlays(m) /\ j \in 1..N /\ \A k \in Overlays(m) : k <= j
    BY <1>2, LastOverlayIs, OverlaysAre
  <2>2. Applied(m, j)
    BY <1>1, <2>1 DEF Applied
  <2>3. Newest(m, j)
    BY <2>1, <2>2 DEF Newest
  <2> QED
    BY <1>1, <2>1, <2>3 DEF AsOverlaid
<1>3. ASSUME NEW m \in Modules, Overlays(m) = {}
      PROVE  /\ m \in DOMAIN lib <=> m \in DOMAIN Repo
             /\ m \in DOMAIN lib => lib[m] = Repo[m]
  BY <1>1, <1>3 DEF AsInRepo
<1>4. DOMAIN lib \subseteq Modules /\ DOMAIN Repo \subseteq Modules
      /\ lib = [m \in DOMAIN lib |-> lib[m]]
  BY <1>1, LibraryIs, ScenariosAssumption
<1>5. \A m : Overlays(m) # {} => m \in Modules
  BY OverlaysAre, OverlayIs DEF Shape, Types
<1>6. DOMAIN lib = DOMAIN Repo \union {m \in Modules : Overlays(m) # {}}
  BY <1>2, <1>3, <1>4
<1>7. \A m \in DOMAIN lib :
         lib[m] = IF Overlays(m) = {} THEN Repo[m]
                  ELSE steps[Max(Overlays(m))].overlay.lib[m]
  BY <1>2, <1>3, <1>4
<1> QED
  BY <1>4, <1>6, <1>7 DEF Patched

\* However often a run was broken and resumed, where it stopped or from an
\* earlier step with the overlays before it, at its end the shared workspace has
\* the library of an uninterrupted run, unless an agent changed it.
THEOREM OverlaysConverge ==
    ASSUME Orderly
    PROVE  Spec => []LibraryConverges
<1>1. Init => Shape /\ Progress
  <2> SUFFICES ASSUME Init PROVE Shape /\ Progress
    OBVIOUS
  <2>1. Progress
    BY DEF Init, Progress, AsOverlaid, AsInRepo, Newest, Applied
  <2> QED
    BY <2>1, InitShape
<1>2. Shape /\ Progress /\ [Next]_vars => (Shape /\ Progress)'
  BY ShapeKept, ProgressKept
<1>3. Shape /\ Progress => LibraryConverges
  BY EndIsPatched DEF LibraryConverges
<1> QED
  BY <1>1, <1>2, <1>3, PTL DEF Spec

-----------------------------------------------------------------------------
(* What the steps write into problems and step directories.                *)

\* Proofs and goals are left alone.
GoalsStay ==
    \A p \in Problems : /\ problems'[p].proof = problems[p].proof
                        /\ problems'[p].solvable = problems[p].solvable

LEMMA CopyFileWrites ==
    ASSUME Shape, NEW f \in Modules \union Problems, CopyFile(f)
    PROVE  /\ DOMAIN lib \subseteq DOMAIN lib'
           /\ \A p \in Problems : /\ problems'[p].proof = problems[p].proof
                                  /\ problems'[p].solvable <=> problems[p].solvable \/ p = f
<1>1. problems \in [Problems -> Problem(N)] /\ lib \in Library
  BY DEF Shape, Types
<1>2. CASE f \in Modules
  <2>1. problems' = problems /\ f \notin Problems
    BY <1>2, NamesAssumption DEF CopyFile
  <2> DEFINE imports == steps[runner.at].overlay.lib[f]
  <2>2. lib' = With(f, imports) /\ imports \in SUBSET Modules
    BY <1>2, CopyFileIs
  <2> HIDE DEF imports
  <2>3. DOMAIN lib' = DOMAIN lib \union {f}
    BY <1>1, <1>2, <2>2, WithIs
  <2> QED
    BY <2>1, <2>3
<1>3. CASE f \notin Modules
  <2>1. /\ lib' = lib /\ f \in Problems
        /\ problems' = [problems EXCEPT ![f].solvable = TRUE]
    BY <1>3 DEF CopyFile
  <2>2. problems[f] \in Problem(N)
    BY <1>1, <2>1
  <2>3. [problems[f] EXCEPT !.solvable = TRUE].proof = problems[f].proof
          /\ [problems[f] EXCEPT !.solvable = TRUE].solvable
    BY <2>2 DEF Problem
  <2> QED
    BY <1>1, <2>1, <2>3
<1> QED
  BY <1>2, <1>3

LEMMA PlainWrites ==
    ASSUME Shape, Plain
    PROVE  GoalsStay
<1>1. CASE Clean
  <2>1. ASSUME NEW p \in Problems
        PROVE  /\ problems'[p].proof = problems[p].proof
               /\ problems'[p].solvable = problems[p].solvable
    <3>1. problems[p] \in Problem(N)
      BY DEF Shape, Types
    <3>2. problems'[p] = [problems[p] EXCEPT !.reports = [i \in 1..N |-> NoReport]]
      BY <1>1 DEF Clean
    <3> QED
      BY <3>1, <3>2 DEF Problem
  <2> QED
    BY <2>1 DEF GoalsStay
<1>2. CASE problems' = problems
  BY <1>2 DEF GoalsStay
<1> QED
  BY <1>1, <1>2 DEF Plain, OverlayApplied, Command

LEMMA BeginStepWrites ==
    ASSUME Shape, BeginStep
    PROVE  /\ dirs'[runner.step].made
           /\ dirs'[runner.step].proof \in {dirs[runner.step].proof, NoProof}
<1> DEFINE i == runner.step
<1>1. i \in 1..N /\ dirs[i] \in Dir(N) /\ dirs \in [1..N -> Dir(N)]
  BY CurrentStep DEF BeginStep, Shape, Types
<1>2. dirs' = [dirs EXCEPT ![i] = IF Resumed /\ i = runner.from
                                  THEN EmptyDir(N) ELSE [@ EXCEPT !.made = TRUE]]
  BY DEF BeginStep
<1>3. CASE Resumed /\ i = runner.from
  <2>1. dirs'[i] = EmptyDir(N)
    BY <1>1, <1>2, <1>3
  <2> QED
    BY <2>1 DEF EmptyDir
<1>4. CASE ~(Resumed /\ i = runner.from)
  <2>1. dirs'[i] = [dirs[i] EXCEPT !.made = TRUE]
    BY <1>1, <1>2, <1>4
  <2> QED
    BY <1>1, <2>1 DEF Dir
<1> QED
  BY <1>3, <1>4

LEMMA MaterializeWrites ==
    ASSUME Shape, Materialize
    PROVE  /\ \A p \in Problems : p # Task.problem => problems'[p] = problems[p]
           /\ steps[runner.step].reset =>
                 /\ problems'[Task.problem].proof = [done |-> FALSE, imports |-> {Hub}]
                 /\ problems'[Task.problem].solvable = Task.prepared
           /\ ~steps[runner.step].reset => problems' = problems
<1>1. Task.problem \in Problems /\ problems \in [Problems -> Problem(N)]
  BY CurrentTask DEF Materialize, TaskPlaces, Shape, Types
<1>2. problems' = IF steps[runner.step].reset
                  THEN [problems EXCEPT ![Task.problem] = Fixture(Task)] ELSE problems
  BY DEF Materialize
<1>3. /\ Fixture(Task).proof = [done |-> FALSE, imports |-> {Hub}]
      /\ Fixture(Task).solvable = Task.prepared
  BY DEF Fixture
<1> QED
  BY <1>1, <1>2, <1>3

LEMMA WriteRunFilesWrites ==
    ASSUME Shape, WriteRunFiles
    PROVE  /\ dirs'[runner.step].proof = dirs[runner.step].proof
           /\ dirs'[runner.step].made = dirs[runner.step].made
<1>1. runner.step \in 1..N /\ dirs[runner.step] \in Dir(N) /\ dirs \in [1..N -> Dir(N)]
  BY CurrentTask, CurrentStep DEF WriteRunFiles, TaskPlaces, Shape, Types
<1>2. dirs'[runner.step] = [dirs[runner.step] EXCEPT !.context = runner.runs]
  BY <1>1 DEF WriteRunFiles
<1> QED
  BY <1>1, <1>2 DEF Dir

LEMMA SnapReportsWrites ==
    ASSUME Shape, SnapReports
    PROVE  /\ dirs'[runner.step].proof = dirs[runner.step].proof
           /\ dirs'[runner.step].made = dirs[runner.step].made
<1>1. runner.step \in 1..N /\ dirs[runner.step] \in Dir(N) /\ dirs \in [1..N -> Dir(N)]
  BY CurrentTask, CurrentStep DEF SnapReports, TaskPlaces, Shape, Types
<1> DEFINE reports == problems[Task.problem].reports
<1>2. dirs'[runner.step] = [dirs[runner.step] EXCEPT !.reports = reports]
  BY <1>1 DEF SnapReports
<1> HIDE DEF reports
<1> QED
  BY <1>1, <1>2 DEF Dir

LEMMA SnapFilesWrites ==
    ASSUME Shape, SnapFiles
    PROVE  /\ dirs'[runner.step].proof = problems[Task.problem].proof
           /\ dirs'[runner.step].made = dirs[runner.step].made
<1>1. runner.step \in 1..N /\ dirs[runner.step] \in Dir(N) /\ dirs \in [1..N -> Dir(N)]
  BY CurrentTask, CurrentStep DEF SnapFiles, TaskPlaces, Shape, Types
<1> DEFINE proof == problems[Task.problem].proof
<1>2. dirs'[runner.step] = [dirs[runner.step] EXCEPT !.proof = proof]
  BY <1>1 DEF SnapFiles
<1> HIDE DEF proof
<1>3. dirs'[runner.step].proof = proof /\ dirs'[runner.step].made = dirs[runner.step].made
  BY <1>1, <1>2 DEF Dir
<1> QED
  BY <1>3 DEF proof

LEMMA EnsurePinsWrites ==
    ASSUME Shape, EnsurePins
    PROVE  GoalsStay
<1> DEFINE q == Task.problem
           new == [problems[q].reports EXCEPT
                      ![runner.step] = IF @ = NoReport THEN Bare ELSE @]
<1>1. q \in Problems /\ problems \in [Problems -> Problem(N)]
  BY CurrentTask DEF EnsurePins, TaskPlaces, Shape, Types
<1>2. problems' = [problems EXCEPT ![q] = [problems[q] EXCEPT !.reports = new]]
  BY <1>1 DEF EnsurePins, Problem
<1> HIDE DEF q, new
<1>3. /\ [problems[q] EXCEPT !.reports = new].proof = problems[q].proof
      /\ [problems[q] EXCEPT !.reports = new].solvable = problems[q].solvable
  BY <1>1 DEF Problem
<1> QED
  BY <1>1, <1>2, <1>3 DEF GoalsStay

LEMMA AgentLeavesWrites ==
    ASSUME Shape, runner.pc = "agent", NEW proof, NEW status, AgentLeaves(proof, status)
    PROVE  /\ \A p \in Problems : problems'[p].solvable = problems[p].solvable
           /\ \A p \in Problems : p # Task.problem => problems'[p].proof = problems[p].proof
           /\ problems'[Task.problem].proof = proof
           /\ status # "bare" =>
                 problems'[Task.problem].reports[runner.step] = ReportOf(status, runner.runs)
<1> DEFINE q == Task.problem
           i == runner.step
           new == [problems[q].reports EXCEPT
                      ![i] = IF status = "bare" THEN @ ELSE ReportOf(status, runner.runs)]
<1>1. q \in Problems /\ problems \in [Problems -> Problem(N)] /\ i \in 1..N
  BY CurrentTask DEF TaskPlaces, Shape, Types
<1>2. problems' = [problems EXCEPT ![q] =
                     [problems[q] EXCEPT !.proof = proof, !.reports = new]]
  <2>1. problems' = [problems EXCEPT
              ![q].proof = proof,
              ![q].reports[i] = IF status = "bare" THEN @ ELSE ReportOf(status, runner.runs)]
    BY DEF AgentLeaves
  <2> QED
    BY <1>1, <2>1 DEF Problem
<1>3. status # "bare" => new[i] = ReportOf(status, runner.runs)
  BY <1>1 DEF Problem
<1> HIDE DEF q, i, new
<1>4. LET n == [problems[q] EXCEPT !.proof = proof, !.reports = new]
      IN n.proof = proof /\ n.reports = new /\ n.solvable = problems[q].solvable
  BY <1>1 DEF Problem
<1>5. problems'[q].proof = proof /\ problems'[q].reports = new
        /\ problems'[q].solvable = problems[q].solvable
        /\ \A p \in Problems : p # q => problems'[p] = problems[p]
  BY <1>1, <1>2, <1>4
<1> QED
  BY <1>3, <1>5 DEF q, i

LEMMA AgentWrites ==
    ASSUME Shape, Agent
    PROVE  /\ \A p \in Problems : problems'[p].solvable = problems[p].solvable
           /\ \A p \in Problems : p # Task.problem => problems'[p].proof = problems[p].proof
           /\ problems'[Task.problem].proof.imports \subseteq DOMAIN lib' \union {Hub}
           /\ DOMAIN lib \subseteq DOMAIN lib'
           /\ made \subseteq made' /\ (made' = {} => lib' = lib)
<1>1. CASE \E tools \in SUBSET Modules : GoodAgent(tools)
  <2>1. PICK tools \in SUBSET Modules : GoodAgent(tools)
    BY <1>1
  <2> DEFINE proof == [done |-> problems[Task.problem].solvable, imports |-> {Hub} \union tools]
             status == IF problems[Task.problem].solvable THEN "SUCCESS" ELSE "TRIAGED"
  <2>2. /\ runner.pc = "agent" /\ UNCHANGED <<lib, made>> /\ tools \subseteq DOMAIN lib
        /\ AgentLeaves(proof, status)
    BY <2>1 DEF GoodAgent
  <2>3. proof.imports \subseteq DOMAIN lib \union {Hub}
    BY <2>2
  <2> HIDE DEF proof, status
  <2> QED
    BY <2>2, <2>3, AgentLeavesWrites
<1>2. CASE \E status \in {"bare", "SUCCESS"} : PoorAgent(status)
  <2>1. PICK status \in {"bare", "SUCCESS"} : PoorAgent(status)
    BY <1>2
  <2> DEFINE proof == [done |-> FALSE, imports |-> {Hub}]
  <2>2. runner.pc = "agent" /\ UNCHANGED <<lib, made>> /\ AgentLeaves(proof, status)
    BY <2>1 DEF PoorAgent
  <2>3. proof.imports \subseteq DOMAIN lib \union {Hub}
    OBVIOUS
  <2> HIDE DEF proof
  <2> QED
    BY <2>2, <2>3, AgentLeavesWrites
<1>3. CASE \E m \in Modules : AgentMakesTool(m)
  <2>1. PICK m \in Modules : AgentMakesTool(m)
    BY <1>3
  <2> DEFINE proof == [done |-> TRUE, imports |-> {Hub, m}]
  <2>2. /\ runner.pc = "agent" /\ lib' = With(m, {})
        /\ made' = made \union {<<m, runner.step>>}
        /\ AgentLeaves(proof, Task.expected)
    BY <2>1 DEF AgentMakesTool
  <2>3. DOMAIN lib' = DOMAIN lib \union {m}
    BY <2>2 DEF With
  <2>4. proof.imports \subseteq DOMAIN lib' \union {Hub}
    BY <2>3
  <2> HIDE DEF proof
  <2> QED
    BY <2>2, <2>3, <2>4, AgentLeavesWrites
<1> QED
  BY <1>1, <1>2, <1>3 DEF Agent

-----------------------------------------------------------------------------
(* The reuse that is reported.                                             *)

\* What several roots reach, one of them reaches.
LEMMA ReachSplits ==
    ASSUME NEW roots, NEW l, NEW m \in DOMAIN l, m \in Reachable(roots, l)
    PROVE  \E x \in roots \intersect DOMAIN l : m \in Reachable({x}, l)
<1> DEFINE files == DOMAIN l
           Closed(R) == {S \in SUBSET files : /\ R \intersect files \subseteq S
                                              /\ \A k \in S : l[k] \intersect files \subseteq S}
           U == {k \in files : \E x \in roots \intersect files : k \in Reachable({x}, l)}
<1>1. \A R : Reachable(R, l) = R \union {k \in files : \A S \in Closed(R) : k \in S}
  BY DEF Reachable, Surface
<1>2. roots \intersect files \subseteq U
  BY <1>1
<1>3. ASSUME NEW k \in U, NEW i \in l[k] \intersect files
      PROVE  i \in U
  <2>1. PICK x \in roots \intersect files : k \in Reachable({x}, l)
    OBVIOUS
  <2>2. ASSUME NEW S \in Closed({x})
        PROVE  i \in S
    <3>1. k \in S
      BY <1>1, <2>1
    <3> QED
      BY <3>1
  <2>3. i \in Reachable({x}, l)
    BY <1>1, <2>2
  <2> QED
    BY <2>3
<1>4. U \in Closed(roots)
  BY <1>2, <1>3
<1>5. m \in U
  <2>1. CASE m \in roots
    BY <1>2, <2>1
  <2>2. CASE \A S \in Closed(roots) : m \in S
    BY <1>4, <2>2
  <2> QED
    BY <1>1, <2>1, <2>2
<1> QED
  BY <1>5

LEMMA ReachJoins ==
    ASSUME NEW roots, NEW l, NEW x \in roots
    PROVE  Reachable({x}, l) \subseteq Reachable(roots, l)
BY DEF Reachable, Surface

\* What a run imports reaches, in the library at the end, no more of the modules
\* of that time than it did then.
LEMMA NothingLate ==
    ASSUME NoLateReach, NEW s \in Scenarios, steps = ExpandSteps(s), NEW n \in 1..N,
           steps[n].kind = "run_task", N \in Nat,
           NEW imports, imports \subseteq DOMAIN PlannedLibrary(steps, n) \union {Hub},
           NEW m \in DOMAIN PlannedLibrary(steps, n),
           m \in Reachable(imports, PlannedLibrary(steps, N + 1))
    PROVE  m \in Reachable(imports, PlannedLibrary(steps, n))
<1> DEFINE then == PlannedLibrary(steps, n)
           end == PlannedLibrary(steps, N + 1)
<1>1. /\ DOMAIN then = DOMAIN Repo \union {k \in Modules : PlanOverlays(steps, k, n) # {}}
      /\ DOMAIN end = DOMAIN Repo \union {k \in Modules : PlanOverlays(steps, k, N + 1) # {}}
  BY DEF PlannedLibrary
<1>2. \A k : PlanOverlays(steps, k, n) \subseteq PlanOverlays(steps, k, N + 1)
  BY DEF PlanOverlays
<1>3. DOMAIN then \subseteq DOMAIN end /\ imports \subseteq DOMAIN then
  BY <1>1, <1>2 DEF NoLateReach
<1>4. PICK x \in imports : m \in Reachable({x}, end)
  BY <1>3, ReachSplits
<1>5. m \in Reachable({x}, then)
  BY <1>3, <1>4 DEF NoLateReach, N
<1> QED
  BY <1>5, ReachJoins

\* A step either writes modules, or leaves them alone and goes on, if at all,
\* to the next step.
LEMMA QuietStep ==
    ASSUME Shape, Operator = "careful", [Next]_vars
    PROVE  \/ \E mode \in {"run", "materialize"} : Start(mode)
           \/ \E m \in Modules : CopySkeleton(m)
           \/ TakeBaseline \/ Agent
           \/ \E f \in Modules \union Problems : CopyFile(f)
           \/ /\ UNCHANGED <<steps, lib, baseline, made>>
              /\ \/ runner'.step = runner.step
                 \/ runner'.step = runner.step + 1
<1>1. CASE UNCHANGED vars \/ Grade
  BY <1>1, GradeIs DEF vars
<1>2. ASSUME NEW k \in 1..N, NEW reapply \in BOOLEAN, Resume(k, reapply)
      PROVE  UNCHANGED <<steps, lib, baseline, made>> /\ runner'.step = runner.step
  BY <1>2, ResumeIs DEF Orderly
<1>3. CASE Break \/ AllSteps \/ BeginStep \/ NextReplay
  BY <1>3, BreakIs, AllStepsIs, BeginStepIs, NextReplayIs DEF Moved
<1>4. CASE Plain
  BY <1>4, PlainIs DEF Moved
<1>5. CASE Materialize \/ WriteRunFiles \/ SurfaceBeforeAgent \/ EnsurePins
  BY <1>5, MaterializeIs, WriteRunFilesIs, SurfaceBeforeAgentIs, EnsurePinsIs DEF Moved
<1>6. CASE SnapReports \/ SnapFiles \/ SurfaceAfterAgent
  BY <1>6, SnapReportsIs, SnapFilesIs, SurfaceAfterAgentIs DEF Moved
<1> QED
  BY <1>1, <1>2, <1>3, <1>4, <1>5, <1>6 DEF Next, RunnerStep, Plain

\* What the overlays from here on write is still as in the repository.
Ahead ==
    baseline # NoSurface /\ made = {} =>
        \A m \in Modules : (\A j \in Overlays(m) : j > runner.step) =>
            /\ m \in DOMAIN lib <=> m \in DOMAIN Repo
            /\ m \in DOMAIN lib => lib[m] = Repo[m]

\* Proofs import modules that there are.
Imports ==
    /\ \A p \in Problems : problems[p].proof.imports \subseteq DOMAIN lib \union {Hub}
    /\ \A i \in 1..N : dirs[i].proof.imports \subseteq DOMAIN lib \union {Hub}

\* A run that is done left the library of its time, and its proof imports from it.
Taken ==
    baseline # NoSurface /\ made = {} =>
        \A i \in 1..runner.step-1 : steps[i].kind = "run_task" =>
            /\ dirs[i].lib = PlannedLibrary(steps, i)
            /\ dirs[i].surface = DOMAIN dirs[i].lib
            /\ dirs[i].proof.imports \subseteq DOMAIN dirs[i].lib \union {Hub}

LEMMA AheadKept ==
    ASSUME Shape, Progress, Ahead, Operator = "careful", [Next]_vars
    PROVE  Ahead'
<1> DEFINE AsIs(m, l) == /\ m \in DOMAIN l <=> m \in DOMAIN Repo
                         /\ m \in DOMAIN l => l[m] = Repo[m]
<1>0. runner.step \in Nat /\ N \in Nat
  BY Numbers
<1>1. CASE \E mode \in {"run", "materialize"} : Start(mode)
  BY <1>1, StartIs DEF Ahead, Shape, Place
<1>2. CASE \E m \in Modules : CopySkeleton(m)
  BY <1>2, CopySkeletonIs DEF Ahead, Shape, Place
<1>3. CASE TakeBaseline
  <2>1. /\ UNCHANGED <<steps, lib, made>> /\ runner.pc = "copy" /\ runner.todo = {}
        /\ made = {}
    BY <1>3, TakeBaselineIs DEF Shape, Place
  <2>2. \A m \in Modules : AsIs(m, lib)
    BY <2>1 DEF Progress, AsInRepo
  <2> QED
    BY <2>1, <2>2 DEF Ahead
<1>4. CASE Agent
  <2>1. /\ UNCHANGED <<steps, baseline>> /\ runner'.step = runner.step
        /\ made \subseteq made' /\ (made' = {} => lib' = lib)
    BY <1>4, AgentIs, AgentWrites DEF Moved
  <2>2. \A m : Overlays(m)' = Overlays(m)
    BY <2>1 DEF Overlays, N
  <2> QED
    BY <2>1, <2>2 DEF Ahead
<1>5. ASSUME NEW f \in Modules \union Problems, CopyFile(f)
      PROVE  Ahead'
  <2> PICK at \in 1..N : at = runner.at
    BY <1>5, CopyFileIs
  <2>1. /\ UNCHANGED <<steps, baseline, made>> /\ runner'.step = runner.step
        /\ at <= runner.step
    BY <1>0, <1>5, CopyFileIs DEF Shape, Place
  <2>2. \A m : Overlays(m)' = Overlays(m)
    BY <2>1 DEF Overlays, N
  <2>3. ASSUME NEW m \in Modules, \A j \in Overlays(m) : j > runner.step
        PROVE  AsIs(m, lib) => AsIs(m, lib')
    <3>1. CASE f \in Modules
      <4>1. /\ steps[at].kind = "apply_overlay" /\ f \in DOMAIN steps[at].overlay.lib
            /\ lib' = With(f, steps[at].overlay.lib[f])
        BY <1>5, <3>1, CopyFileIs
      <4>2. at \in Overlays(f)
        BY <4>1 DEF Overlays
      <4>3. m # f
        BY <1>0, <2>1, <2>3, <4>2
      <4>4. /\ DOMAIN lib' = DOMAIN lib \union {f}
            /\ \A x \in DOMAIN lib : x # f => lib'[x] = lib[x]
        BY <4>1 DEF With
      <4> QED
        BY <4>3, <4>4
    <3>2. CASE f \notin Modules
      BY <1>5, <3>2, CopyFileIs
    <3> QED
      BY <3>1, <3>2
  <2> QED
    BY <2>1, <2>2, <2>3 DEF Ahead
<1>6. ASSUME UNCHANGED <<steps, lib, baseline, made>>,
             runner'.step = runner.step \/ runner'.step = runner.step + 1
      PROVE  Ahead'
  <2>1. \A m : Overlays(m)' = Overlays(m)
    BY <1>6 DEF Overlays, N
  <2>2. ASSUME NEW m \in Modules, \A j \in Overlays(m) : j > runner'.step
        PROVE  \A j \in Overlays(m) : j > runner.step
    <3>1. \A j \in Overlays(m) : j \in Nat
      BY <1>0 DEF Overlays
    <3> QED
      BY <1>0, <1>6, <2>2, <3>1
  <2> QED
    BY <1>6, <2>1, <2>2 DEF Ahead
<1> QED
  BY <1>1, <1>2, <1>3, <1>4, <1>5, <1>6, QuietStep

\* Files are not removed from the library.
LEMMA LibraryGrows ==
    ASSUME Shape, Operator = "careful", [Next]_vars
    PROVE  DOMAIN lib \subseteq DOMAIN lib' /\ N' = N
<1>1. ASSUME NEW mode \in {"run", "materialize"}, Start(mode)
      PROVE  lib' = lib /\ steps' = steps
  BY <1>1, StartIs
<1>2. ASSUME NEW m \in Modules, CopySkeleton(m)
      PROVE  DOMAIN lib \subseteq DOMAIN lib' /\ steps' = steps
  BY <1>2, CopySkeletonIs DEF With
<1>3. CASE TakeBaseline
  BY <1>3, TakeBaselineIs, SamePlan
<1>4. CASE Agent
  BY <1>4, AgentIs, AgentWrites, SamePlan
<1>5. ASSUME NEW f \in Modules \union Problems, CopyFile(f)
      PROVE  DOMAIN lib \subseteq DOMAIN lib' /\ steps' = steps
  BY <1>5, CopyFileIs, CopyFileWrites
<1> QED
  BY <1>1, <1>2, <1>3, <1>4, <1>5, QuietStep, SamePlan

\* A step writes the directory of the runner's step, if any.
LEMMA OtherDirsStay ==
    ASSUME Shape, Operator = "careful", [Next]_vars
    PROVE  \A j \in 1..N : j # runner.step => dirs'[j] = dirs[j]
<1>1. CASE UNCHANGED vars \/ Grade \/ Agent \/ TakeBaseline \/ Break \/ AllSteps \/ NextReplay
  BY <1>1, GradeIs, AgentIs, TakeBaselineIs, BreakIs, AllStepsIs, NextReplayIs DEF vars
<1>2. CASE BeginStep \/ Plain
  BY <1>2, BeginStepIs, PlainIs DEF Surfaced
<1>3. CASE Materialize \/ WriteRunFiles \/ SurfaceBeforeAgent \/ EnsurePins
  BY <1>3, MaterializeIs, WriteRunFilesIs, SurfaceBeforeAgentIs, EnsurePinsIs DEF Surfaced
<1>4. CASE SnapReports \/ SnapFiles \/ SurfaceAfterAgent
  BY <1>4, SnapReportsIs, SnapFilesIs, SurfaceAfterAgentIs DEF Surfaced
<1>5. ASSUME NEW mode \in {"run", "materialize"}, Start(mode)
      PROVE  dirs' = dirs
  BY <1>5, StartIs
<1>6. ASSUME NEW k \in 1..N, NEW reapply \in BOOLEAN, Resume(k, reapply)
      PROVE  dirs' = dirs
  BY <1>6, ResumeIs DEF Orderly
<1>7. ASSUME NEW m \in Modules, CopySkeleton(m)
      PROVE  dirs' = dirs
  BY <1>7, CopySkeletonIs
<1>8. ASSUME NEW f \in Modules \union Problems, CopyFile(f)
      PROVE  dirs' = dirs
  BY <1>8, CopyFileIs
<1> QED
  BY <1>1, <1>2, <1>3, <1>4, <1>5, <1>6, <1>7, <1>8 DEF Next, RunnerStep, Plain

LEMMA ImportsKept ==
    ASSUME Shape, Imports, Operator = "careful", [Next]_vars
    PROVE  Imports'
<1> DEFINE All == DOMAIN lib \union {Hub}
           i == runner.step
<1>1. DOMAIN lib \subseteq DOMAIN lib' /\ N' = N
  BY LibraryGrows
<1>2. \A p \in Problems : problems'[p].proof.imports \subseteq DOMAIN lib' \union {Hub}
  <2>1. CASE problems' = problems
    BY <1>1, <2>1 DEF Imports
  <2>2. CASE GoalsStay
    BY <1>1, <2>2 DEF GoalsStay, Imports
  <2>3. ASSUME NEW f \in Modules \union Problems, CopyFile(f)
        PROVE  GoalsStay \/ \A p \in Problems : problems'[p].proof = problems[p].proof
    BY <2>3, CopyFileWrites
  <2>4. CASE \A p \in Problems : problems'[p].proof = problems[p].proof
    BY <1>1, <2>4 DEF Imports
  <2>5. CASE Agent
    BY <1>1, <2>5, AgentWrites DEF Imports
  <2>6. CASE Materialize
    <3>1. \A p \in Problems : \/ problems'[p].proof = problems[p].proof
                              \/ problems'[p].proof = [done |-> FALSE, imports |-> {Hub}]
      BY <2>6, MaterializeWrites
    <3> QED
      BY <1>1, <3>1 DEF Imports
  <2>7. \/ problems' = problems \/ Plain \/ EnsurePins \/ Materialize \/ Agent
        \/ \E f \in Modules \union Problems : CopyFile(f)
    BY DEF Next, RunnerStep, vars, Start, CopySkeleton, TakeBaseline, Resume, Break,
         BeginStep, AllSteps, NextReplay, Plain, WriteRunFiles, SurfaceBeforeAgent,
         SnapReports, SnapFiles, SurfaceAfterAgent, Grade
  <2>8. Plain \/ EnsurePins => GoalsStay
    BY PlainWrites, EnsurePinsWrites
  <2> QED
    BY <2>1, <2>2, <2>3, <2>4, <2>5, <2>6, <2>7, <2>8
<1>3. dirs' = dirs \/ (i \in 1..N /\ dirs'[i].proof.imports \subseteq All)
  <2>1. CASE BeginStep
    <3>1. i \in 1..N /\ dirs'[i].proof \in {dirs[i].proof, NoProof}
      BY <2>1, BeginStepIs, BeginStepWrites
    <3>2. NoProof.imports = {}
      BY DEF NoProof
    <3> QED
      BY <3>1, <3>2 DEF Imports
  <2>2. CASE Plain
    BY <2>2, PlainIs DEF Surfaced, Imports
  <2>3. CASE SurfaceBeforeAgent \/ SurfaceAfterAgent
    <3>1. runner.pc \in TaskPlaces
      BY <2>3 DEF SurfaceBeforeAgent, SurfaceAfterAgent, TaskPlaces
    <3>2. i \in 1..N
      BY <3>1, CurrentTask
    <3> QED
      BY <2>3, <3>2, SurfaceBeforeAgentIs, SurfaceAfterAgentIs DEF Surfaced, Imports
  <2>4. CASE WriteRunFiles \/ SnapReports \/ SnapFiles
    <3>1. runner.pc \in TaskPlaces
      BY <2>4 DEF WriteRunFiles, SnapReports, SnapFiles, TaskPlaces
    <3>2. i \in 1..N /\ Task.problem \in Problems
      BY <3>1, CurrentTask
    <3>3. dirs'[i].proof \in {dirs[i].proof, problems[Task.problem].proof}
      BY <2>4, WriteRunFilesWrites, SnapReportsWrites, SnapFilesWrites
    <3> QED
      BY <3>2, <3>3 DEF Imports
  <2>5. \/ dirs' = dirs \/ BeginStep \/ Plain \/ SurfaceBeforeAgent \/ SurfaceAfterAgent
        \/ WriteRunFiles \/ SnapReports \/ SnapFiles
    BY DEF Next, RunnerStep, vars, Start, CopySkeleton, TakeBaseline, Resume, Break,
         AllSteps, CopyFile, NextReplay, Plain, Materialize, EnsurePins, Grade,
         Agent, GoodAgent, PoorAgent, AgentMakesTool, AgentLeaves
  <2> QED
    BY <2>1, <2>2, <2>3, <2>4, <2>5
<1>4. \A j \in 1..N : dirs'[j].proof.imports \subseteq DOMAIN lib' \union {Hub}
  BY <1>1, <1>3, OtherDirsStay DEF Imports
<1> QED
  BY <1>1, <1>2, <1>4 DEF Imports

\* At a run, and at the end, the library is the one of an uninterrupted run.
LEMMA PlannedNow ==
    ASSUME Shape, Progress, Ahead, made = {},
           runner.pc \in TaskPlaces \/ runner.ended
    PROVE  lib = PlannedLibrary(steps, runner.step)
<1> DEFINE n == runner.step
           Past(m) == PlanOverlays(steps, m, n)
<1>1. /\ N \in Nat /\ n \in 1..N+1 /\ baseline # NoSurface
      /\ lib \in Library /\ AsOverlaid
      /\ runner.pc \in TaskPlaces \/ (runner.pc = "off" /\ runner.ended /\ n = N + 1)
      /\ n <= N => steps[n].kind = "run_task"
  <2>1. N \in Nat /\ n \in 1..N+1
    BY Numbers
  <2>2. CASE runner.ended
    BY <2>1, <2>2 DEF Progress, Shape, Place, Types
  <2>3. CASE runner.pc \in TaskPlaces
    <3>1. runner.pc \notin {"off", "copy"}
      BY <2>3 DEF TaskPlaces
    <3> QED
      BY <2>1, <2>3, <3>1 DEF Progress, Shape, Place, Types
  <2> QED
    BY <2>2, <2>3
<1>2. \A m : Past(m) = {j \in Overlays(m) : j < n}
  BY <1>1 DEF PlanOverlays, Overlays
<1>3. \A m, j : Applied(m, j) <=> j < n
  BY <1>1 DEF Applied, TaskPlaces
<1>4. ASSUME NEW m \in Modules, Past(m) # {}
      PROVE  m \in DOMAIN lib /\ lib[m] = steps[Max(Past(m))].overlay.lib[m]
  <2> DEFINE j == Max(Past(m))
  <2>1. Past(m) \in SUBSET (1..N)
    BY <1>1, <1>2 DEF Overlays
  <2>2. j \in Past(m) /\ \A k \in Past(m) : k <= j
    BY <1>1, <1>4, <2>1, GreatestNatural
  <2>3. j \in Overlays(m) /\ j < n
    BY <1>2, <2>2
  <2>4. \A k \in Overlays(m) : k < n => k <= j
    BY <1>2, <2>2
  <2>5. Newest(m, j)
    BY <1>3, <2>3, <2>4 DEF Newest
  <2> QED
    BY <1>1, <2>3, <2>5 DEF AsOverlaid
<1>5. ASSUME NEW m \in Modules, Past(m) = {}
      PROVE  /\ m \in DOMAIN lib <=> m \in DOMAIN Repo
             /\ m \in DOMAIN lib => lib[m] = Repo[m]
  <2>1. \A j \in Overlays(m) : j \in 1..N /\ ~(j < n) /\ steps[j].kind = "apply_overlay"
    BY <1>2, <1>5 DEF Overlays
  <2>2. \A j \in Overlays(m) : j > n
    BY <1>1, <2>1
  <2> QED
    BY <1>1, <2>2 DEF Ahead
<1>6. DOMAIN lib \subseteq Modules /\ DOMAIN Repo \subseteq Modules
      /\ lib = [m \in DOMAIN lib |-> lib[m]]
  BY <1>1, LibraryIs, ScenariosAssumption
<1>7. DOMAIN lib = DOMAIN Repo \union {m \in Modules : Past(m) # {}}
  BY <1>4, <1>5, <1>6
<1>8. \A m \in DOMAIN lib :
         lib[m] = IF Past(m) = {} THEN Repo[m] ELSE steps[Max(Past(m))].overlay.lib[m]
  BY <1>4, <1>5, <1>6
<1> QED
  BY <1>6, <1>7, <1>8 DEF PlannedLibrary

LEMMA TakenKept ==
    ASSUME Shape, Progress, Ahead, Imports, Taken, Operator = "careful", [Next]_vars
    PROVE  Taken'
<1> DEFINE n == runner.step
           Good(d, i) == /\ d.lib = PlannedLibrary(steps, i)
                         /\ d.surface = DOMAIN d.lib
                         /\ d.proof.imports \subseteq DOMAIN d.lib \union {Hub}
<1>1. N \in Nat /\ n \in 1..N+1
  BY Numbers
<1>2. \A j \in 1..N : j # n => dirs'[j] = dirs[j]
  BY OtherDirsStay
\* Steps that are no end of a step.
<1>3. ASSUME UNCHANGED <<steps, baseline>>, made' = {} => made = {}, runner'.step = n
      PROVE  Taken'
  <2>1. ASSUME baseline # NoSurface, made = {}, NEW i \in 1..n-1, steps[i].kind = "run_task"
        PROVE  Good(dirs'[i], i)
    <3>1. i \in 1..N /\ i # n
      BY <1>1
    <3> QED
      BY <1>2, <2>1, <3>1 DEF Taken
  <2> QED
    BY <1>3, <2>1 DEF Taken
\* The end of a step.
<1>4. ASSUME UNCHANGED <<steps, baseline, made, lib>>, n \in 1..N, Surfaced(n),
             runner'.step = n + 1,
             steps[n].kind = "run_task" => runner.pc \in TaskPlaces
      PROVE  Taken'
  <2>1. ASSUME baseline # NoSurface, made = {}, NEW i \in 1..n, steps[i].kind = "run_task"
        PROVE  Good(dirs'[i], i)
    <3>1. CASE i = n
      <4>1. lib = PlannedLibrary(steps, n)
        BY <1>4, <2>1, <3>1, PlannedNow
      <4>2. /\ dirs'[n].lib = lib /\ dirs'[n].surface = DOMAIN lib
            /\ dirs'[n].proof = dirs[n].proof
        BY <1>4 DEF Surfaced
      <4>3. dirs[n].proof.imports \subseteq DOMAIN lib \union {Hub}
        BY <1>4 DEF Imports
      <4> QED
        BY <3>1, <4>1, <4>2, <4>3
    <3>2. CASE i # n
      <4>1. i \in 1..n-1 /\ i \in 1..N
        BY <1>1, <3>2
      <4> QED
        BY <1>2, <2>1, <3>2, <4>1 DEF Taken
    <3> QED
      BY <3>1, <3>2
  <2>2. 1..runner'.step-1 = 1..n
    BY <1>1, <1>4
  <2> QED
    BY <1>4, <2>1, <2>2 DEF Taken
<1>5. CASE UNCHANGED vars \/ Grade
  BY <1>3, <1>5, GradeIs DEF vars
<1>6. ASSUME NEW mode \in {"run", "materialize"}, Start(mode)
      PROVE  Taken'
  BY <1>3, <1>6, StartIs
<1>7. ASSUME NEW m \in Modules, CopySkeleton(m)
      PROVE  Taken'
  BY <1>3, <1>7, CopySkeletonIs
<1>8. CASE TakeBaseline
  <2>1. runner'.step = 1
    BY <1>8, TakeBaselineIs DEF Moved, Shape, Place
  <2> QED
    BY <2>1 DEF Taken
<1>9. ASSUME NEW k \in 1..N, NEW reapply \in BOOLEAN, Resume(k, reapply)
      PROVE  Taken'
  BY <1>3, <1>9, ResumeIs DEF Orderly
<1>10. CASE Break \/ AllSteps \/ NextReplay \/ BeginStep
  BY <1>3, <1>10, BreakIs, AllStepsIs, NextReplayIs, BeginStepIs DEF Moved
<1>11. ASSUME NEW f \in Modules \union Problems, CopyFile(f)
       PROVE  Taken'
  BY <1>3, <1>11, CopyFileIs
<1>12. CASE Plain
  <2>1. steps[n].kind # "run_task"
    BY <1>12, PlainIs
  <2> QED
    BY <1>4, <1>12, <2>1, PlainIs DEF Moved
<1>13. CASE Materialize \/ WriteRunFiles \/ EnsurePins \/ SnapReports \/ SnapFiles
  BY <1>3, <1>13, MaterializeIs, WriteRunFilesIs, EnsurePinsIs, SnapReportsIs, SnapFilesIs
     DEF Moved
<1>14. CASE SurfaceBeforeAgent \/ SurfaceAfterAgent
  <2>1. runner.pc \in TaskPlaces
    BY <1>14 DEF SurfaceBeforeAgent, SurfaceAfterAgent, TaskPlaces
  <2>2. n \in 1..N
    BY <2>1, CurrentTask
  <2>3. CASE runner'.step = n
    BY <1>3, <1>14, <2>3, SurfaceBeforeAgentIs, SurfaceAfterAgentIs
  <2>4. CASE runner'.step = n + 1
    BY <1>4, <1>14, <2>1, <2>2, <2>4, SurfaceBeforeAgentIs, SurfaceAfterAgentIs
  <2> QED
    BY <1>14, <2>3, <2>4, SurfaceBeforeAgentIs, SurfaceAfterAgentIs DEF Moved
<1>15. CASE Agent
  BY <1>3, <1>15, AgentIs, AgentWrites DEF Moved
<1> QED
  BY <1>5, <1>6, <1>7, <1>8, <1>9, <1>10, <1>11, <1>12, <1>13, <1>14, <1>15
     DEF Next, RunnerStep, Plain

\* A scenario that passes is one whose agents made nothing.
LEMMA GradedReuse ==
    ASSUME Shape, SurfacesTell, Progress, Ahead, Taken, NoLateReach, runner.ended,
           NEW s \in Scenarios, steps = ExpandSteps(s),
           Verdict(steps, dirs, baseline, lib).passed,
           NEW e \in Verdict(steps, dirs, baseline, lib).reused
    PROVE  e[1] \in Reachable(dirs[e[2]].proof.imports, dirs[e[2]].lib)
<1> DEFINE m == e[1]
           n == e[2]
           imports == dirs[n].proof.imports
<1>1. /\ N \in Nat /\ runner.step = N + 1 /\ baseline # NoSurface
      /\ DOMAIN dirs = 1..N
  BY Numbers DEF Shape, Place, Types
<1>2. made = {}
  BY BlamedAreMade DEF Verdict
<1>3. lib = PlannedLibrary(steps, N + 1)
  BY <1>1, <1>2, PlannedNow
<1>4. e \in Reused(steps, dirs, baseline, lib)
  BY DEF Verdict
<1>5. /\ n \in 1..N /\ steps[n].kind = "run_task"
      /\ m \in Reachable(imports, lib) /\ m \in dirs[n].surface
  BY <1>1, <1>4 DEF Reused
<1>6. /\ dirs[n].lib = PlannedLibrary(steps, n)
      /\ dirs[n].surface = DOMAIN dirs[n].lib
      /\ imports \subseteq DOMAIN dirs[n].lib \union {Hub}
  BY <1>1, <1>2, <1>5 DEF Taken
<1> HIDE DEF m, n, imports
<1>7. m \in Reachable(imports, PlannedLibrary(steps, n))
  BY <1>1, <1>3, <1>5, <1>6, NothingLate
<1> QED
  BY <1>6, <1>7 DEF m, n, imports

Reuse ==
    /\ \E s \in Scenarios : steps = ExpandSteps(s)
    /\ Progress /\ Ahead /\ Imports /\ Taken /\ Ungraded /\ ReuseIsReal

LEMMA ReuseKept ==
    ASSUME Shape, SurfacesTell, Reuse, NoLateReach, Operator = "careful", [Next]_vars
    PROVE  Reuse'
<1>1. steps' = steps
  BY GradedStays
<1>2. Progress' /\ Ahead' /\ Imports' /\ Taken'
  BY ProgressKept, AheadKept, ImportsKept, TakenKept DEF Reuse, Orderly
<1>3. Ungraded' /\ ReuseIsReal'
  <2>1. CASE Grade
    <3>1. /\ verdict' = Verdict(steps, dirs, baseline, lib) /\ runner.ended
          /\ UNCHANGED <<steps, dirs>> /\ verdict'.graded
      BY <2>1, GradeIs DEF Verdict, Orderly
    <3>2. ASSUME verdict'.passed, NEW e \in verdict'.reused
          PROVE  e[1] \in Reachable(dirs'[e[2]].proof.imports, dirs'[e[2]].lib)
      BY <3>1, <3>2, GradedReuse DEF Reuse
    <3> QED
      BY <3>1, <3>2 DEF Ungraded, ReuseIsReal
  <2>2. CASE ~Grade
    <3>1. verdict' = verdict
      BY <2>2, GradedStays
    <3>2. CASE verdict.graded
      BY <2>2, <3>2, GradedStays DEF vars, Reuse, ReuseIsReal, Ungraded
    <3>3. CASE ~verdict.graded
      BY <3>1, <3>3 DEF Reuse, ReuseIsReal, Ungraded
    <3> QED
      BY <3>2, <3>3
  <2> QED
    BY <2>1, <2>2
<1> QED
  BY <1>1, <1>2, <1>3 DEF Reuse

\* Where an operator resumes a run where it stopped, and no overlay makes a new
\* way between two modules that a run before it has, the reuse that a scenario
\* passes with was there when the run ended, though the grader follows the
\* imports in the library as it is when it grades.
THEOREM ReuseIsGenuine ==
    ASSUME Operator = "careful", NoLateReach
    PROVE  Spec => []ReuseIsReal
<1>1. Init => Shape /\ SurfacesTell /\ Reuse
  <2> SUFFICES ASSUME Init PROVE Shape /\ SurfacesTell /\ Reuse
    OBVIOUS
  <2>1. SurfacesTell
    BY DEF Init, SurfacesTell
  <2>2. Progress
    BY DEF Init, Progress, AsOverlaid, AsInRepo, Newest, Applied
  <2>3. Ahead /\ Taken
    BY DEF Init, Ahead, Taken
  <2>4. Imports
    BY DEF Init, Imports, NoProblem, NoProof, NoDir, EmptyDir
  <2>5. Ungraded /\ ReuseIsReal
    BY DEF Init, NoVerdict, Ungraded, ReuseIsReal
  <2>6. \E s \in Scenarios : steps = ExpandSteps(s)
    BY DEF Init
  <2> QED
    BY <2>1, <2>2, <2>3, <2>4, <2>5, <2>6, InitShape DEF Reuse
<1>2. Shape /\ SurfacesTell /\ Reuse /\ [Next]_vars => (Shape /\ SurfacesTell /\ Reuse)'
  BY ShapeKept, SurfacesKept, ReuseKept DEF Orderly
<1>3. Reuse => ReuseIsReal
  BY DEF Reuse
<1> QED
  BY <1>1, <1>2, <1>3, PTL DEF Spec

-----------------------------------------------------------------------------
(* The goals that can be proved.                                           *)

\* The places of a run after its problem is put in place.
AtWork == TaskPlaces \ {"run_task"}

\* A goal that can be proved is one the plan makes so, and the other way round,
\* but for the problem that the current step resets.
Goals ==
    \A p \in Problems :
        /\ problems[p].solvable =>
              \/ MayBeSolvable(steps, runner.step, p)
              \/ runner.step <= N /\ Makes(steps, runner.step, p)
        /\ Solvable(steps, runner.step, p) =>
              \/ problems[p].solvable
              \/ runner.step <= N /\ Resets(steps, runner.step, p)
        /\ runner.pc \in AtWork /\ Resets(steps, runner.step, p) =>
              (problems[p].solvable <=> steps[runner.step].variant.prepared)
        /\ runner.pc = "apply_overlay" /\ Patches(steps, runner.step, p) =>
              problems[p].solvable \/ p \in runner.todo

LEMMA SolvableNext ==
    ASSUME NEW plan, NEW p, NEW n \in Nat \ {0}
    PROVE  /\ Solvable(plan, n + 1, p)
                <=> Makes(plan, n, p) \/ (Solvable(plan, n, p) /\ ~ Resets(plan, n, p))
           /\ Makes(plan, n, p) => MayBeSolvable(plan, n + 1, p)
           /\ MayBeSolvable(plan, n, p) /\ ~ Resets(plan, n, p)
                => MayBeSolvable(plan, n + 1, p)
<1>1. 1..(n+1)-1 = (1..n-1) \union {n}
  OBVIOUS
<1>2. \A j \in 1..n-1 : j+1..(n+1)-1 = (j+1..n-1) \union {n}
  OBVIOUS
<1>3. n+1..(n+1)-1 = {}
  OBVIOUS
<1>4. Makes(plan, n, p) => Solvable(plan, n + 1, p)
  BY <1>1, <1>3 DEF Solvable
<1>5. Solvable(plan, n, p) /\ ~ Resets(plan, n, p) => Solvable(plan, n + 1, p)
  <2> SUFFICES ASSUME Solvable(plan, n, p), ~ Resets(plan, n, p)
               PROVE  Solvable(plan, n + 1, p)
    OBVIOUS
  <2>1. PICK j \in 1..n-1 : Makes(plan, j, p) /\ \A k \in j+1..n-1 : ~ Resets(plan, k, p)
    BY DEF Solvable
  <2>2. \A k \in j+1..(n+1)-1 : ~ Resets(plan, k, p)
    BY <1>2, <2>1
  <2> QED
    BY <1>1, <2>1, <2>2 DEF Solvable
<1>6. Solvable(plan, n + 1, p)
         => Makes(plan, n, p) \/ (Solvable(plan, n, p) /\ ~ Resets(plan, n, p))
  <2> SUFFICES ASSUME Solvable(plan, n + 1, p), ~ Makes(plan, n, p)
               PROVE  Solvable(plan, n, p) /\ ~ Resets(plan, n, p)
    OBVIOUS
  <2>1. PICK j \in 1..(n+1)-1 : /\ Makes(plan, j, p)
                                /\ \A k \in j+1..(n+1)-1 : ~ Resets(plan, k, p)
    BY DEF Solvable
  <2>2. j \in 1..n-1
    BY <1>1, <2>1
  <2>3. ~ Resets(plan, n, p) /\ \A k \in j+1..n-1 : ~ Resets(plan, k, p)
    BY <1>2, <2>1, <2>2
  <2> QED
    BY <2>1, <2>2, <2>3 DEF Solvable
<1>7. (\E j \in 1..n-1 : Patches(plan, j, p)) => \E j \in 1..(n+1)-1 : Patches(plan, j, p)
  BY <1>1
<1> QED
  BY <1>4, <1>5, <1>6, <1>7 DEF MayBeSolvable

\* Steps that leave goals and the place alone, or come to an overlay.
LEMMA GoalsStand ==
    ASSUME Shape, Goals, steps' = steps, runner'.step = runner.step,
           \A p \in Problems : problems'[p].solvable <=> problems[p].solvable,
           runner'.pc \in AtWork => runner.pc \in AtWork,
           runner'.pc = "apply_overlay" =>
              \/ runner.step \in 1..N /\ runner'.todo = Files(runner.step)
              \/ runner.pc = "apply_overlay" /\ runner'.todo = runner.todo
    PROVE  Goals'
<1> SUFFICES ASSUME NEW p \in Problems
             PROVE  /\ problems'[p].solvable =>
                          \/ MayBeSolvable(steps, runner.step, p)
                          \/ runner.step <= N /\ Makes(steps, runner.step, p)
                    /\ Solvable(steps, runner.step, p) =>
                          \/ problems'[p].solvable
                          \/ runner.step <= N /\ Resets(steps, runner.step, p)
                    /\ runner'.pc \in AtWork /\ Resets(steps, runner.step, p) =>
                          (problems'[p].solvable <=> steps[runner.step].variant.prepared)
                    /\ runner'.pc = "apply_overlay" /\ Patches(steps, runner.step, p) =>
                          problems'[p].solvable \/ p \in runner'.todo
  BY SamePlan DEF Goals
<1>1. problems'[p].solvable <=> problems[p].solvable
  OBVIOUS
<1>2. /\ problems[p].solvable =>
            \/ MayBeSolvable(steps, runner.step, p)
            \/ runner.step <= N /\ Makes(steps, runner.step, p)
      /\ Solvable(steps, runner.step, p) =>
            \/ problems[p].solvable
            \/ runner.step <= N /\ Resets(steps, runner.step, p)
      /\ runner.pc \in AtWork /\ Resets(steps, runner.step, p) =>
            (problems[p].solvable <=> steps[runner.step].variant.prepared)
      /\ runner.pc = "apply_overlay" /\ Patches(steps, runner.step, p) =>
            problems[p].solvable \/ p \in runner.todo
  BY DEF Goals
<1>3. runner.step \in 1..N /\ Patches(steps, runner.step, p) => p \in Files(runner.step)
  BY OverlayIs DEF Patches, Shape, Types
<1> QED
  BY <1>1, <1>2, <1>3

\* The end of a step.
LEMMA GoalsOnward ==
    ASSUME Shape, Goals, steps' = steps, runner.step <= N, Moved("step", runner.step + 1),
           \A p \in Problems : problems'[p].solvable <=> problems[p].solvable,
           \/ runner.pc \in AtWork
           \/ runner.pc \in {"clean", "lake_build", "run_cmd"}
           \/ runner.pc = "apply_overlay" /\ runner.todo = {}
    PROVE  Goals'
<1> DEFINE n == runner.step
<1>1. n \in Nat \ {0} /\ n \in 1..N /\ runner'.step = n + 1 /\ runner'.pc = "step"
  BY CurrentStep DEF Shape, Types, Runner, Moved
<1>2. ASSUME NEW p \in Problems
      PROVE  /\ problems'[p].solvable => MayBeSolvable(steps, n + 1, p)
             /\ Solvable(steps, n + 1, p) => problems'[p].solvable
  <2>1. problems'[p].solvable <=> problems[p].solvable
    OBVIOUS
  <2>2. /\ problems[p].solvable => MayBeSolvable(steps, n, p) \/ Makes(steps, n, p)
        /\ Solvable(steps, n, p) => problems[p].solvable \/ Resets(steps, n, p)
        /\ runner.pc \in AtWork /\ Resets(steps, n, p) =>
              (problems[p].solvable <=> steps[n].variant.prepared)
        /\ runner.pc = "apply_overlay" /\ Patches(steps, n, p) =>
              problems[p].solvable \/ p \in runner.todo
    BY DEF Goals
  <2>3. /\ runner.pc \in AtWork => steps[n].kind = "run_task"
        /\ runner.pc \notin AtWork => steps[n].kind = runner.pc
    BY DEF AtWork, Shape, Place
  <2>4. CASE Resets(steps, n, p)
    <3>1. runner.pc \in AtWork
      BY <2>3, <2>4 DEF Resets
    <3>2. Makes(steps, n, p) <=> problems[p].solvable
      BY <2>2, <2>4, <3>1 DEF Makes, Patches, Resets
    <3> QED
      BY <1>1, <2>1, <2>4, <3>2, SolvableNext
  <2>5. CASE ~ Resets(steps, n, p)
    <3>1. Makes(steps, n, p) => problems[p].solvable
      BY <2>2, <2>3, <2>5 DEF Makes, Patches
    <3> QED
      BY <1>1, <2>1, <2>2, <2>5, <3>1, SolvableNext
  <2> QED
    BY <2>4, <2>5
<1> QED
  <2>1. "step" \notin AtWork
    BY DEF AtWork, TaskPlaces
  <2> QED
    BY <1>1, <1>2, <2>1, SamePlan DEF Goals

LEMMA GoalsOfCopy ==
    ASSUME Shape, Goals, NEW f \in Modules \union Problems, CopyFile(f)
    PROVE  Goals'
<1> DEFINE n == runner.step
<1> PICK at \in 1..N : at = runner.at
  BY CopyFileIs
<1>1. /\ steps' = steps /\ runner'.step = n /\ runner'.pc = runner.pc
      /\ runner.pc \in {"overlay", "apply_overlay"} /\ f \in runner.todo
      /\ runner'.todo = runner.todo \ {f}
      /\ steps[at].kind = "apply_overlay"
  BY CopyFileIs
<1>2. n \in Nat /\ (at \in 1..n-1 \/ (at = n /\ n <= N))
        /\ (runner.pc = "apply_overlay" => at = n)
  BY <1>1, Numbers DEF Shape, Place
<1>3. f \in Problems => Patches(steps, at, f)
  <2>1. f \in Files(at)
    BY <1>1 DEF Shape, Place
  <2>2. /\ Files(at) = DOMAIN steps[at].overlay.lib \union steps[at].overlay.specs
        /\ DOMAIN steps[at].overlay.lib \subseteq Modules
    BY <1>1, OverlayIs DEF Shape, Types
  <2> QED
    BY <1>1, <2>1, <2>2, NamesAssumption DEF Patches
<1>4. ASSUME NEW p \in Problems
      PROVE  /\ problems'[p].solvable =>
                   \/ MayBeSolvable(steps, n, p)
                   \/ n <= N /\ Makes(steps, n, p)
             /\ Solvable(steps, n, p) => problems'[p].solvable \/ (n <= N /\ Resets(steps, n, p))
             /\ runner.pc = "apply_overlay" /\ Patches(steps, n, p) =>
                   problems'[p].solvable \/ p \in runner'.todo
  <2>1. problems'[p].solvable <=> problems[p].solvable \/ p = f
    BY CopyFileWrites
  <2>2. /\ problems[p].solvable =>
              \/ MayBeSolvable(steps, n, p)
              \/ n <= N /\ Makes(steps, n, p)
        /\ Solvable(steps, n, p) => problems[p].solvable \/ (n <= N /\ Resets(steps, n, p))
        /\ runner.pc = "apply_overlay" /\ Patches(steps, n, p) =>
              problems[p].solvable \/ p \in runner.todo
    BY DEF Goals
  <2>3. CASE p = f
    <3>1. MayBeSolvable(steps, n, p) \/ (n <= N /\ Makes(steps, n, p))
      BY <1>2, <1>3, <2>3 DEF MayBeSolvable, Makes
    <3> QED
      BY <2>1, <2>3, <3>1
  <2>4. CASE p # f
    BY <1>1, <2>1, <2>2, <2>4
  <2> QED
    BY <2>3, <2>4
<1>5. runner'.pc \notin AtWork
  BY <1>1 DEF AtWork, TaskPlaces
<1> QED
  BY <1>1, <1>4, <1>5, SamePlan DEF Goals

LEMMA GoalsOfFixture ==
    ASSUME Shape, Goals, Materialize
    PROVE  Goals'
<1> DEFINE n == runner.step
           q == Task.problem
<1>1. /\ steps' = steps /\ runner.pc = "run_task" /\ Moved("context", n)
      /\ runner.pc \in TaskPlaces
  BY MaterializeIs DEF TaskPlaces
<1>2. n <= N /\ steps[n].kind = "run_task" /\ q \in Problems
  BY <1>1, CurrentTask
<1>3. \A p : Resets(steps, n, p) <=> steps[n].reset /\ p = q
  BY <1>2 DEF Resets, Task
<1>4. \A p : Makes(steps, n, p) <=> steps[n].reset /\ p = q /\ Task.prepared
  BY <1>2, <1>3 DEF Makes, Patches, Task
<1>5. ASSUME NEW p \in Problems
      PROVE  /\ problems'[p].solvable =>
                   \/ MayBeSolvable(steps, n, p)
                   \/ n <= N /\ Makes(steps, n, p)
             /\ Solvable(steps, n, p) => problems'[p].solvable \/ (n <= N /\ Resets(steps, n, p))
             /\ Resets(steps, n, p) =>
                   (problems'[p].solvable <=> steps[n].variant.prepared)
  <2>1. /\ problems[p].solvable =>
              \/ MayBeSolvable(steps, n, p)
              \/ n <= N /\ Makes(steps, n, p)
        /\ Solvable(steps, n, p) => problems[p].solvable \/ (n <= N /\ Resets(steps, n, p))
    BY DEF Goals
  <2>2. CASE steps[n].reset /\ p = q
    <3>1. problems'[p].solvable = Task.prepared
      BY <2>2, MaterializeWrites
    <3>2. problems'[p].solvable <=> Task.prepared
      BY <3>1
    <3> QED
      BY <1>2, <1>3, <1>4, <2>2, <3>2 DEF Task
  <2>3. CASE ~ (steps[n].reset /\ p = q)
    <3>1. problems'[p] = problems[p]
      BY <2>3, MaterializeWrites
    <3> QED
      BY <1>3, <2>1, <2>3, <3>1
  <2> QED
    BY <2>2, <2>3
<1>6. runner'.step = n /\ runner'.pc = "context"
  BY <1>1 DEF Moved
<1> QED
  BY <1>1, <1>5, <1>6, SamePlan DEF Goals

LEMMA GoalsKept ==
    ASSUME Shape, Goals, Operator = "careful", [Next]_vars
    PROVE  Goals'
<1>1. ASSUME UNCHANGED <<steps, problems>>, runner'.step = runner.step,
             runner'.pc \notin AtWork \union {"apply_overlay"}
      PROVE  Goals'
  BY <1>1, GoalsStand
<1>2. ASSUME steps' = steps, runner'.step = runner.step, runner.pc \in AtWork,
             \A p \in Problems : problems'[p].solvable = problems[p].solvable,
             runner'.pc # "apply_overlay"
      PROVE  Goals'
  <2>1. \A p \in Problems : problems'[p].solvable <=> problems[p].solvable
    BY <1>2
  <2> QED
    BY <1>2, <2>1, GoalsStand
<1>3. CASE UNCHANGED vars \/ Grade
  <2>1. UNCHANGED <<steps, problems, runner>>
    BY <1>3, GradeIs DEF vars
  <2> QED
    BY <2>1, GoalsStand
<1>4. ASSUME NEW mode \in {"run", "materialize"}, Start(mode)
      PROVE  Goals'
  BY <1>1, <1>4, StartIs DEF AtWork, TaskPlaces
<1>5. ASSUME NEW m \in Modules, CopySkeleton(m)
      PROVE  Goals'
  BY <1>1, <1>5, CopySkeletonIs DEF AtWork, TaskPlaces
<1>6. CASE TakeBaseline \/ Break \/ AllSteps
  BY <1>1, <1>6, TakeBaselineIs, BreakIs, AllStepsIs DEF Moved, AtWork, TaskPlaces
<1>7. ASSUME NEW k \in 1..N, NEW reapply \in BOOLEAN, Resume(k, reapply)
      PROVE  Goals'
  <2>1. /\ UNCHANGED <<steps, problems>> /\ runner'.step = runner.step
        /\ runner'.pc \in {"overlay", "step"}
    BY <1>7, ResumeIs DEF Orderly
  <2> QED
    BY <1>1, <2>1 DEF AtWork, TaskPlaces
<1>8. CASE NextReplay
  <2>1. /\ UNCHANGED <<steps, problems>> /\ runner'.step = runner.step
        /\ runner'.pc \in {"overlay", "step"}
    BY <1>8, NextReplayIs
  <2> QED
    BY <1>1, <2>1 DEF AtWork, TaskPlaces
<1>9. CASE BeginStep
  <2>1. /\ UNCHANGED <<steps, problems>> /\ runner'.step = runner.step
        /\ runner.step \in 1..N /\ runner'.pc = steps[runner.step].kind
        /\ runner'.todo = Files(runner.step)
    BY <1>9, BeginStepIs
  <2>2. runner'.pc \notin AtWork
    BY <2>1, StepKinds DEF Shape, Types, AtWork, TaskPlaces
  <2> QED
    BY <2>1, <2>2, GoalsStand
<1>10. CASE Plain
  <2>1. /\ steps' = steps /\ runner.step <= N /\ Moved("step", runner.step + 1)
        /\ \/ runner.pc \in {"clean", "lake_build", "run_cmd"}
           \/ runner.pc = "apply_overlay" /\ runner.todo = {}
    BY <1>10, PlainIs
  <2>2. \A p \in Problems : problems'[p].solvable <=> problems[p].solvable
    BY <1>10, PlainWrites DEF GoalsStay
  <2> QED
    BY <2>1, <2>2, GoalsOnward
<1>11. CASE WriteRunFiles \/ SnapReports \/ SnapFiles
  BY <1>2, <1>11, WriteRunFilesIs, SnapReportsIs, SnapFilesIs DEF Moved, AtWork, TaskPlaces
<1>12. CASE EnsurePins \/ Agent
  <2>1. /\ steps' = steps /\ runner'.step = runner.step
        /\ runner.pc \in AtWork /\ runner'.pc # "apply_overlay"
    BY <1>12, EnsurePinsIs, AgentIs DEF Moved, AtWork, TaskPlaces
  <2>2. \A p \in Problems : problems'[p].solvable = problems[p].solvable
    BY <1>12, EnsurePinsWrites, AgentWrites DEF GoalsStay
  <2> QED
    BY <1>2, <2>1, <2>2
<1>13. CASE SurfaceBeforeAgent \/ SurfaceAfterAgent
  <2>1. runner.pc \in AtWork /\ runner.step <= N /\ UNCHANGED <<steps, problems>>
    <3>1. runner.pc \in AtWork /\ runner.pc \in TaskPlaces
      BY <1>13 DEF SurfaceBeforeAgent, SurfaceAfterAgent, AtWork, TaskPlaces
    <3> QED
      BY <1>13, <3>1, CurrentTask, SurfaceBeforeAgentIs, SurfaceAfterAgentIs
  <2>2. CASE Moved("step", runner.step + 1)
    BY <2>1, <2>2, GoalsOnward
  <2>3. CASE Moved("agent", runner.step)
    BY <1>2, <2>1, <2>3 DEF Moved
  <2> QED
    BY <1>13, <2>2, <2>3, SurfaceBeforeAgentIs, SurfaceAfterAgentIs
<1>14. ASSUME NEW f \in Modules \union Problems, CopyFile(f)
       PROVE  Goals'
  BY <1>14, GoalsOfCopy
<1>15. CASE Materialize
  BY <1>15, GoalsOfFixture
<1> QED
  BY <1>3, <1>4, <1>5, <1>6, <1>7, <1>8, <1>9, <1>10, <1>11, <1>12, <1>13, <1>14, <1>15
     DEF Next, RunnerStep, Plain

-----------------------------------------------------------------------------
(* What good agents leave.                                                 *)

\* A report and a proof are as the run expects, if its agent did as it should.
Good(i, status, done) ==
    LET expected == steps[i].variant.expected
    IN i \notin faulty /\ made = {} => status = expected /\ (expected = "SUCCESS" => done)

\* The directory of a step that is done.
WellDone(i) ==
    /\ dirs[i].made
    /\ steps[i].kind = "run_task" =>
          /\ dirs[i].context # 0
          /\ runner.mode = "run" => Good(i, dirs[i].reports[i].status, dirs[i].proof.done)

DoneWell == \A i \in 1..runner.step-1 : WellDone(i)

\* The report, the proof and the directory of the current step, as they come about.
WellAtWork ==
    LET i == runner.step
        q == problems[steps[i].variant.problem]
    IN /\ runner.pc \in TaskPlaces \union {"apply_overlay", "clean", "lake_build", "run_cmd"} =>
             dirs[i].made
       /\ runner.pc \in {"before", "agent", "pins", "reports", "files", "after"} =>
             dirs[i].context # 0
       /\ runner.pc \in {"pins", "reports"} => Good(i, q.reports[i].status, q.proof.done)
       /\ runner.pc = "files" => Good(i, dirs[i].reports[i].status, q.proof.done)
       /\ runner.pc = "after" => Good(i, dirs[i].reports[i].status, dirs[i].proof.done)

\* At its turn the agent can prove the goal just if a success is expected.
LEMMA AgentCan ==
    ASSUME Shape, Goals, Passable, NEW s \in Scenarios, steps = ExpandSteps(s),
           runner.pc = "agent"
    PROVE  problems[Task.problem].solvable <=> Task.expected = "SUCCESS"
<1> DEFINE n == runner.step
           p == Task.problem
<1>1. /\ n \in 1..N /\ n <= N /\ steps[n].kind = "run_task" /\ p \in Problems
      /\ runner.pc \in AtWork
  BY CurrentTask DEF TaskPlaces, AtWork
<1>2. IF steps[n].reset THEN Task.expected = "SUCCESS" <=> Task.prepared
      ELSE /\ Task.expected = "SUCCESS" => Solvable(steps, n, p)
           /\ MayBeSolvable(steps, n, p) => Task.expected = "SUCCESS"
  BY <1>1 DEF Passable, N, Task
<1>3. /\ problems[p].solvable => MayBeSolvable(steps, n, p) \/ Makes(steps, n, p)
      /\ Solvable(steps, n, p) => problems[p].solvable \/ Resets(steps, n, p)
      /\ Resets(steps, n, p) => (problems[p].solvable <=> Task.prepared)
  BY <1>1 DEF Goals, Task
<1>4. Resets(steps, n, p) <=> steps[n].reset
  BY <1>1 DEF Resets, Task
<1>5. Makes(steps, n, p) => Resets(steps, n, p)
  BY <1>1 DEF Makes, Patches
<1> QED
  BY <1>2, <1>3, <1>4, <1>5

\* An agent that is not faulty, and makes nothing, leaves what is expected.
LEMMA AgentLeavesGood ==
    ASSUME Shape, Goals, Passable, NEW s \in Scenarios, steps = ExpandSteps(s), Agent,
           runner.step \notin faulty', made' = {}
    PROVE  /\ problems'[Task.problem].reports[runner.step].status = Task.expected
           /\ Task.expected = "SUCCESS" => problems'[Task.problem].proof.done
<1>1. PICK tools \in SUBSET Modules : GoodAgent(tools)
  BY DEF Agent, PoorAgent, AgentMakesTool
<1> DEFINE can == problems[Task.problem].solvable
           proof == [done |-> can, imports |-> {Hub} \union tools]
           status == IF can THEN "SUCCESS" ELSE "TRIAGED"
<1>2. runner.pc = "agent" /\ AgentLeaves(proof, status)
  BY <1>1 DEF GoodAgent
<1>3. can <=> Task.expected = "SUCCESS"
  BY <1>2, AgentCan
<1>4. Task.expected \in ReportStatuses
  BY <1>2, CurrentTask DEF TaskPlaces
<1>5. status = Task.expected
  BY <1>3, <1>4 DEF ReportStatuses
<1>6. status # "bare" /\ ReportOf(status, runner.runs).status = status
  BY DEF ReportOf
<1>7. proof.done <=> can
  OBVIOUS
<1> HIDE DEF proof, status, can
<1>8. /\ problems'[Task.problem].proof = proof
      /\ problems'[Task.problem].reports[runner.step] = ReportOf(status, runner.runs)
  BY <1>2, <1>6, AgentLeavesWrites
<1> QED
  BY <1>3, <1>5, <1>6, <1>7, <1>8

\* What counts as faulty elsewhere is left alone.
LEMMA FaultyElsewhere ==
    ASSUME [Next]_vars
    PROVE  /\ Agent \/ faulty' = faulty
           /\ \A i : i # runner.step => (i \in faulty' <=> i \in faulty)
<1>1. Agent \/ faulty' = faulty
  BY DEF Next, RunnerStep, vars, Start, CopySkeleton, TakeBaseline, Resume, Break,
         BeginStep, AllSteps, CopyFile, NextReplay, OverlayApplied, Clean, Command,
         Materialize, WriteRunFiles, SurfaceBeforeAgent, EnsurePins, SnapReports,
         SnapFiles, SurfaceAfterAgent, Grade
<1>2. Agent => \A i : i # runner.step => (i \in faulty' <=> i \in faulty)
  BY DEF Agent, GoodAgent, PoorAgent, AgentMakesTool
<1> QED
  BY <1>1, <1>2

LEMMA DoneStays ==
    ASSUME Shape, DoneWell, Operator = "careful", [Next]_vars,
           steps' = steps, made' = {} => made = {}, runner.step = 1 \/ runner'.mode = runner.mode,
           NEW i \in 1..runner.step-1
    PROVE  WellDone(i)'
<1>1. i \in 1..N /\ i # runner.step /\ runner.step # 1
  BY Numbers
<1>2. /\ dirs'[i] = dirs[i] /\ runner'.mode = runner.mode
      /\ i \in faulty' <=> i \in faulty
  BY <1>1, OtherDirsStay, FaultyElsewhere
<1>3. WellDone(i)
  BY DEF DoneWell
<1> QED
  BY <1>2, <1>3 DEF WellDone, Good

\* A step at the place of no step.
LEMMA WellElsewhere ==
    ASSUME Shape, DoneWell, Operator = "careful", [Next]_vars,
           UNCHANGED <<steps, made>>, runner.step = 1 \/ runner'.mode = runner.mode,
           runner'.step = runner.step, runner'.pc \in {"off", "copy", "step", "overlay"}
    PROVE  DoneWell' /\ WellAtWork'
<1>1. DoneWell'
  BY DoneStays DEF DoneWell
<1>2. WellAtWork'
  BY DEF WellAtWork, TaskPlaces
<1> QED
  BY <1>1, <1>2

\* The end of a step.
LEMMA WellOnward ==
    ASSUME Shape, DoneWell, Operator = "careful", [Next]_vars,
           UNCHANGED <<steps, made>>, NEW n \in 1..N, n = runner.step,
           Moved("step", n + 1), WellDone(n)'
    PROVE  DoneWell' /\ WellAtWork'
<1>1. \A i \in 1..n-1 : WellDone(i)'
  BY DoneStays DEF Moved
<1>2. runner'.step = n + 1 /\ runner'.pc = "step" /\ n \in Nat
  BY Numbers DEF Moved
<1>3. 1..runner'.step-1 = (1..n-1) \union {n}
  BY <1>2
<1>4. DoneWell'
  BY <1>1, <1>3 DEF DoneWell
<1>5. WellAtWork'
  BY <1>2 DEF WellAtWork, TaskPlaces
<1> QED
  BY <1>4, <1>5

\* A step of a run that stays at it.
LEMMA WellAtRun ==
    ASSUME Shape, DoneWell, Operator = "careful", [Next]_vars,
           steps' = steps, made' = {} => made = {}, runner'.mode = runner.mode,
           runner'.step = runner.step, WellAtWork'
    PROVE  DoneWell' /\ WellAtWork'
BY DoneStays DEF DoneWell

LEMMA WellKept ==
    ASSUME Shape, Goals, Passable, NEW s \in Scenarios, steps = ExpandSteps(s),
           DoneWell, WellAtWork, Operator = "careful", [Next]_vars
    PROVE  DoneWell' /\ WellAtWork'
<1> PICK n \in Nat : n = runner.step
  BY Numbers
<1> DEFINE q == problems[Task.problem]
<1>0. runner.pc \in TaskPlaces =>
         /\ n \in 1..N /\ steps[n].kind = "run_task" /\ Task = steps[n].variant
         /\ Task.expected \in ReportStatuses
  BY CurrentTask DEF Task
<1>1. CASE UNCHANGED vars \/ Grade
  <2>1. UNCHANGED <<steps, problems, runner, dirs, made>>
    BY <1>1, GradeIs DEF vars
  <2>2. \A i : i \in faulty' <=> i \in faulty
    BY <1>1 DEF vars, Grade
  <2> QED
    BY <2>1, <2>2 DEF DoneWell, WellDone, WellAtWork, Good
<1>2. ASSUME NEW mode \in {"run", "materialize"}, Start(mode)
      PROVE  DoneWell' /\ WellAtWork'
  <2>1. runner.step = 1
    BY <1>2, StartIs DEF Shape, Place
  <2> QED
    BY <1>2, <2>1, StartIs, WellElsewhere
<1>3. ASSUME NEW m \in Modules, CopySkeleton(m)
      PROVE  DoneWell' /\ WellAtWork'
  BY <1>3, CopySkeletonIs, WellElsewhere
<1>4. CASE TakeBaseline \/ Break \/ AllSteps \/ NextReplay
  BY <1>4, TakeBaselineIs, BreakIs, AllStepsIs, NextReplayIs, WellElsewhere DEF Moved
<1>5. ASSUME NEW k \in 1..N, NEW reapply \in BOOLEAN, Resume(k, reapply)
      PROVE  DoneWell' /\ WellAtWork'
  <2>1. /\ UNCHANGED <<steps, made>> /\ runner'.mode = runner.mode
        /\ runner'.step = runner.step /\ runner'.pc \in {"overlay", "step"}
    BY <1>5, ResumeIs DEF Orderly
  <2> QED
    BY <2>1, WellElsewhere
<1>6. CASE BeginStep
  <2>1. /\ UNCHANGED <<steps, made>> /\ runner'.mode = runner.mode
        /\ runner'.step = n /\ n \in 1..N /\ runner'.pc = steps[n].kind /\ dirs'[n].made
    BY <1>6, BeginStepIs, BeginStepWrites
  <2>2. runner'.pc \in {"run_task", "apply_overlay", "clean", "lake_build", "run_cmd"}
    BY <2>1, StepKinds DEF Shape, Types
  <2>3. WellAtWork'
    BY <2>1, <2>2 DEF WellAtWork
  <2> QED
    BY <2>1, <2>3, WellAtRun
<1>7. ASSUME NEW f \in Modules \union Problems, CopyFile(f)
      PROVE  DoneWell' /\ WellAtWork'
  <2>1. /\ UNCHANGED <<steps, made, dirs>> /\ runner'.mode = runner.mode
        /\ runner'.step = n /\ runner'.pc = runner.pc
        /\ runner.pc \in {"overlay", "apply_overlay"}
    BY <1>7, CopyFileIs
  <2>2. WellAtWork'
    BY <2>1 DEF WellAtWork, TaskPlaces
  <2> QED
    BY <2>1, <2>2, WellAtRun
<1>8. CASE Plain
  <2>1. /\ UNCHANGED <<steps, made>> /\ n \in 1..N /\ steps[n].kind = runner.pc
        /\ runner.pc \in {"apply_overlay", "clean", "lake_build", "run_cmd"}
        /\ Surfaced(n) /\ Moved("step", n + 1)
    BY <1>8, PlainIs
  <2>2. WellDone(n)'
    BY <2>1 DEF WellDone, WellAtWork, Surfaced
  <2> QED
    BY <2>1, <2>2, WellOnward
<1>9. CASE Materialize
  <2>1. /\ UNCHANGED <<steps, made, dirs>> /\ Moved("context", n) /\ runner.pc = "run_task"
    BY <1>9, MaterializeIs
  <2>2. WellAtWork'
    BY <2>1 DEF WellAtWork, Moved, TaskPlaces
  <2> QED
    BY <2>1, <2>2, WellAtRun DEF Moved
<1>10. CASE WriteRunFiles
  <2>1. /\ UNCHANGED <<steps, made, problems>> /\ runner.pc = "context" /\ Moved("before", n)
        /\ dirs'[n].context = runner.runs /\ dirs'[n].made = dirs[n].made
    BY <1>10, WriteRunFilesIs, WriteRunFilesWrites
  <2>2. runner.runs # 0
    BY <2>1 DEF Shape, Place
  <2>3. WellAtWork'
    BY <2>1, <2>2 DEF WellAtWork, Moved, TaskPlaces
  <2> QED
    BY <2>1, <2>3, WellAtRun DEF Moved
<1>11. CASE SurfaceBeforeAgent
  <2>1. /\ UNCHANGED <<steps, made, problems>> /\ runner.pc = "before" /\ Surfaced(n)
        /\ \/ runner.mode = "run" /\ Moved("agent", n)
           \/ runner.mode = "materialize" /\ Moved("step", n + 1)
    BY <1>11, SurfaceBeforeAgentIs
  <2>2. n \in 1..N /\ steps[n].kind = "run_task" /\ dirs[n].made /\ dirs[n].context # 0
    BY <1>0, <2>1 DEF WellAtWork, TaskPlaces
  <2>3. CASE Moved("agent", n)
    <3>1. WellAtWork'
      BY <2>1, <2>2, <2>3 DEF WellAtWork, Moved, Surfaced, TaskPlaces
    <3> QED
      BY <2>1, <2>3, <3>1, WellAtRun DEF Moved
  <2>4. CASE runner.mode = "materialize" /\ Moved("step", n + 1)
    <3>1. WellDone(n)'
      BY <2>1, <2>2, <2>4 DEF WellDone, Surfaced, Moved
    <3> QED
      BY <2>1, <2>2, <2>4, <3>1, WellOnward
  <2> QED
    BY <2>1, <2>3, <2>4
<1>12. CASE Agent
  <2>1. /\ UNCHANGED <<steps, dirs>> /\ runner.pc = "agent" /\ Moved("pins", n)
        /\ made' = {} => made = {}
    BY <1>12, AgentIs, AgentWrites
  <2>2. n \in 1..N /\ Task = steps[n].variant /\ dirs[n].made /\ dirs[n].context # 0
    BY <1>0, <2>1 DEF WellAtWork, TaskPlaces
  <2> DEFINE new == problems'[steps[n].variant.problem]
             v == steps[n].variant
  <2>3. n \notin faulty' /\ made' = {} =>
           new.reports[n].status = v.expected /\ (v.expected = "SUCCESS" => new.proof.done)
    BY <1>12, <2>2, AgentLeavesGood
  <2>4. WellAtWork'
    BY <2>1, <2>2, <2>3 DEF WellAtWork, Good, Moved, TaskPlaces
  <2> QED
    BY <2>1, <2>4, WellAtRun DEF Moved
<1>13. CASE EnsurePins
  <2>1. /\ UNCHANGED <<steps, dirs, made>> /\ runner.pc = "pins" /\ Moved("reports", n)
        /\ problems'[Task.problem].reports[n]
              = IF q.reports[n] = NoReport THEN Bare ELSE q.reports[n]
        /\ problems'[Task.problem].proof = q.proof
    BY <1>13, EnsurePinsIs, EnsurePinsWrites, CurrentTask DEF GoalsStay, TaskPlaces
  <2>2. /\ n \in 1..N /\ Task = steps[n].variant /\ Task.expected \in ReportStatuses
        /\ dirs[n].made /\ dirs[n].context # 0
        /\ Good(n, q.reports[n].status, q.proof.done)
    BY <1>0, <2>1 DEF WellAtWork, TaskPlaces
  <2>3. faulty' = faulty
    BY <1>13 DEF EnsurePins
  <2> DEFINE new == problems'[steps[n].variant.problem]
             v == steps[n].variant
  <2>4. q.reports[n].status = v.expected => q.reports[n] # NoReport
    <3>1. NoReport.status = "missing"
      BY DEF NoReport
    <3>2. v.expected # "missing"
      BY <2>2 DEF ReportStatuses
    <3> QED
      BY <3>1, <3>2
  <2>5. n \notin faulty /\ made = {} =>
           q.reports[n].status = v.expected /\ (v.expected = "SUCCESS" => q.proof.done)
    BY <2>2 DEF Good
  <2>6. n \notin faulty /\ made = {} =>
           new.reports[n].status = v.expected /\ (v.expected = "SUCCESS" => new.proof.done)
    BY <2>1, <2>2, <2>4, <2>5
  <2>7. WellAtWork'
    BY <2>1, <2>2, <2>3, <2>6 DEF WellAtWork, Good, Moved, TaskPlaces
  <2> QED
    BY <2>1, <2>7, WellAtRun DEF Moved
<1>14. CASE SnapReports
  <2>1. /\ UNCHANGED <<steps, made, problems>> /\ runner.pc = "reports" /\ Moved("files", n)
        /\ dirs'[n].context = dirs[n].context /\ dirs'[n].made = dirs[n].made
        /\ dirs'[n].reports = q.reports
    BY <1>14, SnapReportsIs, SnapReportsWrites
  <2>2. /\ Task = steps[n].variant /\ dirs[n].made /\ dirs[n].context # 0
        /\ Good(n, q.reports[n].status, q.proof.done)
    BY <1>0, <2>1 DEF WellAtWork, TaskPlaces
  <2>3. faulty' = faulty
    BY <1>14 DEF SnapReports
  <2>4. WellAtWork'
    BY <2>1, <2>2, <2>3 DEF WellAtWork, Good, Moved, TaskPlaces
  <2> QED
    BY <2>1, <2>4, WellAtRun DEF Moved
<1>15. CASE SnapFiles
  <2>1. /\ UNCHANGED <<steps, made, problems>> /\ runner.pc = "files" /\ Moved("after", n)
        /\ dirs'[n].context = dirs[n].context /\ dirs'[n].made = dirs[n].made
        /\ dirs'[n].reports = dirs[n].reports /\ dirs'[n].proof = q.proof
    BY <1>15, SnapFilesIs, SnapFilesWrites
  <2>2. /\ Task = steps[n].variant /\ dirs[n].made /\ dirs[n].context # 0
        /\ Good(n, dirs[n].reports[n].status, q.proof.done)
    BY <1>0, <2>1 DEF WellAtWork, TaskPlaces
  <2>3. faulty' = faulty
    BY <1>15 DEF SnapFiles
  <2>4. WellAtWork'
    BY <2>1, <2>2, <2>3 DEF WellAtWork, Good, Moved, TaskPlaces
  <2> QED
    BY <2>1, <2>4, WellAtRun DEF Moved
<1>16. CASE SurfaceAfterAgent
  <2>1. /\ UNCHANGED <<steps, made>> /\ runner.pc = "after" /\ n \in 1..N
        /\ Surfaced(n) /\ Moved("step", n + 1)
    BY <1>16, SurfaceAfterAgentIs
  <2>2. /\ dirs[n].made /\ dirs[n].context # 0
        /\ Good(n, dirs[n].reports[n].status, dirs[n].proof.done)
    BY <2>1 DEF WellAtWork, TaskPlaces
  <2>3. faulty' = faulty
    BY <1>16 DEF SurfaceAfterAgent
  <2>4. WellDone(n)'
    BY <2>1, <2>2, <2>3 DEF WellDone, Good, Surfaced
  <2> QED
    BY <2>1, <2>4, WellOnward
<1> QED
  BY <1>1, <1>2, <1>3, <1>4, <1>5, <1>6, <1>7, <1>8, <1>9, <1>10, <1>11, <1>12, <1>13,
     <1>14, <1>15, <1>16 DEF Next, RunnerStep, Plain

\* A scenario whose agents all did as they should passes.
LEMMA GradedWell ==
    ASSUME Shape, SurfacesTell, DoneWell, runner.ended, runner.mode = "run",
           faulty = {}, made = {}
    PROVE  Verdict(steps, dirs, baseline, lib).passed
<1>1. N \in Nat /\ runner.step = N + 1 /\ DOMAIN steps = 1..N
  BY Numbers DEF Shape, Place, Types, N
<1>2. Blamed(steps, dirs, baseline) = {}
  BY BlamedAreMade
<1>3. ASSUME NEW i \in 1..N
      PROVE  StepPasses(steps, dirs, i)
  <2>1. WellDone(i)
    BY <1>1 DEF DoneWell
  <2>2. CASE steps[i].kind = "run_task"
    <3> DEFINE v == steps[i].variant
    <3>1. /\ dirs[i].context # 0 /\ dirs[i].reports[i].status = v.expected
          /\ v.expected = "SUCCESS" => dirs[i].proof.done
      BY <2>1, <2>2 DEF WellDone, Good
    <3>2. v.expected \in ReportStatuses
      BY <2>2, StepKinds DEF Shape, Types, Variant
    <3>3. dirs[i].reports[i] # NoReport
      <4>1. NoReport.status = "missing"
        BY DEF NoReport
      <4>2. v.expected # "missing"
        BY <3>2 DEF ReportStatuses
      <4> QED
        BY <3>1, <4>1, <4>2
    <3>4. Located(dirs[i], i) = dirs[i].reports[i]
      BY <3>3, LocatedIs
    <3>5. TaskPasses(dirs[i], i, v)
      BY <3>1, <3>4 DEF TaskPasses
    <3> QED
      BY <2>2, <3>5 DEF StepPasses
  <2>3. CASE steps[i].kind # "run_task"
    BY <2>1, <2>3 DEF WellDone, StepPasses
  <2> QED
    BY <2>2, <2>3
<1> QED
  BY <1>1, <1>2, <1>3 DEF Verdict

Wellness ==
    /\ \E s \in Scenarios : steps = ExpandSteps(s)
    /\ Goals /\ DoneWell /\ WellAtWork /\ GoodAgentsPass

LEMMA WellnessKept ==
    ASSUME Shape, SurfacesTell, Wellness, Passable, Operator = "careful", [Next]_vars
    PROVE  Wellness'
<1>1. Goals' /\ DoneWell' /\ WellAtWork'
  BY GoalsKept, WellKept DEF Wellness
<1>2. CASE Grade
  <2>1. /\ verdict' = Verdict(steps, dirs, baseline, lib) /\ runner.ended
        /\ UNCHANGED <<steps, runner, made>>
    BY <1>2, GradeIs DEF Orderly
  <2>2. faulty' = faulty
    BY <1>2 DEF Grade
  <2>3. GoodAgentsPass'
    BY <2>1, <2>2, GradedWell DEF GoodAgentsPass, Wellness
  <2> QED
    BY <1>1, <2>1, <2>3 DEF Wellness
<1>3. CASE ~Grade
  <2>1. steps' = steps /\ verdict' = verdict
    BY <1>3, GradedStays
  <2>2. CASE verdict.graded
    BY <1>1, <1>3, <2>1, <2>2, GradedStays DEF vars, Wellness, GoodAgentsPass
  <2>3. CASE ~verdict.graded
    BY <1>1, <2>1, <2>3 DEF Wellness, GoodAgentsPass
  <2> QED
    BY <2>2, <2>3
<1> QED
  BY <1>2, <1>3

\* Where an operator resumes a run where it stopped, and each run expects what
\* its goal allows, a scenario whose agents did as they should passes, whatever
\* broke and was resumed, and whatever earlier agents of the same step had done.
THEOREM GoodWorkPasses ==
    ASSUME Operator = "careful", Passable
    PROVE  Spec => []GoodAgentsPass
<1>1. Init => Shape /\ SurfacesTell /\ Wellness
  <2> SUFFICES ASSUME Init PROVE Shape /\ SurfacesTell /\ Wellness
    OBVIOUS
  <2>1. SurfacesTell
    BY DEF Init, SurfacesTell
  <2>2. runner.step = 1 /\ runner.pc = "off" /\ ~ verdict.graded
    BY DEF Init, NoVerdict
  <2>3. \A p \in Problems : problems[p].solvable <=> FALSE
    BY DEF Init, NoProblem
  <2>4. \A p \in Problems : ~ Solvable(steps, 1, p)
    BY DEF Solvable
  <2>5. Goals
    BY <2>2, <2>3, <2>4 DEF Goals, AtWork, TaskPlaces
  <2>6. DoneWell /\ WellAtWork /\ GoodAgentsPass
    BY <2>2 DEF DoneWell, WellAtWork, GoodAgentsPass, TaskPlaces
  <2>7. \E s \in Scenarios : steps = ExpandSteps(s)
    BY DEF Init
  <2> QED
    BY <2>1, <2>5, <2>6, <2>7, InitShape DEF Wellness
<1>2. Shape /\ SurfacesTell /\ Wellness /\ [Next]_vars => (Shape /\ SurfacesTell /\ Wellness)'
  BY ShapeKept, SurfacesKept, WellnessKept DEF Orderly
<1>3. Wellness => GoodAgentsPass
  BY DEF Wellness
<1> QED
  BY <1>1, <1>2, <1>3, PTL DEF Spec

=============================================================================
