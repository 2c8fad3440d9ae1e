# LeanAtlas: a TLA+ model of the maintenance tools

LeanAtlas keeps a library of Lean proofs and the problems that use it. What
decides and changes things is a set of Python tools under `src/tools`, with
runners under `src/tests`. This directory models the tools that keep state
across steps or runs, checks the models with TLC and proves the central facts
with TLAPS. All paths below are relative to `src/`.

## 1. Inventory

Every tool is a process that starts, reads JSON files, decides, writes JSON
files and ends. There are no threads inside a tool and no locks between tools:
the interactions are through files (and one SQLite database), and what is hard
is a file that changed, or is half written, between the moment it was read and
the moment the decision is written.

| component | state | operations | what is hard | what makes it correct |
|---|---|---|---|---|
| seed collector (`tools/gc/gc.py`) | `tools/index/gc_state.json`, `GCPlan.json`, `tools/gc/roots.json` | `propose` (reads), `apply` (reads, merges, writes) | plans applied late, twice, out of order or concurrently; domain clocks that go back; a revival spread over several rounds | one level at a time, never a seed in use, no thrashing, rounds settle, no seed is lost or kept for good by stale plans |
| problem states (`tools/problem_state/reconcile.py`) | `Problems/<slug>/State.json` | reconcile with a run report | loaded, emptied and written without a lock, a kill leaves it torn, nobody can read it while it is written; it drives the collector's clocks and roots | counters agree with `ever_succeeded`, a success is never forgotten |
| small loop (`tests/e2e/run_cases.py`, `run_scenarios.py`, `tools/workflow/judge.py`, `patch_scope.py`, `budgets.py`) | attempts, stagnation count, budget counters, AttemptLog, RunReport | attempt, judge, stop, report | who counts what, the order of the stop conditions, scope violations next to success | a run goes on only without a reason to stop, stops only with one |
| shared Lake cache (`tools/workflow/shared_cache.py`) | shared tree and workspace trees of packages, seed marker | remove, link or copy, seed, mark | several runners, a crash in the middle of a copy, partial trees that look complete | ok means the whole of the packages; a seeded workspace loses nothing |
| stuck-run recovery (`tools/coordination/recover_stuck_automation_runs.py`) | rows of `automation_runs` in the app's database | select, repair, rerun | a run that finishes or writes between select and update, two recoveries at once, a kill in between | no result overwritten, no row repaired twice, no lost run stays `IN_PROGRESS` |
| feedback and its automation (`tools/feedback`, `tools/coordination/run_automation.py`) | inbox, digest, append-only ledger, append summary | mine, append, matrix, advisor | steps that time out, runs killed in the middle of a line, a ledger ahead of its summary | every item in the ledger once and for good, new items reach the advisor |
| promotion gate (`tools/promote/promote.py`) with deduplication (`tools/dedup/dedup.py`) | DedupReport, PromotionReport | scan, gates in a fixed order, decision | a report of another library, an unreadable plan, a scan that dies, a library edited between two gates | a decision on an unchanged library holds of it |
| agent evaluation (`tools/agent_eval`) | eval dir with a workspace, steps, run directories; AgentScenarioReport | expand, prepare, overlay, run the agent, snapshot, resume, grade | a kill between any two writes, a resume on a workspace that has moved on, evidence of another process | breaches fail, blame, evidence and reuse are real, interruptions do not change the verdict |
| the rest (audits, generators, miners, onboarding, MCP server, shell scripts) | reports | one pass each | none keeps state between runs | not modelled, section 8 |

Interactions: `run_cases` and `run_scenarios` call the shared cache before a
suite and the Judge in every attempt. Their reports go to `reconcile.py`, whose
State.json files give the collector its domain clocks and its active roots. The
recovery reruns automations through `run_automation_local.py`, so that two runs
of one automation may overlap; the feedback automation is the one whose tools
keep state across runs. `PROJECT.json` lists all components and the hazards,
each at its line.

## 2. Plan

Done, in this order: the collector (decision, rounds, stale plans, the system
around it), the small loop with the Judge, the shared cache, the recovery, the
feedback automation, the scenarios of the agent evaluation, deduplication with
the promotion gate, State.json as a file that is loaded, emptied and written.
Compositions: `SeedDecision` ⊂ `SeedGC` ⊂ `StalePlans`; `ActiveRoots` ⊂
`ProblemStates` ⊂ `GCSystem`, whose rounds are those of `SeedGC`; `Judge` ⊂ `SmallLoop`;
`PromotionPlan` ⊂ `PromotionGate`; `ScenarioGrade` ⊂ `ScenarioRun`. Abstract
specification: `SeedLifecycle`, implemented by `SeedGC` and, with clocks that go
back, by `GCSystem`.

Next, most important first:

1. The suite of `run_cases` on the workspace it shares between cases
   (`run_cases.py:211-225`), and two suites at once.
2. An abstract ledger (a set that only grows) implemented by
   `FeedbackDeposition`, and the manifests of overlapping automation runs.
3. `run_pack.py` and `grade_pack.py`.
4. A gc_state.json torn by its writer.
5. Proofs: every invariant and action property of the runs is a theorem; what
   is left is to weaken hypotheses (`OneFileSystem`, section 6) and to prove the
   refinement of item 2.

## 3. Modules and the code

Definitions have the names of the code where it has one; `PROJECT.json` "map"
gives the lines of each.

| module | models | state and actions |
|---|---|---|
| `SeedDecision` | the branches of `cmd_propose` for one seed, `_apply_action` | operators only: `Entry(record, clock, view)` is one plan entry, `ApplyEntry` merges it, `Round` does both |
| `SeedGC` | rounds of propose and apply by one maintainer | `gc` is gc_state.json, `clock` the domain clocks, `view` what reaches each seed; `ProblemSucceeds`, `RootsChange` are the repository, `Collect` a round. Its clocks only grow; `ProblemLeaves`, which takes a problem out of the clock, is a step of `StalePlans` |
| `SeedLifecycle` | what the collector promises, abstractly | levels of seeds, which are in use; `Sweep`, `UseChanges`; in a `PatientSweep` an archived seed in use may be left waiting |
| `StalePlans` | propose and apply as separate processes | adds `plan` (GCPlan.json of each out-root) and `writing` (what an apply has loaded and merged); `Propose`, `ApplyLoad`, `ApplyStore`, `ApplyEnds`; clocks go both ways |
| `ActiveRoots` | `reconcile.py`; clocks, recency, selection and reachability of `gc.py` | operators only |
| `ProblemStates` | State.json under `reconcile.py` | `problem` is what parses, `torn` what does not, `job` what each process is about to write; `ReconcileLoad`, `ReconcileOpen` (which empties the file), `ReconcileWrite`, `ReconcileKilled`, `SetStatus` |
| `GCSystem` | the collector inside the repository | adds imports, pins and gc_state.json; `StatesChange` (the steps of `ProblemStates`), `EditImports`, `EditPins`, `Collect` |
| `Judge` | `patch_scope.py`, `budgets.py`, `judge.py` | operators only: `EditCode`, `Exhausted`, `Reason`, `Level` |
| `SmallLoop` | one run of one case in `run_cases.py` or `run_scenarios.py` | attempt number, last fingerprint, the runner's count, budget counters, log, status; `Baseline`, `ApplyPatch` (whole attempts: patch, build, signals, Judge, log line), `Report`, `Abort` |
| `SharedCache` | `ensure_workspace_lake_packages` and the cold start of the runners | `tree`: what each location holds, file by file with inodes; one action per call or loop body between which others can run; `Crash`; the history variable `overlapped` tells whether calls met or were cut short so far |
| `StuckRecovery` | the recovery and, externally, the app's writes | rows, clock, who is alive; `Select`, `Repair` (one transaction), `Rerun`, `End`, `Kill` |
| `FeedbackDeposition` | `run_automation.py` with mine, append, matrix and the advisor | inbox, digest, ledger (pieces of lines), summary, what was advised; one action per read, open and write; `TimeOut`, `Kill` |
| `PromotionPlan` | the scan and decision of `dedup.py`; the plan as `promote.py` reads it and the gates that look only at it | operators only: `Candidates`, `ExistenceGate`, `ReuseGate`, `Duplicates`, `Decision` |
| `PromotionGate` | `dedup.py` and `promote.py` as processes on a library that others edit | the library, DedupReport in its two places, what the gate has loaded and decided; one action per gate, `Scan` of the modules in a scope that can be read, `OpenReport`, `WriteReport`, `Edit`, kills |
| `ScenarioGrade` | the expansion of a scenario into steps, and `grade_scenario.py` | operators only: `ExpandSteps`, `TaskPasses`, `Introduced`, `Blamed`, `Reused`, `Verdict` |
| `ScenarioRun` | `run_scenario.py` on one eval dir, in several processes, then graded | the workspace, the run directories, where each process is; one action per write: copy of the skeleton, baseline, overlay file, problem, context, surface, agent, snapshot |
| `*Proofs` | theorems about the module of that name; `SeedGCProofs` has those about `StalePlans` too, `GCSystemProofs` those about `ProblemStates` | |
| `MC*` | small instances for TLC | |

Abstractions worth knowing. A path is its place as far as the patch policy tells
places apart, and whether it ends in `.lean`; the fingerprint of diagnostics is
their set; a build may fail with any set of diagnostics. A line of the ledger is
two parts of its text and a newline, flushed and torn between any of them, so
that `"a" + "b"` without a newline between is a line that does not parse, as for
`_iter_jsonl`. Files are opened (emptied) and written in two steps. The report
of a run is one action, though several files are written. The advisor is
modelled in mode `auto` with a handoff, which is what every entry of the
automation registry has. Reruns end in any way, because only their order matters
to the recovery. `SharedCache.Return` covers every early return of the call.
The problem of a step is put back to its fixture in one action, and so is its
Reports directory emptied (`run_scenario.py:236-253`): a process broken in
between leaves a step that the operators of the run begin again, and that makes
the fixture anew. Names of a plan that differ in the blanks around them only are
not told apart. A declaration is what the regular expressions of `dedup.py` tell
apart: whether they see an instance, whether they can split it, and the class and type it ends
in. An agent of a scenario is what it leaves: a proof or none, imports, tool
modules, pins, a report with one of the statuses. A State.json is there, torn or
missing; the text is not modelled.

## 4. The runs

| run | question | bounds |
|---|---|---|
| `seed_gc` | Does the collector implement the life cycle, settle, not thrash, and end active what is used and archived what is not? Also checks the inductive invariant of the proofs. | one seed, two problems, thresholds 2/3/6/1/4 in the order of the defaults 2/8/24/4/6, clock to 13 |
| `stale_plans` | Whatever plans are applied late, twice or at once and however the clocks move: does a pinned seed come back, is an idle one archived, and is it over once the plans of before are gone? | two maintainers, one plan file overwritten at any time, a seed that is pinned and unpinned, clock 0 or 1, thresholds 1 and 0 |
| `gc_system` | With clocks and roots computed from State.json files that are written and torn between rounds: is a success ever forgotten, are seeds swept and revivals spaced as promised, is what the last run used safe? | two problems, one with two runs of either run id and one with one, possibly without a State.json; two seeds that import in a chain, one of which may be pinned; one reconcile at a time |
| `small_loop` | Does every run of either runner stop exactly when it has a reason, and is stagnation counted right? | all runs of up to three patches in families with K = 0, 1, 2, limits 1 to 4; K = 4 with five patches, so that a progress in between is followed by enough stagnation |
| `shared_cache` | As long as calls follow one another, does ok mean the packages are there and is the shared tree whole? Does a seeded workspace lose anything while another runner, killed at any step, fills or removes the shared tree? | one package of two files, two runners, the workspace of one a donor, a shared tree that may be outdated at the start |
| `stuck_recovery` | Two recoveries at once, killed at any step, against the app's writes. | two rows of one automation, threshold 2, clock to 4 |
| `deposition` | Does every item end in the ledger once and for good, whatever times out or is killed; without a fault, does it reach the advisor? | three items, one deposited as closed, two faults |
| `scenario_eval` | Do scenarios of the repository's shapes, killed and resumed, end with the verdict they deserve? | four scenarios: triage and fix, two promotions with reuse, a repeated task with a clean, a pack with variants and a build; one problem, two tools and a hub; three processes; graded once |
| `promotion` | What is a decision of the gate worth on a library that is edited at any moment and scanned as a whole or in part? | the libraries and plans of `MCPromotionGate`, two modules of which a scan may leave out one or fail to read one, any operator, one edit, two scans, one gate |
| `hydrated_after_fallback` | violation, see below | one runner, one donor on another file system |
| `stagnation` | violation, see below | those of `small_loop` |
| `duplicate_promoted` | violation, see below | those of `promotion`, whole scans, by a diligent operator |

Why the bounds are enough. The decision of a seed reads its own record, its
domain's clock and its own view, so one seed shows all of it; the clock is long
enough to archive a seed, revive it and collect it again. Two problems are what
"independent hits" needs, two maintainers what a lost update needs, two
recoveries what a double repair needs. In `small_loop` a counterexample needs a
run of attempts no longer than K. In `deposition` two faults allow a torn line
and a second fault while it is being repaired. One run at a time is the schedule
of that automation; what breaks when two overlap is in section 7. In `gc_system`
reconciles of different problems touch different files, so one process at a time
loses nothing but overlaps of one problem, which section 7 has; two run ids and
two runs of one problem are what "more recent" can be decided by. A quarantine
threshold of two, as many as there are problems, is the least for which a clock
can fall, a seed be revived at it, and the clock come back before the threshold
is over. In `stale_plans` a clock of 0 or 1 can go back and come up again, a
seed that a late plan revives can be archived in two rounds, and two processes
on one plan file show every order of propose, load and write; a seed that has
been met once is where each behaviour starts, because before that the entries
only set `introduced`. In `shared_cache` a package of two files is one that can
be half there, and two runners are what an overlap and a foreign donor need. In
`scenario_eval` two processes are a resume and the third a resume of a resume;
each scenario has what its property needs: a later overlay that brings tools, a
problem that is kept, a tool made by an agent and one used by a later one. In
`promotion` every gate can pass and fail, two declarations are what a duplicate
needs, and three problems what the rule of three asks.

`promotion` and `scenario_eval` have an operator who decides how the tools are
used. In `promotion` it is any operator. In `scenario_eval` it is a careful one,
who resumes at the interrupted step, does not switch the replay of overlays off,
resumes only a workspace that was set up in full and grades an eval dir only
when its runner has ended: what the others break is in section 7.

What the violations show:

- `stagnation`: the runner adds the present attempt to `stagnant_count`
  (`run_scenarios.py:268`, `run_cases.py:501`) before it calls the Judge, which
  adds it again (`judge.py:144`): a run is stopped after K-1 stagnant attempts,
  where `WORKFLOW_CONTRACT.md:156` has K as the maximum in a row, and
  `check_judge_determinism.py:100` hands over the count of the attempts before.
  `StagnationIsReal`, in `small_loop`, says what the count does guarantee.
- `hydrated_after_fallback`: when hard links fail, the full copy is given the
  directory the links have already made, and raises (`shared_cache.py:133`).
  What stays behind passes for a package, because only directories are tested
  (`:68`): the next call returns ok for a workspace without files. It takes one
  runner and no crash.
- `duplicate_promoted`: `dedup.py:206` splits the head of an instance at a colon
  that its own regular expression has already left out, so that `instance foo :
  T := ...` raises `IndexError` and no report is written. A maintainer who scans
  after every change still promotes a library with two instances of one type,
  on the report from before them (`promote.py:265`).

`small_loop`, `stagnation`, `stuck_recovery`, `promotion`, `duplicate_promoted`
and `scenario_eval` switch deadlock checking off: a run of the loop ends with its
report, the bounded clock of the recovery stops, the gate decides once, and a graded scenario is done.

## 5. Fairness

- `SeedGC.FairSpec`: weak fairness of `Collect`. Maintainers run rounds again and
  again; nothing is assumed of problems or roots.
- `StalePlans.StaleFairness`: `propose` is run again and again (weak fairness);
  applies are, and not all of them die before the write (strong fairness of
  `ApplyLoad` and `ApplyStore`: a load has to wait while its maintainer is
  writing, a write may be cut off each time). Nothing is assumed of the
  repository, nor of when an old plan is applied once more.
- `StuckRecovery.FairSpec`: time passes, the tool is run whenever there are stale
  rows (weak fairness of its steps), and it is not killed before the repair every
  time (strong fairness of `Repair`): a tool that always dies repairs nothing.
- `FeedbackDeposition.FairSpec`: the automation is run every night and a run that
  is not killed goes on (weak fairness of `Step`). Faults are bounded by
  `MaxFaults`, so in the end there are runs without any.

## 6. Proofs

All theorems hold for every value of the constants under the named assumptions.

- `SeedGCProofs` (any seeds, domains, problems, thresholds). Assumptions:
  `ThresholdAssumption` (natural numbers, and `RevivalPendingWindow <
  ArchiveAfter`, as in the default policy: 6 < 24), `DomainAssumption`,
  `MaxClockAssumption`. The inductive invariant is `TypeOK` and `RecordInv` of
  every record: no clock field is ahead of the clock, revival, grace and window
  lie within their length of the last use, and an archived seed has been idle
  for the archive threshold. Types alone are not enough, since the second stage
  is unreachable only because archiving takes longer than a window lasts. Its
  steps are the lemmas `ClockGrows` and `RoundPreserves`. Consequences:
  `SecondStageIsDead`, `ArchivedSeedsAreIdle`, `RevivalsAreSpaced`,
  `GraceDecidesNothing` (with both grace periods below the quarantine
  threshold), and `CollectorImplementsLifecycle`, by `RoundIsSweep`: one round
  is one outcome of the abstract sweep. `OpenInductive` proves the invariant for
  any repository whose clocks only grow.
  Where clocks also go back (`DropSpec`: problems that are removed, reclassified
  or cannot be read, in any number in a step) that invariant is lost. What is left
  is `DropInductive`: types, and that a seed was used since it was last revived. It
  gives `DropSettles`, `DropRevivalsAreSpaced` (with a quarantine threshold above 0;
  with 0 there is nothing to wait for) and `DropImplementsLifecycle`: only an
  archived seed in use may have to wait, in its pending window. Settling
  needs no invariant but types: `RoundsSettle` proves it from any record, by the
  lemmas `IdleRound` (a round leaves staleness as it is), `UsedRound` and
  `WindowStays`.
  For `StalePlans` (any maintainers, plans, clocks and schedules), in the same
  module: `StaleFilesAreTyped`, that whatever is merged, whole or lost, is a
  record. `RecoveredSeedsStay`, since a plan made from an active seed in use never
  moves it down, and neither does a merge of such a plan: `NothingCollects` has
  to speak of the plans and of the files about to be written, for any of them
  may come next. `RoundsHeal`: two undisturbed rounds repair what stale plans did,
  from any record; that such rounds do come about in spite of plans that are
  still applied is what TLC checks (`PinnedSeedsRecover`).
- `GCSystemProofs` (any problems, seeds, imports). `SystemIsCollector`: the system
  with its State.json files is one of the repositories of `DropSpec`, since the
  clocks it computes are bounded by the number of problems, which must be finite
  (`ProblemsAssumption`), and a round reads the same clocks and views in both.
  That lemma says nothing yet; with the theorems about `DropSpec` it gives
  `RevivalsAreSpaced` and `SystemSweepsLikeLifecycle`, which speak of the clocks
  and roots computed here, for reconciles that overlap too.
  `LastRunNotCollected`: the seeds the last reported problem of a domain reaches
  are not collected. Its hypothesis `KeepsReports` is what the policy sets: at
  least one success and one triaged problem kept (the defaults are
  2 and 1), and problems ordered by their names. The lemmas are `RecencyIsStrict` (two problems
  are never each more recent than the other), `LastIsSelected` and
  `RoundKeepsUsed`.
  For `ProblemStates` (any problems, run ids and processes), in the same module:
  `CountersAlwaysAgree`, for overlapping processes as well: what a process is
  about to write was computed from a state whose counters agreed
  (`CountersInv`). `SuccessIsNeverForgotten`, if not `Overlapping`: by
  `OneAtATime` a process is alone with its problem and works on what the file
  holds, or has emptied it; `Remembered(p)`, that the success of p is recorded in
  the file and in whatever is about to be written to it, is then stable.
- `SmallLoopProofs` (any cases, patches, diagnostics, costs). `LoopInv` says that
  while the run goes on every line of the log is harmless and no budget is used
  up, that the attempts counter is the number of attempts, and that a triaged
  run's last reason is not OK. `GoesOnForNoReason` follows from it.
  `TriagedForAReason` also needs `AttemptsAreLimited`, a hypothesis of the
  theorem: limits between 1 and the number of patches plus one, as the default
  and all cases of the repository have them. With limit 0 (no limit), or a larger
  one, the patches can run out first and the run is triaged with reason OK.
  `StagnationInv` relates the runner's count to the log: a stagnant line has the
  errors of the line before it, the count is the number of stagnant lines at the
  end, and the last reason was found with it; `StagnationIsReal` follows. It needs
  `ErrorsAssumption`, that the empty fingerprint "none" is no diagnostic: with it
  the first attempt is never stagnant. `LoopTypes` is type correctness with its
  bounds on the counters; it needs both invariants, and `CostsAssumption` (what an
  attempt costs is a natural number).
- `StuckRecoveryProofs` (any rows, automations, number of recoveries).
  Assumptions: `AutomationAssumption`, `TimeAssumption`. `RepairedOnce` is not
  inductive; the invariant adds `RepairedAreOut`: a repaired row is never again
  `IN_PROGRESS`. From it `RecoveryTypes`, `RowsAreRepairedOnce`,
  `ResultsAreNeverOverwritten`.
- `SharedCacheProofs` (any runners, packages, donors, crashes). Assumptions:
  `DonorsAssumption`, and `OwnWorkspaces`, a hypothesis of the theorems: each
  runner has its own workspace, none is the shared tree, and some package is
  required, as the callers of `ensure_workspace_lake_packages` have it. The
  invariant adds to `TypeOK` what each runner relies on (`RunnerInv`): the donor
  it copies from is one of the list, the workspace it marks is there, and from
  the look at its workspace to the end of its removal that workspace is not
  seeded. A step of another runner touches only the shared tree and that
  runner's workspace (`StepIsOwn`). `SeededWorkspacesStay` follows.
  `OkIsHydrated` and `SharedTreeIsWhole` say that what the call returns as ok has
  every file, for any number of runners, as long as no call meets another or is
  cut short (`overlapped`; crashes and overlapping runners do break them, section
  7). They hold under `OneFileSystem`, another hypothesis: hard links work. The
  invariant `InTurn` says that at most one runner is in its call, that `Stage(r)`
  holds of it, place by place which trees are whole, which are empty, and that a
  copy under way and what it has still to do make up its source, and that all
  else is at rest (`Rest(r)`): donors are whole or lack a package, and whoever has
  an ok has a whole workspace.
- `FeedbackDepositionProofs` (any items, inbox, faults). Assumptions:
  `ItemsAssumption`, `FaultsAssumption`; hypothesis `OneRunner`, since with two
  `OnceEach` is violated (section 7). The ledger alone is no subject for an
  invariant, since an append is flushed in pieces: `Inv` speaks of `Full(r)`, the
  ledger with the pieces still to be flushed. `Once`: however much of
  the append is written when it ends, no reader finds an item twice. `Text`: until
  a fault, it consists of whole lines, and those of the items appended are among
  them. From it `RecordedOnce` (also after faults), `SummaryIsTrue` and
  `RecordedForGood` (until a fault).
- `PromotionGateProofs` (any libraries, plans, lists, places and bounds, any
  operator). Assumptions: the types of plans, places and libraries
  (`PlansAssumption`, `PlacesAssumption`, `TreesAssumption`, with finitely many
  instances). The invariant says that a whole report of the present library has
  its duplicates (`Reports`), that what the gate has in hand is the plan and, if
  nothing was edited, the names of the library (`InHand`), and that each gate
  passed so far holds of what is in hand (`PassedGates`); an edit only raises the
  number of the library, and leaves all of it behind. Two lemmas carry the data:
  every name an item gives is the name of a candidate, because of the candidates
  with its key there is a first one (`NamedAreCandidates`), and a report without
  duplicates excuses all instances that say the same (`NoDuplicatesMeans`). From
  them `PassedAlwaysHolds`, for scans of any scope: what it says of instances is
  said of the modules that the report is of.
- `ScenarioRunProofs` (any scenarios, agents, repository, overlays, number of
  processes). Assumptions: `HubAssumption`, `NamesAssumption`,
  `ScenariosAssumption`, `MaxRunsAssumption`, and what each theorem says of the
  operator. `Shape` is types, and at which place of which process what has been
  made. On it rest four invariants.
  `SurfacesTell`: the modules only grow, and every tool an agent made is seen in
  the surfaces on the two sides of its step and of no other. It gives `Judged`,
  and so `BreachNeverPasses` and `BlameIsExact` (blame is exactly what was made),
  for a careful operator.
  `Evidence`: a run that began afresh holds the report that the agent of that step
  wrote in that process. It gives `GradedOnOwnEvidence`, also for an operator that restarts.
  `Progress`: a module is what the last overlay applied made it. It gives
  `OverlaysConverge`, also for one that restarts.
  `Reuse` adds that nothing of a later overlay is there early (`Ahead`), that
  proofs import what exists (`Imports`), and what each run left was the library
  planned for it (`Taken`). It gives `ReuseIsGenuine` under `NoLateReach`: the
  grader follows imports in the library at the end, so an overlay that joins two
  older modules would make a reuse of what was none.
  `Wellness` relates the goals that can be proved to the steps done
  (`Goals`), and says that a good agent left each finished run as its variant
  expects (`DoneWell`, `WellAtWork`). It gives `GoodWorkPasses` under `Passable`:
  the scenario expects a success exactly where the goal can be proved. The
  second half of `Passable` speaks of resumed processes, which copy the earlier
  overlays again over a fixture that a step between had put back.
  `MCScenarioRun` has TLC evaluate `NoLateReach` and `Passable` on its four shapes.

Only model-checked are the liveness properties (`EventuallyRevived`,
`EventuallyArchived`, `PinnedSeedsRecover`, `IdleSeedsAreArchived`,
`StalledIsRecovered`, `FeedbackIsDeposited`, `NewItemsReachTheAdvisor`), which with fairness and ENABLED are out
of the prover's reach; every other property of the passing runs is a theorem.
Induction over data and recursive operators are out of reach too: the modules
with theorems have no RECURSIVE operators, and reachability is the least closed
set.

## 7. Known disagreements without a run

Met while modelling, and reproducible in the models by stating the quoted
sentence as a property; each is left to the owners of the code.

- Collector: `cmd_apply` (`gc.py:1009`) looks neither at the roots nor at what the
  plan was computed from: a plan proposed before a seed was pinned and applied
  after it quarantines the pinned seed, against "pinned roots never collected"
  (`GC_GATE_CONTRACT.md:228`; add `PinnedNeverCollected` to `stale_plans.cfg`).
  `PinnedSeedsRecover` says that it comes back. Two maintainers whose applies
  overlap again and again can keep a pinned seed quarantined for ever, since each
  write loses the other's (drop `OneApply` from that property). An archived seed restored to
  quarantined is activated by the next round on the same hit (`gc.py:858`),
  although `GC_GATE_CONTRACT.md:208` asks for a "second independent hit";
  reachability from pins only feeds the report (`gc.py:738,813`), although `:74`
  of the contract marks what is reachable from roots as live.
- Problem states: two reconciles of one problem that overlap forget an attempt or
  a success (set `Overlapping = TRUE` and two reconcilers in `gc_system.cfg`), and
  the domain clock goes back, against `PROBLEM_STATE_CONTRACT.md` 1.1
  ("whether this problem has ever reached SUCCESS") and `GC_GATE_CONTRACT.md:102`
  (attempts "monotone"). A round of the collector while a State.json is written
  (`reconcile.py:24`), or after its writer was killed, takes the problem for
  absent (`gc.py:226`) and may quarantine its seeds; what a round records while the
  clock is low stays that low when the file is back, so that a seed may be
  collected without any new success; a torn file also makes every
  later `reconcile.py` raise (`:65`).
- Small loop: A build that passes is a SUCCESS even if the Judge found a
  forbidden edit (`run_scenarios.py:288`; `WORKFLOW_CONTRACT.md:74` says such
  edits trigger TRIAGED, `:126` lists success gates first); `run_cases.py:68`
  records only `.lean` files, so other forbidden edits reach no verdict; the
  level of a triage in the report is the expected one, not the Judge's
  (`run_scenarios.py:427`); all lines of an AttemptLog hold the one budgets object
  and show the final counters (`run_scenarios.py:323`).
- Shared cache: a runner killed in a copy, or one that is still copying, leaves a
  tree that the next call takes for whole (`shared_cache.py:68,361`).
- Recovery: the UPDATE does not test `updated_at` again, so a row that got fresh
  after the SELECT is repaired (`:118`); all selected rows are rerun, repaired or
  not (`:246`), and by both of two recoveries.
- Feedback: two overlapping runs append the same `feedback_id` twice (`append_
  feedback_ledger.py:139`, against `FEEDBACK_GOVERNANCE_CONTRACT.md:56`); the line
  after one that lost its newline destroys both (`:159`); items appended by a run
  that died before its summary are new to no run, and the advisor never gets
  them (`:174`); a closed item without links fails the matrix every night and asks
  the advisor with nothing new (`run_automation.py:272`).

- Deduplication and promotion: an alias and its original count as duplicates, so
  that an alias pair always fails the gate, although `phase3_dedup_gate_v0.md`
  4.1 has "DedupGate must not block it". Problems are counted over all candidates
  of a plan together, so that one used in a single problem passes with another
  one's three; one forced candidate decides for all, and one justified candidate
  that nobody forced is enough for the exception (`promote.py:464,492`), although
  `PROMOTION_GATE_CONTRACT.md:19` and `:49` count the problems of each tool. A
  report of a scan with a narrower `--scope` (`dedup.py:175`), or one that passed
  over files it could not decode (`:182`), says that it is of all of LeanAtlas
  (`:323`), and the gate takes it for that. A fully qualified name is
  never found by the scan of sources (`:377`), a plan that cannot be read is an
  empty one and passes (`:646`), a report in .cache stands before a nightly one
  in artifacts (`:264`), and the place is looked up before the builds and read
  after the first.
- Agent evaluation: when an operator restarts from an earlier step, the run of
  that step is blamed for the tools that a later overlay brought in the process
  before (`run_scenario.py:747`, `grade_scenario.py:642`, `:714`, against
  `AGENT_EVAL_SCENARIO_CONTRACT.md:152`): with the operator "restarts"
  `BreachesFail`, `BlameIsReal`, `ReuseIsReal` and `GoodAgentsPass` are violated,
  while `LibraryConverges` and `EvidenceIsOwn` hold. With `--no-reapply-overlays`
  after an interrupted replay the library does not converge. A step that keeps
  its problem (reset false) may be graded on the report of an earlier process,
  because run ids are the same in every process. A surface from before the agent
  stands in for the one after it if the runner is killed between the two and the
  step is not run again. Without a baseline everything is blamed on the first
  step; without a run directory the grader raises `FileNotFoundError`. Surfaces
  hold names only, so that a tool whose text was changed is no new tool.

## 8. Not modelled

The suite on the shared workspace, `run_pack.py` and `grade_pack.py` are planned
(section 2). Left out for good: report wording and schemas (formatting),
`env_stamp`, progress signals and telemetry (hashing and I/O), bench miners,
skills regeneration, audits, generators, onboarding checks (one pass over files,
no state of their own), the MCP server (read-only tables between requests),
shell scripts, and the Lean library itself, whose modules appear as seeds,
problems and imports. Of modelled components: the `--dry-run` and
`--automation-id` options of the recovery (they select less), `k_overrides` of
the Judge (no runner passes it), the manifest and verify steps of
`run_automation.py`, the other automations, whose tools keep no state, the audits
of structure of the promotion gate (they only run `lean --version`, and are not
hard gates), the prompts of the agent evaluation, and a human's repair of a torn
file.
