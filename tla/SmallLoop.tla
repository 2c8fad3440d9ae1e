----------------------------- MODULE SmallLoop ------------------------------
(***************************************************************************)
(* One run of the small loop on one problem, as the two runners of the     *)
(* repository do it (tests/e2e/run_cases.py, and execute_case_in_workdir   *)
(* of run_scenarios.py): a baseline build, then one attempt per patch, the *)
(* Judge after each, and the report and the attempt log at the end.        *)
(***************************************************************************)
EXTENDS Judge, Sequences

CONSTANTS
    Cases,          \* the cases: runner, family, patches, limits, tooling
    Patches,        \* the overlays a patch may be: sets of paths
    Errors,         \* error diagnostics, of the problem's own files ...
    ErrorsOutside,  \* ... and of other files
    Costs           \* wall time of an attempt

Mode == "OPERATOR"     \* both runners run their cases in this mode

Case ==
    [runner : {"cases", "scenarios"},       \* which of the two runs it
     family : Families, patches : Nat, limits : Budget,
     tooling : BOOLEAN]                     \* execution.simulate_tooling_failure

ASSUME CasesAssumption == Cases \subseteq Case
ASSUME ErrorsAssumption == "none" \notin Errors \union ErrorsOutside
ASSUME CostsAssumption == Costs \subseteq Nat

\* A build fails with any diagnostics, or with none the runner could parse.
Builds ==
    [ok : {TRUE}, errors : {{}}]
        \union [ok : {FALSE}, errors : SUBSET (Errors \union ErrorsOutside)]

VARIABLES
    case,       \* the case of this run
    attempt,    \* index of the next attempt, 0 for the baseline build
    last,       \* fingerprint of the last attempt, which is its set of errors
    count,      \* the runner's count of stagnant attempts
    counters,   \* budget counters
    log,        \* attempt_lines, in memory until the end
    verdict,    \* final_status: "none" until an attempt ends the run
    report      \* the status in the files of the run, once written

loop == <<attempt, last, count, counters, log, verdict>>
vars == <<case, loop, report>>

NoFingerprint == {"none"}
NoReport == "none"
Aborted == "aborted"

Init ==
    /\ case \in Cases
    /\ attempt = 0
    /\ last = NoFingerprint
    /\ count = 0
    /\ counters = [d \in Dimensions |-> 0]
    /\ log = <<>>
    /\ verdict = "none"
    /\ report = NoReport

-----------------------------------------------------------------------------
\* The touched files the runner records: run_cases only keeps .lean files.
Recorded(patch) == IF case.runner = "cases" THEN {p \in patch : p.lean} ELSE patch

\* A tooling failure takes the place of the build; only run_cases simulates it.
ToolingFailed == case.runner = "cases" /\ case.tooling

Outcomes ==
    IF ToolingFailed THEN [ok : {FALSE}, errors : {{"tooling"}}] ELSE Builds

\* No new diagnostics and no edit of a file named ...Proof.lean.
Stagnant(proofEdited, errors) == errors = last /\ ~proofEdited

\* Mutant: the runner's count forgets to start again after progress.
RunnerCountSticky(stagnant) == IF stagnant THEN count + 1 ELSE count

\* The runner counts stagnant attempts before it asks the Judge, which counts again.
RunnerCount(stagnant) == IF stagnant THEN count + 1 ELSE 0

\* Mutant: the status of a stopped run is the Judge's reason.
StatusIsReason(ok, reason) ==
    IF ok THEN "SUCCESS" ELSE IF reason # "OK" THEN reason ELSE "none"

\* The status an attempt ends the run with: a build that passes is a success
\* whatever the Judge says.
StatusAfter(ok, reason) ==
    IF ok THEN "SUCCESS" ELSE IF reason # "OK" THEN "TRIAGED" ELSE "none"

\* One attempt: apply the patch, build, signals, Judge, a line of the log.
Attempt(patch, proofEdited, outcome, cost) ==
    LET stagnant == Stagnant(proofEdited, outcome.errors)
        signals == [tooling |-> ToolingFailed,
                    outside |-> outcome.errors \intersect ErrorsOutside # {},
                    stagnant |-> stagnant]
        used == [counters EXCEPT !["attempts"] = attempt + 1, !["wall"] = @ + cost]
        reason == Reason(Mode, Allowed(Mode, Recorded(patch)), case.family,
                         RunnerCount(stagnant), signals, case.limits, used)
    IN  /\ verdict = "none"
        /\ attempt <= case.patches
        /\ report = NoReport
        /\ attempt' = attempt + 1
        /\ last' = outcome.errors
        /\ count' = RunnerCount(stagnant)
        /\ counters' = used
        /\ log' = Append(log, [patch |-> patch, ok |-> outcome.ok,
                               errors |-> outcome.errors, stagnant |-> stagnant,
                               reason |-> reason])
        /\ verdict' = StatusAfter(outcome.ok, reason)
        /\ UNCHANGED <<case, report>>

\* The baseline build applies no patch; the case's patches follow in order.
Baseline ==
    /\ attempt = 0
    /\ \E outcome \in Outcomes, cost \in Costs : Attempt({}, FALSE, outcome, cost)

ApplyPatch ==
    /\ attempt > 0
    /\ \E patch \in Patches, outcome \in Outcomes, cost \in Costs :
         \E proofEdited \in {b \in BOOLEAN : b => [place |-> "source", lean |-> TRUE] \in patch} :
            Attempt(patch, proofEdited, outcome, cost)

\* The report and the log are written once, after the last attempt.
Report ==
    /\ report = NoReport
    /\ verdict # "none" \/ attempt > case.patches
    /\ report' = IF verdict = "none" THEN "TRIAGED" ELSE verdict
    /\ UNCHANGED <<case, loop>>

\* A patch that is missing raises, or the process is killed: nothing is written.
Abort ==
    /\ report = NoReport
    /\ report' = Aborted
    /\ UNCHANGED <<case, loop>>

Next == Baseline \/ ApplyPatch \/ Report \/ Abort

Spec == Init /\ [][Next]_vars

-----------------------------------------------------------------------------
(* Correctness. *)

\* The variables keep their types.
TypeOK ==
    /\ case \in Case
    /\ attempt \in 0 .. case.patches + 1
    /\ last = NoFingerprint \/ \E b \in Outcomes : last = b.errors
    /\ count \in 0 .. attempt
    /\ counters \in Budget
    /\ Len(log) = attempt
    /\ \A i \in 1..Len(log) : log[i].reason \in Reasons
    /\ verdict \in {"none", "SUCCESS", "TRIAGED"}
    /\ report \in {"none", "aborted", "SUCCESS", "TRIAGED"}

Running == verdict = "none" /\ log # <<>>

\* Attempts i to the last all ended with the errors of the one before.
SameSince(i) == \A j \in i..Len(log) : j > 1 /\ log[j].errors = log[j-1].errors

\* A run goes on only if every attempt so far stayed in scope as far as it was
\* recorded, failed inside its problem, and the budgets are not used up
\* (WORKFLOW_CONTRACT 2.1 and 4.4, over the whole history of the run).
GoesOnForNoReason ==
    Running =>
        /\ \A i \in 1..Len(log) :
              /\ Allowed(Mode, Recorded(log[i].patch))
              /\ log[i].errors \intersect ErrorsOutside = {}
              /\ ~log[i].ok
        /\ Exhausted(case.limits, counters) = {}

\* A stop for stagnation is earned: the last attempts, as many as the runner's
\* counting asks for (one fewer than K, never none), changed no diagnostics and
\* edited no proof; and no run goes on after that many.
StagnationIsReal ==
    LET enough == IF K[case.family] <= 1 THEN 1 ELSE K[case.family] - 1
        tail == Len(log) - enough + 1
    IN  log # <<>> =>
          /\ log[Len(log)].reason = "STAGNATION_EXCEEDED" =>
                /\ tail > 1
                /\ SameSince(tail)
                /\ \A j \in tail..Len(log) : log[j].stagnant
          /\ Running => ~ (tail > 1 /\ \A j \in tail..Len(log) : log[j].stagnant)

\* Every triaged run names its reason: the patches never run out before a
\* reason to stop is found (budgets are at most one attempt per patch).
TriagedForAReason ==
    report = "TRIAGED" => log[Len(log)].reason # "OK"

-----------------------------------------------------------------------------
(* What the documents say and the runners do not do. *)

\* "Adaptive K (max consecutive stagnant attempts)", and check_judge_determinism
\* stops a TYPE run (K = 4) for the attempt after three stagnant ones: a run that
\* is triaged for stagnation has had K stagnant attempts in a row.
StagnationTakesK ==
    verdict = "TRIAGED" /\ log[Len(log)].reason = "STAGNATION_EXCEEDED" =>
        /\ Len(log) >= K[case.family]
        /\ \A j \in Len(log) - K[case.family] + 1 .. Len(log) : log[j].stagnant
=============================================================================
