--------------------------- MODULE StuckRecovery ----------------------------
(***************************************************************************)
(* The recovery of automation runs that the Codex app left IN_PROGRESS     *)
(* (tools/coordination/recover_stuck_automation_runs.py).  It reads the    *)
(* stale rows of the app's database, repairs them in one transaction and   *)
(* reruns their automations, while the app goes on writing the rows and    *)
(* another recovery may do the same.  The app is external: it is modelled  *)
(* by what the recovery's query and its test suppose of the rows.          *)
(***************************************************************************)
EXTENDS Integers

CONSTANTS
    Threads,          \* rows of automation_runs, by thread_id
    Automations,
    AutomationOf,     \* automation_id and source_cwd of a thread
    Recoveries,       \* processes
    Threshold,        \* --max-in-progress-minutes, in ticks
    MaxNow            \* bound of the model: ticks of the clock

ASSUME AutomationAssumption == AutomationOf \in [Threads -> Automations]
ASSUME TimeAssumption == Threshold \in Nat /\ MaxNow \in Nat

VARIABLES
    now,
    row,         \* automation_runs
    alive,       \* threads the app still works on
    pc,          \* where each recovery is
    at,          \* its now_ms
    picked,      \* the rows it selected
    repaired,    \* the rows its transaction changed
    toRerun,     \* automations it has still to rerun
    reruns       \* automations it has rerun

app == <<now, row, alive>>
recovery == <<pc, at, picked, repaired, toRerun, reruns>>
vars == <<app, recovery>>

Status == {"none", "IN_PROGRESS", "PENDING_REVIEW", "FINISHED"}
Row == [status : Status, updated : Nat]

Init ==
    /\ now = 0
    /\ row = [t \in Threads |-> [status |-> "none", updated |-> 0]]
    /\ alive = {}
    /\ pc = [r \in Recoveries |-> "idle"]
    /\ at = [r \in Recoveries |-> 0]
    /\ picked = [r \in Recoveries |-> {}]
    /\ repaired = [r \in Recoveries |-> {}]
    /\ toRerun = [r \in Recoveries |-> {}]
    /\ reruns = [r \in Recoveries |-> {}]

-----------------------------------------------------------------------------
(* The app and the clock. *)

Tick ==
    /\ now < MaxNow
    /\ now' = now + 1
    /\ UNCHANGED <<row, alive, recovery>>

Write(t, status) == row' = [row EXCEPT ![t] = [status |-> status, updated |-> now]]

Start(t) ==
    /\ row[t].status = "none"
    /\ Write(t, "IN_PROGRESS")
    /\ alive' = alive \union {t}
    /\ UNCHANGED <<now, recovery>>

Beat(t) ==
    /\ t \in alive
    /\ row[t].status = "IN_PROGRESS"
    /\ Write(t, "IN_PROGRESS")
    /\ UNCHANGED <<now, alive, recovery>>

\* The app ends the run with a result of its own, recovered or not.
Finish(t) ==
    /\ t \in alive
    /\ Write(t, "FINISHED")
    /\ alive' = alive \ {t}
    /\ UNCHANGED <<now, recovery>>

\* The session is lost: nobody will write the row any more.
Stall(t) ==
    /\ t \in alive
    /\ alive' = alive \ {t}
    /\ UNCHANGED <<now, row, recovery>>

-----------------------------------------------------------------------------
(* The recovery. *)

\* Mutant: rows are stale while they are young.
YoungRows(time) ==
    {t \in Threads : row[t].status = "IN_PROGRESS" /\ row[t].updated > time - Threshold}

StaleRows(time) ==
    {t \in Threads : row[t].status = "IN_PROGRESS" /\ row[t].updated <= time - Threshold}

\* Mutants: the UPDATE does not look at the status again, or not at the thread.
RepairableBlindly(r) == picked[r]
RepairableOfAll(r) == {t \in Threads : row[t].status = "IN_PROGRESS"}

\* The rows the UPDATE changes: it looks at the status again, not at the age.
Repairable(r) == {t \in picked[r] : row[t].status = "IN_PROGRESS"}

\* The tool run with --apply for all automations; without stale rows, or with
\* --dry-run, it changes nothing.
Select(r) ==
    /\ pc[r] = "idle"
    /\ StaleRows(now) # {}
    /\ pc' = [pc EXCEPT ![r] = "selected"]
    /\ at' = [at EXCEPT ![r] = now]
    /\ picked' = [picked EXCEPT ![r] = StaleRows(now)]
    /\ repaired' = [repaired EXCEPT ![r] = {}]
    /\ toRerun' = [toRerun EXCEPT ![r] = {}]
    /\ reruns' = [reruns EXCEPT ![r] = {}]
    /\ UNCHANGED app

\* One transaction.  What is rerun is what was selected, without duplicates;
\* nothing with --skip-rerun.
Repair(r) ==
    /\ pc[r] = "selected"
    /\ row' = [t \in Threads |->
                 IF t \in Repairable(r)
                   THEN [status |-> "PENDING_REVIEW", updated |-> at[r]] ELSE row[t]]
    /\ repaired' = [repaired EXCEPT ![r] = Repairable(r)]
    /\ toRerun' \in {[toRerun EXCEPT ![r] = {AutomationOf[t] : t \in picked[r]}],
                     [toRerun EXCEPT ![r] = {}]}
    /\ pc' = [pc EXCEPT ![r] = "repaired"]
    /\ UNCHANGED <<now, alive, at, picked, reruns>>

\* A rerun ends in any way: success, failure, timeout, no wrapper to call.
Rerun(r, a) ==
    /\ pc[r] = "repaired"
    /\ a \in toRerun[r]
    /\ toRerun' = [toRerun EXCEPT ![r] = @ \ {a}]
    /\ reruns' = [reruns EXCEPT ![r] = @ \union {a}]
    /\ UNCHANGED <<app, pc, at, picked, repaired>>

\* The manifest is written and the tool ends.
End(r) ==
    /\ pc[r] = "repaired"
    /\ toRerun[r] = {}
    /\ pc' = [pc EXCEPT ![r] = "idle"]
    /\ UNCHANGED <<app, at, picked, repaired, toRerun, reruns>>

\* The tool is killed: no manifest, no more reruns.
Kill(r) ==
    /\ pc[r] # "idle"
    /\ pc' = [pc EXCEPT ![r] = "idle"]
    /\ toRerun' = [toRerun EXCEPT ![r] = {}]
    /\ UNCHANGED <<app, at, picked, repaired, reruns>>

AppStep == \E t \in Threads : Start(t) \/ Beat(t) \/ Finish(t) \/ Stall(t)

RecoveryStep(r) ==
    \/ Select(r) \/ Repair(r) \/ End(r)
    \/ \E a \in Automations : Rerun(r, a)

Next == Tick \/ AppStep \/ \E r \in Recoveries : RecoveryStep(r) \/ Kill(r)

Spec == Init /\ [][Next]_vars

\* Time passes; the tool is run again and again and is not always killed before
\* it has repaired what it selected.
FairSpec ==
    /\ Spec
    /\ WF_vars(Tick)
    /\ \A r \in Recoveries : WF_vars(RecoveryStep(r)) /\ SF_vars(Repair(r))

-----------------------------------------------------------------------------
(* Correctness. *)

TypeOK ==
    /\ now \in 0..MaxNow
    /\ row \in [Threads -> Row]
    /\ \A t \in Threads : row[t].updated <= now
    /\ alive \subseteq {t \in Threads : row[t].status \in {"IN_PROGRESS", "PENDING_REVIEW"}}
    /\ pc \in [Recoveries -> {"idle", "selected", "repaired"}]
    /\ at \in [Recoveries -> 0..now]
    /\ picked \in [Recoveries -> SUBSET Threads]
    /\ repaired \in [Recoveries -> SUBSET Threads]
    /\ \A r \in Recoveries : repaired[r] \subseteq picked[r]
    /\ toRerun \in [Recoveries -> SUBSET Automations]
    /\ reruns \in [Recoveries -> SUBSET Automations]

\* A result the app wrote is never overwritten, however long ago the row was
\* selected: only rows still IN_PROGRESS are repaired.
ResultsStay ==
    [][\A t \in Threads : row[t].status = "FINISHED" => row'[t] = row[t]]_vars

\* Recoveries that run at the same time never count a row twice in their
\* manifests (repaired_count).
RepairedOnce ==
    \A r, q \in Recoveries : r # q => repaired[r] \intersect repaired[q] = {}

\* Nobody writes the row any more (and the bounded clock lets it get stale).
Stalled(t) ==
    /\ row[t].status = "IN_PROGRESS"
    /\ t \notin alive
    /\ row[t].updated + Threshold <= MaxNow

\* A row nobody works on any more does not stay IN_PROGRESS.
StalledIsRecovered ==
    \A t \in Threads : Stalled(t) ~> (row[t].status # "IN_PROGRESS")
=============================================================================
