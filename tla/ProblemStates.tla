--------------------------- MODULE ProblemStates ----------------------------
(***************************************************************************)
(* Problems/<slug>/State.json under reconcile.py: each call loads the      *)
(* file, adds one report and writes the file anew, without a lock and in   *)
(* place, so that others see it empty in between, and may be killed at any *)
(* moment.                                                                 *)
(***************************************************************************)
EXTENDS ActiveRoots

CONSTANTS
    Reconcilers,     \* processes of reconcile.py
    Overlapping,     \* whether two of them may work on one problem at a time
    RunIds,          \* bound of the model: run ids of each problem
    MaxAttempts      \* bound of the model: reports of each problem

ASSUME UnknownAssumption == Unknown \in Domains
ASSUME OverlappingAssumption == Overlapping \in BOOLEAN
ASSUME RunIdsAssumption == RunIds \in [Problems -> SUBSET Nat]

VARIABLES
    problem,     \* the State.json that parse: a state for some of the problems
    torn,        \* the problems whose State.json is empty or cut off
    job          \* what each running reconcile.py is about to write

stateVars == <<problem, torn, job>>

Job == [slug : Problems, next : ProblemState, opened : BOOLEAN]

\* A new problem, not yet run.
Fresh(status, d) ==
    [status |-> status, everSucceeded |-> FALSE, domain |-> d,
     attempts |-> 0, success |-> 0, triaged |-> 0, lastRun |-> 0]

\* What reconcile.py loads: the state, or the default where there is no file.
Loaded(p) == IF p \in DOMAIN problem THEN problem[p] ELSE Fresh("NEW", Unknown)

\* A function with one more, or one fewer, element in its domain.
Put(f, x, v) == [y \in DOMAIN f \union {x} |-> IF y = x THEN v ELSE f[y]]
Without(f, x) == [y \in DOMAIN f \ {x} |-> f[y]]

\* Problems exist with or without a State.json.
StatesInit ==
    /\ \E described \in SUBSET Problems :
          \E home \in [described -> Domains] :
             problem = [p \in described |-> Fresh("ACTIVE", home[p])]
    /\ torn = {}
    /\ job = <<>>

WorkedOn == {job[r].slug : r \in DOMAIN job}

-----------------------------------------------------------------------------

\* Mutant: a state that does not parse is taken for no state.
ReconcileLoadAnew(r, p) ==
    /\ r \notin DOMAIN job
    /\ Overlapping \/ p \notin WorkedOn
    /\ Loaded(p).attempts < MaxAttempts[p]
    /\ \E run \in RunIds[p], reported \in ReportStatuses :
          job' = Put(job, r, [slug |-> p, opened |-> FALSE,
                              next |-> Reconciled(Loaded(p), run, reported)])
    /\ UNCHANGED <<problem, torn>>

\* A run of p ended, and reconcile.py reads its report and the state.  On a torn
\* file it raises, and nothing changes.
ReconcileLoad(r, p) ==
    /\ r \notin DOMAIN job
    /\ p \notin torn
    /\ Overlapping \/ p \notin WorkedOn
    /\ Loaded(p).attempts < MaxAttempts[p]
    /\ \E run \in RunIds[p], reported \in ReportStatuses :
          job' = Put(job, r, [slug |-> p, opened |-> FALSE,
                              next |-> Reconciled(Loaded(p), run, reported)])
    /\ UNCHANGED <<problem, torn>>

\* write_text opens the file, which empties it ...
ReconcileOpen(r) ==
    /\ r \in DOMAIN job /\ ~job[r].opened
    /\ problem' = Without(problem, job[r].slug)
    /\ torn' = torn \union {job[r].slug}
    /\ job' = [job EXCEPT ![r].opened = TRUE]

\* ... and writes it.  Where another process has written since, the rest of a
\* longer text of its may stay behind the new one.
ReconcileWrite(r) ==
    /\ r \in DOMAIN job /\ job[r].opened
    /\ \E parses \in {TRUE, job[r].slug \in torn} :
          /\ problem' = IF parses THEN Put(problem, job[r].slug, job[r].next)
                                  ELSE Without(problem, job[r].slug)
          /\ torn' = IF parses THEN torn \ {job[r].slug} ELSE torn \union {job[r].slug}
    /\ job' = Without(job, r)

ReconcileKilled(r) ==
    /\ r \in DOMAIN job
    /\ job' = Without(job, r)
    /\ UNCHANGED <<problem, torn>>

\* A human pauses a problem, or takes it up again.
SetStatus(p) ==
    /\ p \in DOMAIN problem
    /\ \E status \in {"ACTIVE", "PAUSED"} \ {problem[p].status} :
          problem' = [problem EXCEPT ![p].status = status]
    /\ UNCHANGED <<torn, job>>

StatesNext ==
    \/ \E r \in Reconcilers :
          \/ \E p \in Problems : ReconcileLoad(r, p)
          \/ ReconcileOpen(r) \/ ReconcileWrite(r) \/ ReconcileKilled(r)
    \/ \E p \in Problems : SetStatus(p)

StatesSpec == StatesInit /\ [][StatesNext]_stateVars

-----------------------------------------------------------------------------
(* Properties. *)

\* The counters of a problem add up and agree with ever_succeeded, whatever
\* reports, human edits, kills and lost updates alternate.
CountersAgree ==
    \A p \in DOMAIN problem :
        /\ problem[p].attempts = problem[p].success + problem[p].triaged
        /\ problem[p].everSucceeded <=> problem[p].success > 0

\* A problem that ever succeeded is never again read as one that did not, as long
\* as one report of it is reconciled at a time: not after a later triage, a human
\* edit, nor a kill, which may make the file unreadable but never older.
SuccessIsForGood ==
    \A p \in Problems :
        [](p \in DOMAIN problem /\ problem[p].everSucceeded
           => [](p \in DOMAIN problem => problem[p].everSucceeded))
=============================================================================
