------------------------------- MODULE Judge --------------------------------
(***************************************************************************)
(* The deterministic decisions of the small loop: which edits of an        *)
(* attempt are out of scope (tools/workflow/patch_scope.py), which budgets *)
(* are used up (budgets.py), and whether the Judge lets the run go on      *)
(* (judge.py).  No variables: SmallLoop runs attempts with them.           *)
(***************************************************************************)
EXTENDS Integers

Modes == {"OPERATOR", "MAINTAINER"}

-----------------------------------------------------------------------------
(* Patch scope. *)

\* Where an edited file lies, as far as the policy tells places apart, and
\* whether its name ends in .lean.  "unclean": the path has a backslash or a
\* parent, or is no path relative to the repository.
Places == {"unclean", "ignored", "spec", "source", "inside", "problems", "system", "elsewhere"}
Path == [place : Places, lean : BOOLEAN]

\* The violation an edit of OPERATOR mode is reported with, OK if there is none.
\* UNKNOWN is that of an unclean path, which is one in any mode.
\* "source" is Proof.lean, Cache.lean, Scratch.lean or a file under Cache/.
EditCode(p) ==
    CASE p.place = "unclean" -> "UNKNOWN"
      [] p.place = "ignored" -> "OK"
      [] p.place = "spec" -> "SPEC_TOUCHED"
      [] p.place \in {"source", "inside"} /\ ~p.lean -> "PROBLEM_METADATA_TOUCHED"
      [] p.place = "source" /\ p.lean -> "OK"
      [] p.place = "inside" /\ p.lean -> "PROBLEM_INTERNAL_UNSAFE"
      [] p.place = "system" -> "SYSTEM_TOUCHED"
      [] p.place \in {"problems", "elsewhere"} -> "OUTSIDE_PROBLEM_TOUCHED"

Violations(mode, touched) ==
    LET reported == IF mode = "MAINTAINER" THEN {"UNKNOWN"}
                    ELSE {EditCode(p) : p \in touched} \ {"OK"}
    IN {p \in touched : EditCode(p) \in reported}

Allowed(mode, touched) == Violations(mode, touched) = {}

-----------------------------------------------------------------------------
(* Budgets: a limit of 0 is no limit. *)

Dimensions == {"attempts", "steps", "queries", "wall"}
Budget == [Dimensions -> Nat]

\* Mutant: a limit counts as exhausted only once it is passed.
ExhaustedLate(limits, counters) ==
    {d \in Dimensions : limits[d] # 0 /\ counters[d] > limits[d]}

Exhausted(limits, counters) ==
    {d \in Dimensions : limits[d] # 0 /\ counters[d] >= limits[d]}

-----------------------------------------------------------------------------
(* The Judge. *)

\* DEFAULT_K_BY_FAMILY: how many stagnant attempts in a row a family is given.
Families == {"ASSUMPTION", "DEFINITION", "STATEMENT", "TOOLING", "IMPORT", "NAME",
             "TYPE", "TACTIC", "BUDGET", "UNKNOWN"}

K == [family \in Families |->
        CASE family \in {"ASSUMPTION", "DEFINITION", "STATEMENT"} -> 0
          [] family = "TOOLING" -> 1
          [] family = "TYPE" -> 4
          [] family = "TACTIC" -> 6
          [] OTHER -> 2]

\* What an attempt found out: the signals the Judge reads.
Signals == [tooling : BOOLEAN, outside : BOOLEAN, stagnant : BOOLEAN]

\* The Judge's own count of stagnant attempts, after this one.
CountAfter(count, signals) == IF signals.stagnant THEN count + 1 ELSE 0

\* Mutant: the patch scope is looked at only if nothing else stops the run.
ReasonScopeLast(mode, allowed, family, count, signals, limits, counters) ==
    IF signals.tooling THEN "TOOLING_FAILURE"
    ELSE IF K[family] = 0 THEN "FAMILY_REQUIRES_ESCALATION"
    ELSE IF Exhausted(limits, counters) # {} THEN "BUDGET_EXHAUSTED"
    ELSE IF CountAfter(count, signals) >= K[family] THEN "STAGNATION_EXCEEDED"
    ELSE "OK"

\* The first reason to stop, in the order the Judge looks for them.
Reason(mode, allowed, family, count, signals, limits, counters) ==
    IF mode = "OPERATOR" /\ ~allowed THEN "SCOPE_VIOLATION"
    ELSE IF signals.tooling THEN "TOOLING_FAILURE"
    ELSE IF mode = "OPERATOR" /\ signals.outside THEN "ERROR_OUTSIDE_SCOPE"
    ELSE IF K[family] = 0 THEN "FAMILY_REQUIRES_ESCALATION"
    ELSE IF Exhausted(limits, counters) # {} THEN "BUDGET_EXHAUSTED"
    ELSE IF CountAfter(count, signals) >= K[family] THEN "STAGNATION_EXCEEDED"
    ELSE "OK"

Reasons ==
    {"SCOPE_VIOLATION", "TOOLING_FAILURE", "ERROR_OUTSIDE_SCOPE",
     "FAMILY_REQUIRES_ESCALATION", "BUDGET_EXHAUSTED", "STAGNATION_EXCEEDED", "OK"}

\* The level of triage that goes with a reason.
Level(reason) ==
    CASE reason = "OK" -> "none"
      [] reason \in {"BUDGET_EXHAUSTED", "STAGNATION_EXCEEDED"} -> "FIXABLE"
      [] OTHER -> "ESCALATE"
=============================================================================
