---------------------------- MODULE ActiveRoots -----------------------------
(***************************************************************************)
(* Problems/<slug>/State.json and what the collector reads from it: how    *)
(* reconcile.py turns a run report into the next state, and how gc.py gets *)
(* from all states the domain clocks, the recent problems whose seeds are  *)
(* in use, and the modules reachable from them.  No variables: `ps` is     *)
(* always what _load_problem_states returns, the states of those problems  *)
(* whose file is there and parses.                                         *)
(***************************************************************************)
EXTENDS Integers, FiniteSets

CONSTANTS
    Problems,
    Domains,
    Unknown,                        \* the domain of a problem no one classified
    SlugOrder,                      \* Problems -> Nat, one-to-one: string order
    KActive, KSuccess, KTriaged     \* roots per domain and status

ASSUME ProblemsAssumption == IsFiniteSet(Problems)

Statuses == {"NEW", "ACTIVE", "SUCCESS", "TRIAGED", "PAUSED", "ABANDONED"}
ReportStatuses == {"SUCCESS", "TRIAGED"}

\* lastRun is the run_id, a time stamp of one second's resolution; 0: no run.
ProblemState ==
    [status : Statuses, everSucceeded : BOOLEAN, domain : Domains,
     attempts : Nat, success : Nat, triaged : Nat, lastRun : Nat]

\* Mutant: ever_succeeded follows the last report.
ReconciledForgetful(st, run, reported) ==
    [status |-> reported,
     everSucceeded |-> (reported = "SUCCESS"),
     domain |-> st.domain,
     attempts |-> st.attempts + 1,
     success |-> IF reported = "SUCCESS" THEN st.success + 1 ELSE st.success,
     triaged |-> IF reported = "TRIAGED" THEN st.triaged + 1 ELSE st.triaged,
     lastRun |-> run]

\* reconcile.py: the state after a report.  A PAUSED or ABANDONED problem is
\* overwritten like any other.
Reconciled(st, run, reported) ==
    [status |-> reported,
     everSucceeded |-> st.everSucceeded \/ reported = "SUCCESS",
     domain |-> st.domain,
     attempts |-> st.attempts + 1,
     success |-> IF reported = "SUCCESS" THEN st.success + 1 ELSE st.success,
     triaged |-> IF reported = "TRIAGED" THEN st.triaged + 1 ELSE st.triaged,
     lastRun |-> run]

\* How many problems of the domain ever succeeded.
DomainClock(ps, d) ==
    Cardinality({p \in DOMAIN ps : ps[p].domain = d /\ ps[p].everSucceeded})

\* Recency: has it a run, the run id, the attempts, the slug.
MoreRecent(ps, p, q) ==
    \/ ps[p].lastRun > ps[q].lastRun
    \/ /\ ps[p].lastRun = ps[q].lastRun
       /\ \/ ps[p].attempts > ps[q].attempts
          \/ /\ ps[p].attempts = ps[q].attempts
             /\ SlugOrder[p] > SlugOrder[q]

RootsKept(status) ==
    CASE status = "ACTIVE" -> KActive
      [] status = "SUCCESS" -> KSuccess
      [] status = "TRIAGED" -> KTriaged
      [] OTHER -> 0

\* Mutant: the sort is not reversed, the oldest problems are kept.
SelectedOldest(ps) ==
    {p \in DOMAIN ps :
        Cardinality({q \in DOMAIN ps :
                        /\ ps[q].domain = ps[p].domain
                        /\ ps[q].status = ps[p].status
                        /\ MoreRecent(ps, p, q)})
        < RootsKept(ps[p].status)}

\* The problems whose entry points are roots: the K most recent of each domain
\* and status.
Selected(ps) ==
    {p \in DOMAIN ps :
        Cardinality({q \in DOMAIN ps :
                        /\ ps[q].domain = ps[p].domain
                        /\ ps[q].status = ps[p].status
                        /\ MoreRecent(ps, q, p)})
        < RootsKept(ps[p].status)}

\* What _bfs sees: the least set of modules with the roots and closed under imports.
Reach(roots, imports) ==
    LET closed == {T \in SUBSET DOMAIN imports :
                      roots \subseteq T /\ \A m \in T : imports[m] \subseteq T}
    IN {m \in DOMAIN imports : \A T \in closed : m \in T}

=============================================================================
