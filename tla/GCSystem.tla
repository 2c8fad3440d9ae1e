------------------------------ MODULE GCSystem ------------------------------
(***************************************************************************)
(* The seed collector inside the repository: problems are run and their    *)
(* State.json reconciled with the reports, maintainers and agents change   *)
(* what problems import and what is pinned, and rounds of gc.py read all   *)
(* of it.  The clock and the views of SeedGC are computed here.            *)
(***************************************************************************)
EXTENDS ProblemStates

CONSTANTS
    Seeds,
    DomainOf,
    SeedImports,      \* Seeds -> SUBSET Seeds: the imports among seeds
    ToolboxRoots,     \* the seeds that toolbox modules import
    ImportChoices,    \* bound of the model: what a problem may import
    PinChoices,       \* bound of the model: what may be pinned
    GraceNewSeed, QuarantineAfter, ArchiveAfter, RevivalGrace,
    RevivalPendingWindow

\* What SeedGC assumes of its constants.
ASSUME CollectorAssumption ==
    /\ DomainOf \in [Seeds -> Domains]
    /\ {GraceNewSeed, QuarantineAfter, ArchiveAfter, RevivalGrace, RevivalPendingWindow}
          \subseteq Nat
    /\ RevivalPendingWindow < ArchiveAfter

VARIABLES
    imports,     \* the seeds each problem's Spec, Proof and Cache import
    pinned,      \* roots.json and the links of tools/gc/gcroots
    gc           \* tools/index/gc_state.json

vars == <<problem, torn, job, imports, pinned, gc>>

ReachableFrom(roots) == Reach(roots, SeedImports)

Hits(s) == {p \in Selected(problem) : s \in ReachableFrom(imports[p])}

Clocks == [d \in Domains |-> DomainClock(problem, d)]
Views ==
    [s \in Seeds |-> [pinned |-> s \in pinned,
                      toolbox |-> s \in ReachableFrom(ToolboxRoots),
                      hits |-> Hits(s)]]

Collector == INSTANCE SeedGC
    WITH clock <- Clocks, view <- Views, MaxClock <- Cardinality(Problems)

Init ==
    /\ StatesInit
    /\ imports = [p \in Problems |-> {}]
    /\ pinned = {}
    /\ gc = [s \in Seeds |-> Collector!NoRecord]

-----------------------------------------------------------------------------

\* reconcile.py runs, or a human edits a State.json.
StatesChange ==
    /\ StatesNext
    /\ UNCHANGED <<imports, pinned, gc>>

\* An agent or a maintainer changes what the problem's modules import.
EditImports(p) ==
    /\ \E new \in ImportChoices \ {imports[p]} : imports' = [imports EXCEPT ![p] = new]
    /\ UNCHANGED <<stateVars, pinned, gc>>

\* roots.json is edited.
EditPins ==
    /\ \E new \in PinChoices \ {pinned} : pinned' = new
    /\ UNCHANGED <<stateVars, imports, gc>>

\* propose, then apply.
Collect ==
    /\ gc' = [s \in Seeds |-> Collector!AfterRound(s)]
    /\ UNCHANGED <<stateVars, imports, pinned>>

Next ==
    \/ StatesChange
    \/ \E p \in Problems : EditImports(p)
    \/ EditPins
    \/ Collect

Spec == Init /\ [][Next]_vars

-----------------------------------------------------------------------------
(* Properties. *)

Live == {s \in Seeds : \/ s \in pinned
                       \/ s \in ReachableFrom(ToolboxRoots)
                       \/ Hits(s) # {}}
Lifecycle == INSTANCE SeedLifecycle
                 WITH level <- [s \in Seeds |-> gc[s].state], live <- Live

\* No thrash in the repository as it is: with clocks counted from the State.json
\* that parse at that moment, which fall and come back when a round meets one while
\* it is written or after its writer was killed, a seed that was revived is still
\* not quarantined before the quarantine threshold has passed.
RevivalsSpaced ==
    [][\A s \in Seeds :
          gc[s].state = "active" /\ gc'[s].state = "quarantined"
              /\ gc[s].lastRevival # Collector!Absent
          => Clocks[DomainOf[s]] >= gc[s].lastRevival + QuarantineAfter]_vars

\* The rounds sweep the seeds as the abstract life cycle promises, with what is in
\* use computed from pins, imports and the problems selected: one level down at a
\* time, and never a seed in use.
SweepsLikeLifecycle == Lifecycle!PatientSpec

\* The work of the last run of a domain is safe from the collector, whether it
\* succeeded or was triaged, and whatever happens to other State.json meanwhile:
\* what it imports, however indirectly, is not moved down by a round.
LastRunIsSafe ==
    [][\A p \in DOMAIN problem, s \in Seeds :
          /\ problem[p].status \in ReportStatuses
          /\ \A q \in DOMAIN problem \ {p} :
                problem[q].domain = problem[p].domain => MoreRecent(problem, p, q)
          /\ s \in ReachableFrom(imports[p])
          /\ gc[s].state = "active"
          => gc'[s].state = "active"]_vars
=============================================================================
