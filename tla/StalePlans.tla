----------------------------- MODULE StalePlans -----------------------------
(***************************************************************************)
(* The seed collector as it is really run: `propose` leaves a GCPlan.json   *)
(* behind, and any `apply` may take it up later, more than once, after     *)
(* other plans, or while another apply is between loading and writing      *)
(* gc_state.json.  Nothing in gc.py compares the plan with the state or    *)
(* the roots it meets, and nothing locks the file.                         *)
(***************************************************************************)
EXTENDS SeedGC

CONSTANTS
    Plans,        \* out-roots: where a propose leaves its GCPlan.json
    Maintainers,  \* processes that run apply
    Reaching      \* bound of the model: what may reach a seed

ASSUME ReachingAssumption == Reaching \subseteq View

VARIABLES
    plan,         \* for each out-root, the entry of each seed, or NoPlan
    writing       \* for each apply, the gc_state it is about to write, or Idle

staleVars == <<gc, clock, view, plan, writing>>

NoPlan == <<>>
Idle == <<>>

StaleInit ==
    /\ Init /\ view \in [Seeds -> Reaching]
    /\ plan = [p \in Plans |-> NoPlan]
    /\ writing = [m \in Maintainers |-> Idle]

-----------------------------------------------------------------------------

\* The clocks move both ways: propose clamps what was recorded at a later clock.
Repository ==
    /\ \/ \E d \in Domains : ProblemSucceeds(d) \/ ProblemLeaves(d)
       \/ \E s \in Seeds : RootsChange(s) /\ view'[s] \in Reaching
    /\ UNCHANGED <<plan, writing>>

\* Mutant: a plan that is there is kept.
ProposeOnce(p) ==
    /\ plan[p] = NoPlan
    /\ plan' = [plan EXCEPT ![p] = [s \in Seeds |-> Entry(gc[s], Clk(s), view[s])]]
    /\ UNCHANGED <<gc, clock, view, writing>>

\* cmd_propose only reads the repository, and overwrites the plan of its out-root.
Propose(p) ==
    /\ plan' = [plan EXCEPT ![p] = [s \in Seeds |-> Entry(gc[s], Clk(s), view[s])]]
    /\ UNCHANGED <<gc, clock, view, writing>>

\* cmd_apply loads the plan and the state and merges one into the other, with
\* no look at the roots or at what the plan was computed from.
ApplyLoad(m, p) ==
    /\ writing[m] = Idle
    /\ plan[p] # NoPlan
    /\ writing' = [writing EXCEPT ![m] = [s \in Seeds |-> ApplyEntry(gc[s], plan[p][s])]]
    /\ UNCHANGED <<gc, clock, view, plan>>

\* It writes the whole file from what it loaded.
ApplyStore(m) ==
    /\ writing[m] # Idle
    /\ gc' = writing[m]
    /\ writing' = [writing EXCEPT ![m] = Idle]
    /\ UNCHANGED <<clock, view, plan>>

\* It dies before the write, or was a --dry-run.
ApplyEnds(m) ==
    /\ writing[m] # Idle
    /\ writing' = [writing EXCEPT ![m] = Idle]
    /\ UNCHANGED <<gc, clock, view, plan>>

StaleNext ==
    \/ Repository
    \/ \E p \in Plans : Propose(p)
    \/ \E m \in Maintainers :
          \/ \E p \in Plans : ApplyLoad(m, p)
          \/ ApplyStore(m)
          \/ ApplyEnds(m)

StaleSpec == StaleInit /\ [][StaleNext]_staleVars

\* Proposes and applies are made again and again, and of the applies of one
\* maintainer some live to write; the repository may do as it likes.
StaleFairness ==
    /\ \A p \in Plans : WF_staleVars(Propose(p))
    /\ \A m \in Maintainers, p \in Plans : SF_staleVars(ApplyLoad(m, p))
    /\ \A m \in Maintainers : SF_staleVars(ApplyStore(m))

FairStaleSpec == StaleSpec /\ StaleFairness

-----------------------------------------------------------------------------
(* Properties. *)

\* Two applies are not under way at once.
OneApply == \A m, k \in Maintainers : writing[m] # Idle /\ writing[k] # Idle => m = k

\* Late plans never lose a pinned seed for good: one that is pinned from some time
\* on is active in the end, whatever plans of before are still applied, whatever
\* the clocks do and however records were mixed, as long as applies do not overlap
\* for ever.
PinnedSeedsRecover ==
    \A s \in Seeds :
        <>[](view[s].pinned /\ OneApply) => <>[](gc[s].state = "active")

\* Idle for the archive threshold and past both grace periods.
LongIdle(s) ==
    /\ ~Used(view[s])
    /\ Staleness(gc[s], Clk(s)) >= ArchiveAfter
    /\ Age(gc[s], Clk(s)) >= GraceNewSeed
    /\ Clk(s) > gc[s].graceUntil

\* And never keep one for good: a seed out of use that is past all its thresholds
\* from some time on is archived in the end, although plans of before revive or
\* quarantine it again.
IdleSeedsAreArchived ==
    \A s \in Seeds :
        <>[](LongIdle(s) /\ OneApply) => <>[](gc[s].state = "archived")

\* No plan lying around and no apply under way moves s down.
NothingCollects(s) ==
    /\ gc[s].state = "active"
    /\ \A p \in Plans :
          plan[p] # NoPlan => plan[p][s].act \in {"activate", "meta"}
    /\ \A m \in Maintainers :
          writing[m] # Idle => writing[m][s].state = "active"

\* When recovery is over: once a seed in use is active and the plans of before are
\* gone, it stays so in every order of the applies, overlapping or not.
RecoveredStays ==
    [][\A s \in Seeds :
          NothingCollects(s) /\ Used(view[s]) => NothingCollects(s)']_staleVars

\* Whatever stale plans and clocks did, two undisturbed rounds repair it.
Heals ==
    \A s \in Seeds :
        LET twice == Round(AfterRound(s), Clk(s), view[s])
        IN /\ view[s].pinned \/ IndependentHits(view[s].hits)
                 => twice.state = "active"
           /\ Round(twice, Clk(s), view[s]).state = twice.state

\* A pinned seed is never collected (docs/contracts/GC_GATE_CONTRACT.md).
PinnedNeverCollected ==
    [][\A s \in Seeds :
          view[s].pinned /\ gc[s].state = "active" => gc'[s].state = "active"]_staleVars

=============================================================================
