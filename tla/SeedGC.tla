------------------------------- MODULE SeedGC -------------------------------
(***************************************************************************)
(* The seed garbage collector run by one maintainer at a time: each round  *)
(* is a `propose` followed by the `apply` of its plan, with nothing in     *)
(* between.  Around the rounds the repository changes: problems succeed    *)
(* for the first time (the domain clock), seeds are pinned, the toolbox    *)
(* and the selected problems start or stop reaching a seed.                *)
(***************************************************************************)
EXTENDS SeedDecision, FiniteSets

CONSTANTS
    Seeds,
    Domains,
    DomainOf,     \* the domain of each seed, from its path (_seed_domain_id)
    MaxClock      \* bound of the model: problems of a domain that succeed

ASSUME DomainAssumption == DomainOf \in [Seeds -> Domains]
ASSUME MaxClockAssumption == MaxClock \in Nat

VARIABLES
    gc,        \* tools/index/gc_state.json: the record of each seed
    clock,     \* for each domain, how many of its problems ever succeeded
    view       \* for each seed, the roots that reach it now

vars == <<gc, clock, view>>

Clk(s) == clock[DomainOf[s]]

Init ==
    /\ gc = [s \in Seeds |-> NoRecord]
    /\ clock = [d \in Domains |-> 0]
    /\ view \in [Seeds -> View]

-----------------------------------------------------------------------------
(* The repository around the collector. *)

\* A problem of domain d succeeds for the first time.
ProblemSucceeds(d) ==
    /\ clock[d] < MaxClock
    /\ clock' = [clock EXCEPT ![d] = @ + 1]
    /\ UNCHANGED <<gc, view>>

\* A problem of domain d that had succeeded is removed, moves to another domain,
\* or has a State.json that cannot be read.  Not a step of Next: see StalePlans.
ProblemLeaves(d) ==
    /\ clock[d] > 0
    /\ clock' = [clock EXCEPT ![d] = @ - 1]
    /\ UNCHANGED <<gc, view>>

\* An edit of roots.json, of the imports, or of the problems' states.
RootsChange(s) ==
    /\ \E v \in View : view' = [view EXCEPT ![s] = v]
    /\ UNCHANGED <<gc, clock>>

-----------------------------------------------------------------------------
(* One round of the collector: propose, then apply --mode MAINTAINER. *)

AfterRound(s) == Round(gc[s], Clk(s), view[s])

Collect ==
    /\ gc' = [s \in Seeds |-> AfterRound(s)]
    /\ UNCHANGED <<clock, view>>

Next ==
    \/ \E d \in Domains : ProblemSucceeds(d)
    \/ \E s \in Seeds : RootsChange(s)
    \/ Collect

Spec == Init /\ [][Next]_vars

\* The same with any change of the repository in one step, the clocks growing:
\* what a system that contains the collector implements.
RepositoryChanges ==
    /\ clock' \in [Domains -> Clock]
    /\ \A d \in Domains : clock[d] <= clock'[d]
    /\ view' \in [Seeds -> View]
    /\ UNCHANGED gc

OpenNext == RepositoryChanges \/ Collect
OpenSpec == Init /\ [][OpenNext]_vars

\* The collector is run again and again.
FairSpec == Spec /\ WF_vars(Collect)

\* And with clocks that go back as well.  The proofs about GCSystem and about
\* falling clocks start from this environment, the weakest there is; it is no
\* property of a run, since it says nothing of the clocks but that they are clocks.
AnyRepositoryChange ==
    /\ clock' \in [Domains -> 0..MaxClock]
    /\ view' \in [Seeds -> View]
    /\ UNCHANGED gc

DropNext == AnyRepositoryChange \/ Collect
DropSpec == Init /\ [][DropNext]_vars

-----------------------------------------------------------------------------
(* Properties. *)

\* Every record keeps its type: in particular no clock field is ever set to a
\* value that is not a clock, whatever entries are merged into it.
TypeOK ==
    /\ gc \in [Seeds -> SeedRecord]
    /\ clock \in [Domains -> Clock]
    /\ view \in [Seeds -> View]

\* Rounds settle: two rounds with nothing in between bring every seed where a
\* third one leaves it.  Collecting, reviving and the metadata they write never
\* feed each other into a cycle.
Settles ==
    \A s \in Seeds :
        LET once == AfterRound(s)
            twice == Round(once, Clk(s), view[s])
            thrice == Round(twice, Clk(s), view[s])
        IN thrice.state = twice.state

\* While clocks only grow, the second stage of an archived seed's revival is
\* out of reach: a pending window that is still open never meets an archived
\* seed, because archiving takes longer than the window lasts.
SecondStageUnreachable ==
    \A s \in Seeds :
        gc[s].state = "archived" => ~WithinWindow(gc[s], Clk(s))

\* An archived seed has been idle for the whole archive threshold, and stays so
\* until a round revives it.
ArchivedIsIdle ==
    \A s \in Seeds :
        gc[s].state = "archived" => Staleness(gc[s], Clk(s)) >= ArchiveAfter

\* No thrash: a seed is not quarantined sooner than the quarantine threshold
\* after it was revived, whatever the clocks do and the grace period is.
RevivalSpacing ==
    [][\A s \in Seeds :
          gc[s].state = "active" /\ gc'[s].state = "quarantined"
              /\ gc[s].lastRevival # Absent
          => Clk(s) >= gc[s].lastRevival + QuarantineAfter]_vars

\* Under thresholds like the default ones the two grace periods decide nothing:
\* a seed idle for the quarantine threshold is past both of them already.
GraceIsImplied ==
    \A s \in Seeds :
        Staleness(gc[s], Clk(s)) >= QuarantineAfter
        => /\ Age(gc[s], Clk(s)) >= GraceNewSeed
           /\ ~InRevivalGrace(gc[s], Clk(s))

\* Why the invariants above hold, for one record: a revival and an open window
\* are never ahead of the last recorded use by more than their length, and the
\* last use before an archived seed's archiving is the archive threshold away.
RecordInv(r, clk) ==
    /\ r.introduced <= clk
    /\ r.lastUsed <= clk
    /\ r.lastUsed # Absent
          => r.introduced # Absent /\ r.introduced <= r.lastUsed
    /\ r.lastRevival <= r.lastUsed
    /\ r.graceUntil # Absent
          => r.lastUsed # Absent /\ r.graceUntil <= r.lastUsed + RevivalGrace
    /\ r.pending
          => r.lastUsed # Absent /\ r.pendingUntil <= r.lastUsed + RevivalPendingWindow
    /\ r.state = "archived"
          => r.introduced # Absent /\ Staleness(r, clk) >= ArchiveAfter

\* The inductive invariant of the collector whose clocks only grow.
Inductive == TypeOK /\ \A s \in Seeds : RecordInv(gc[s], Clk(s))

Live == {s \in Seeds : Used(view[s])}
Lifecycle == INSTANCE SeedLifecycle
                 WITH level <- [s \in Seeds |-> gc[s].state], live <- Live

\* The collector implements the abstract life cycle: one level down at a time,
\* never while in use, and each sweep lifts what is in use.
ImplementsLifecycle == Lifecycle!Spec

\* What is left of it when clocks also go back: an archived seed in use may be
\* left waiting in its pending window.
ImplementsPatientLifecycle == Lifecycle!PatientSpec

\* A seed that stays in use is active in the end, however far down it was.
EventuallyRevived ==
    \A s \in Seeds : <>[](s \in Live) => <>[](gc[s].state = "active")

\* A seed that falls out of use for good, in a domain that goes on for the
\* archive threshold after its last recorded use, is archived in the end: the
\* grace periods delay collection but never prevent it.
EventuallyArchived ==
    \A s \in Seeds :
        <>[](s \notin Live /\ Staleness(gc[s], Clk(s)) >= ArchiveAfter)
        => <>[](gc[s].state = "archived")

=============================================================================
