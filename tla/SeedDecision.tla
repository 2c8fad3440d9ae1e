---------------------------- MODULE SeedDecision ----------------------------
(***************************************************************************)
(* The decisions of the seed garbage collector (tools/gc/gc.py): what one  *)
(* `propose` decides for one seed from its record in gc_state.json, the    *)
(* clock of its domain and the roots that reach it, and what `apply` does  *)
(* with that decision.  No variables: SeedGC and StalePlans build the      *)
(* running system from these operators.                                    *)
(***************************************************************************)
EXTENDS Integers

CONSTANTS
    Problems,              \* problem slugs that may reach a seed
    GraceNewSeed,          \* policy thresholds, in ticks of the domain clock
    QuarantineAfter,
    ArchiveAfter,
    RevivalGrace,
    RevivalPendingWindow

\* The thresholds of _default_policy are natural numbers, and a window of
\* pending revival is shorter than the idle time that archives a seed (6 < 24).
ASSUME ThresholdAssumption ==
    /\ GraceNewSeed \in Nat
    /\ QuarantineAfter \in Nat
    /\ ArchiveAfter \in Nat
    /\ RevivalGrace \in Nat
    /\ RevivalPendingWindow \in Nat
    /\ RevivalPendingWindow < ArchiveAfter

\* A clock field missing from the record (or null in it), and in a plan entry
\* a field that meta_update does not set.
Absent == -1
Clock == Nat
ClockOrAbsent == Clock \union {Absent}

States == {"active", "quarantined", "archived"}

\* One seed's record in gc_state.json.
SeedRecord ==
    [state : States,
     introduced : ClockOrAbsent,     \* introduced_at_clock
     lastUsed : ClockOrAbsent,       \* last_used_clock
     graceUntil : ClockOrAbsent,     \* revival_grace_until_clock
     lastRevival : ClockOrAbsent,    \* last_revival_clock
     pending : BOOLEAN,              \* revival_pending
     pendingUntil : ClockOrAbsent,   \* revival_pending_until_clock
     pendingHits : SUBSET Problems]  \* revival_pending_hits

\* A seed with no record is active and has no metadata.
NoRecord ==
    [state |-> "active", introduced |-> Absent, lastUsed |-> Absent,
     graceUntil |-> Absent, lastRevival |-> Absent,
     pending |-> FALSE, pendingUntil |-> Absent, pendingHits |-> {}]

\* What the mark phase found out about one seed: is it pinned, do the
\* toolbox modules reach it, and which selected problems reach it.
View == [pinned : BOOLEAN, toolbox : BOOLEAN, hits : SUBSET Problems]

Actions == {"activate", "quarantine", "archive", "meta"}

\* One entry of GCPlan.actions.  The fields after act are its meta_update.
PlanEntry ==
    [act : Actions,
     introduced : ClockOrAbsent,
     lastUsed : ClockOrAbsent,
     graceUntil : ClockOrAbsent,
     lastRevival : ClockOrAbsent,
     pend : {"keep", "start", "hits", "clear"},
     pendingUntil : ClockOrAbsent,
     pendingHits : SUBSET Problems]

-----------------------------------------------------------------------------
(* Propose: the metadata it starts from. *)

\* The clock can be behind a recorded value: clamp it.
Clamp(x, clk) == IF x > clk THEN clk ELSE x

IntroducedAt(r, clk) == IF r.introduced = Absent THEN clk ELSE r.introduced

LastUsedAt(r, clk) ==
    Clamp(IF r.lastUsed = Absent THEN IntroducedAt(r, clk) ELSE r.lastUsed, clk)

Staleness(r, clk) == clk - LastUsedAt(r, clk)
Age(r, clk) == clk - Clamp(IntroducedAt(r, clk), clk)

Used(v) == v.pinned \/ v.toolbox \/ v.hits # {}

\* Mutant: a revival protects for ever.
GraceWithoutEnd(r, clk) == r.graceUntil >= 0

InRevivalGrace(r, clk) == r.graceUntil >= 0 /\ clk <= r.graceUntil

\* Mutant: the end of the pending window is not looked at.
WindowWithoutEnd(r, clk) == r.pending

WithinWindow(r, clk) ==
    r.pending /\ r.pendingUntil >= 0 /\ clk <= r.pendingUntil

IndependentHits(H) == \E p, q \in H : p # q

-----------------------------------------------------------------------------
(* Propose: the branches of the state machine, each with the condition that *)
(* the earlier ones did not decide.                                         *)

Revives(r, v) ==
    \/ v.pinned /\ r.state # "active"
    \/ Used(v) /\ r.state = "quarantined"

StagedRevival(r, v) == Used(v) /\ ~v.pinned /\ r.state = "archived"

FirstStage(r, clk, v) == StagedRevival(r, v) /\ ~WithinWindow(r, clk)
SecondStage(r, clk, v) == StagedRevival(r, v) /\ WithinWindow(r, clk)

Confirms(r, clk, v) ==
    SecondStage(r, clk, v) /\ IndependentHits(r.pendingHits \union v.hits)

\* Mutant: seeds in use are collected too.
CollectableInUse(r, clk, v) ==
    Age(r, clk) >= GraceNewSeed /\ ~InRevivalGrace(r, clk)

Collectable(r, clk, v) ==
    ~Used(v) /\ Age(r, clk) >= GraceNewSeed /\ ~InRevivalGrace(r, clk)

StaleActive(r, clk, v) ==
    /\ Collectable(r, clk, v)
    /\ r.state = "active"
    /\ Staleness(r, clk) >= QuarantineAfter

StaleQuarantined(r, clk, v) ==
    /\ Collectable(r, clk, v)
    /\ r.state = "quarantined"
    /\ Staleness(r, clk) >= ArchiveAfter

\* The action of the plan.  "meta" also stands for a seed that the plan leaves
\* out: applying it then changes nothing.
Decide(r, clk, v) ==
    CASE Revives(r, v) \/ Confirms(r, clk, v) -> "activate"
      [] FirstStage(r, clk, v) \/ StaleActive(r, clk, v) -> "quarantine"
      [] StaleQuarantined(r, clk, v) -> "archive"
      [] OTHER -> "meta"

\* Mutant: uses are not recorded.
UseNotRecorded(r, clk, v) == Absent

NewLastUsed(r, clk, v) ==
    IF Used(v) /\ (r.lastUsed = Absent \/ LastUsedAt(r, clk) # clk)
    THEN clk ELSE Absent

\* The whole entry, meta_update included.
Entry(r, clk, v) ==
    [act |-> Decide(r, clk, v),
     introduced |-> IF r.introduced = Absent THEN clk ELSE Absent,
     lastUsed |-> NewLastUsed(r, clk, v),
     graceUntil |-> IF Decide(r, clk, v) = "activate" THEN clk + RevivalGrace ELSE Absent,
     lastRevival |-> IF Decide(r, clk, v) = "activate" THEN clk ELSE Absent,
     pend |-> CASE FirstStage(r, clk, v) -> "start"
                [] Confirms(r, clk, v) -> "clear"
                [] SecondStage(r, clk, v) /\ ~Confirms(r, clk, v) -> "hits"
                [] OTHER -> "keep",
     pendingUntil |-> IF FirstStage(r, clk, v)
                      THEN clk + RevivalPendingWindow ELSE Absent,
     pendingHits |-> CASE FirstStage(r, clk, v) -> v.hits
                       [] SecondStage(r, clk, v) -> r.pendingHits \union v.hits
                       [] OTHER -> {}]

-----------------------------------------------------------------------------
(* Apply: what one entry does to the record it is applied to. *)

Set(new, old) == IF new = Absent THEN old ELSE new

\* Mutant: an action that is not known makes the seed active, and "archive" is
\* not known.
ArchiveNotKnown(old, act) ==
    CASE act = "quarantine" -> "quarantined"
      [] act = "meta" -> old
      [] OTHER -> "active"

NewState(old, act) ==
    CASE act = "activate" -> "active"
      [] act = "quarantine" -> "quarantined"
      [] act = "archive" -> "archived"
      [] OTHER -> old

ApplyEntry(r, e) ==
    [state |-> NewState(r.state, e.act),
     introduced |-> Set(e.introduced, r.introduced),
     lastUsed |-> Set(e.lastUsed, r.lastUsed),
     graceUntil |-> Set(e.graceUntil, r.graceUntil),
     lastRevival |-> Set(e.lastRevival, r.lastRevival),
     pending |-> CASE e.pend = "start" -> TRUE
                   [] e.pend = "clear" -> FALSE
                   [] OTHER -> r.pending,
     pendingUntil |-> IF e.pend \in {"start", "clear"}
                      THEN e.pendingUntil ELSE r.pendingUntil,
     pendingHits |-> IF e.pend = "keep" THEN r.pendingHits ELSE e.pendingHits]

\* Propose and apply with nothing in between.
Round(r, clk, v) == ApplyEntry(r, Entry(r, clk, v))

=============================================================================
