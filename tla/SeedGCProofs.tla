---------------------------- MODULE SeedGCProofs ----------------------------
(***************************************************************************)
(* Proofs about the seed collector, for every set of seeds, problems and   *)
(* domains and all thresholds that satisfy the assumptions.  Undisturbed   *)
(* rounds first (SeedGC); then plans applied late, twice and at once by    *)
(* any maintainers from any out-roots (StalePlans), and that two           *)
(* undisturbed rounds repair what they did.                                *)
(***************************************************************************)
EXTENDS StalePlans, TLAPS

-----------------------------------------------------------------------------
(* Lemmas about one record. *)

\* An entry of a plan has its type.
LEMMA EntryType ==
    ASSUME NEW r \in SeedRecord, NEW clk \in Nat, NEW v \in View
    PROVE  Entry(r, clk, v) \in PlanEntry
<1>1. Decide(r, clk, v) \in Actions
  BY DEF Decide, Actions
<1>2. clk + RevivalPendingWindow \in Nat /\ clk + RevivalGrace \in Nat
  BY ThresholdAssumption
<1>3. NewLastUsed(r, clk, v) \in ClockOrAbsent
  BY DEF NewLastUsed, ClockOrAbsent, Clock
<1>4. r.pendingHits \in SUBSET Problems /\ v.hits \in SUBSET Problems
  BY DEF SeedRecord, View
<1> QED
  BY <1>1, <1>2, <1>3, <1>4 DEF Entry, PlanEntry, ClockOrAbsent, Clock

\* Applying any entry of a plan to any record gives a record: the type of
\* gc_state.json survives stale plans too.
LEMMA ApplyType ==
    ASSUME NEW r \in SeedRecord, NEW e \in PlanEntry
    PROVE  ApplyEntry(r, e) \in SeedRecord
<1>1. NewState(r.state, e.act) \in States
  BY DEF NewState, SeedRecord, States
<1>2. /\ Set(e.introduced, r.introduced) \in ClockOrAbsent
      /\ Set(e.lastUsed, r.lastUsed) \in ClockOrAbsent
      /\ Set(e.graceUntil, r.graceUntil) \in ClockOrAbsent
      /\ Set(e.lastRevival, r.lastRevival) \in ClockOrAbsent
  BY DEF Set, SeedRecord, PlanEntry
<1> QED
  BY <1>1, <1>2 DEF ApplyEntry, SeedRecord, PlanEntry

LEMMA RoundType ==
    ASSUME NEW r \in SeedRecord, NEW clk \in Nat, NEW v \in View
    PROVE  Round(r, clk, v) \in SeedRecord
BY EntryType, ApplyType DEF Round

\* The clock growing preserves the invariant of a record.
LEMMA ClockGrows ==
    ASSUME NEW r \in SeedRecord, NEW clk \in Nat, NEW later \in Nat,
           clk <= later, RecordInv(r, clk)
    PROVE  RecordInv(r, later)
BY ThresholdAssumption
   DEF RecordInv, SeedRecord, ClockOrAbsent, Clock, Absent,
       Staleness, LastUsedAt, IntroducedAt, Clamp

\* Under the invariant a window of pending revival that is still open never
\* meets an archived seed.
LEMMA NoSecondStage ==
    ASSUME NEW r \in SeedRecord, NEW clk \in Nat, RecordInv(r, clk),
           r.state = "archived"
    PROVE  ~WithinWindow(r, clk)
BY ThresholdAssumption
   DEF RecordInv, SeedRecord, ClockOrAbsent, Clock, Absent,
       Staleness, LastUsedAt, IntroducedAt, Clamp, WithinWindow

\* A round preserves the invariant of a record.
LEMMA RoundPreserves ==
    ASSUME NEW r \in SeedRecord, NEW clk \in Nat, NEW v \in View,
           RecordInv(r, clk)
    PROVE  RecordInv(Round(r, clk, v), clk)
<1> DEFINE n == Round(r, clk, v)
           act == Decide(r, clk, v)
<1> USE ThresholdAssumption DEF Absent
<1>0. n \in SeedRecord
  BY RoundType
<1>1. /\ n.introduced = IF r.introduced = Absent THEN clk ELSE r.introduced
      /\ n.lastUsed = IF Used(v) THEN clk ELSE r.lastUsed
  <2>1. /\ n.introduced = Set(Entry(r, clk, v).introduced, r.introduced)
        /\ n.lastUsed = Set(Entry(r, clk, v).lastUsed, r.lastUsed)
    BY DEF Round, ApplyEntry
  <2>2. /\ Entry(r, clk, v).introduced = IF r.introduced = Absent THEN clk ELSE Absent
        /\ Entry(r, clk, v).lastUsed = NewLastUsed(r, clk, v)
    BY DEF Entry
  <2>3. r.introduced \in Nat \union {-1} /\ r.lastUsed \in Nat \union {-1}
    BY DEF SeedRecord, ClockOrAbsent, Clock
  <2>4. n.introduced = IF r.introduced = Absent THEN clk ELSE r.introduced
    BY <2>1, <2>2, <2>3 DEF Set
  <2>5. NewLastUsed(r, clk, v) =
          IF Used(v) /\ (r.lastUsed = Absent \/ r.lastUsed # clk) THEN clk ELSE Absent
    BY <2>3 DEF NewLastUsed, LastUsedAt, IntroducedAt, Clamp, RecordInv
  <2> QED
    BY <2>1, <2>2, <2>3, <2>4, <2>5 DEF Set
<1>2. /\ n.lastRevival = IF act = "activate" THEN clk ELSE r.lastRevival
      /\ n.graceUntil = IF act = "activate" THEN clk + RevivalGrace ELSE r.graceUntil
  BY DEF Round, ApplyEntry, Entry, Set
<1>3. act = "activate" => Used(v)
  BY DEF Decide, Revives, Confirms, SecondStage, StagedRevival, Used
<1>4. n.pending => \/ Used(v) /\ n.pendingUntil = clk + RevivalPendingWindow
                   \/ r.pending /\ n.pendingUntil = r.pendingUntil
  <2>1. CASE FirstStage(r, clk, v)
    BY <2>1 DEF Round, ApplyEntry, Entry, FirstStage, StagedRevival
  <2>2. CASE Confirms(r, clk, v) /\ ~FirstStage(r, clk, v)
    BY <2>2 DEF Round, ApplyEntry, Entry
  <2>3. CASE ~Confirms(r, clk, v) /\ ~FirstStage(r, clk, v)
    BY <2>3 DEF Round, ApplyEntry, Entry
  <2> QED
    BY <2>1, <2>2, <2>3
<1>5. n.state = "archived" =>
        /\ ~Used(v)
        /\ r.introduced # Absent
        /\ Staleness(r, clk) >= ArchiveAfter
  <2> SUFFICES ASSUME n.state = "archived"
               PROVE  /\ ~Used(v)
                      /\ r.introduced # Absent
                      /\ Staleness(r, clk) >= ArchiveAfter
    OBVIOUS
  <2>1. n.state = NewState(r.state, act)
    BY DEF Round, ApplyEntry, Entry
  <2>2. act = "archive" \/ (r.state = "archived" /\ act = "meta")
    BY <2>1 DEF NewState, Decide
  <2>3. CASE act = "archive"
    <3>1. StaleQuarantined(r, clk, v)
      BY <2>3 DEF Decide
    <3>2. ~Used(v) /\ Staleness(r, clk) >= ArchiveAfter
      BY <3>1 DEF StaleQuarantined, Collectable
    <3>3. r.introduced # Absent
      BY <3>2 DEF Staleness, LastUsedAt, IntroducedAt, Clamp,
                  RecordInv, SeedRecord, ClockOrAbsent, Clock
    <3> QED
      BY <3>2, <3>3
  <2>4. CASE r.state = "archived" /\ act = "meta"
    <3>1. ~WithinWindow(r, clk)
      BY <2>4, NoSecondStage
    <3>2. ~Used(v)
      BY <2>4, <3>1 DEF Decide, Revives, FirstStage, StagedRevival
    <3> QED
      BY <2>4, <3>2 DEF RecordInv
  <2> QED
    BY <2>2, <2>3, <2>4
<1>6. n.state = "archived" =>
        n.introduced # Absent /\ Staleness(n, clk) >= ArchiveAfter
  BY <1>1, <1>5 DEF Staleness, LastUsedAt, IntroducedAt
<1>7. /\ n.introduced <= clk
      /\ n.lastUsed <= clk
      /\ n.lastUsed # Absent
            => n.introduced # Absent /\ n.introduced <= n.lastUsed
  BY <1>1 DEF RecordInv, SeedRecord, ClockOrAbsent, Clock
<1>8. /\ n.lastRevival <= n.lastUsed
      /\ n.graceUntil # Absent
            => n.lastUsed # Absent /\ n.graceUntil <= n.lastUsed + RevivalGrace
  BY <1>1, <1>2, <1>3 DEF RecordInv, SeedRecord, ClockOrAbsent, Clock
<1>9. n.pending
        => n.lastUsed # Absent /\ n.pendingUntil <= n.lastUsed + RevivalPendingWindow
  BY <1>1, <1>4 DEF RecordInv, SeedRecord, ClockOrAbsent, Clock
<1> QED
  BY <1>6, <1>7, <1>8, <1>9 DEF RecordInv

-----------------------------------------------------------------------------
(* The collector. *)

LEMMA ClkType ==
    ASSUME TypeOK, NEW s \in Seeds
    PROVE  Clk(s) \in Nat
BY DomainAssumption DEF TypeOK, Clk, Clock

LEMMA InitInductive == Init => Inductive
<1> SUFFICES ASSUME Init PROVE Inductive
  OBVIOUS
<1>1. NoRecord \in SeedRecord
  BY DEF NoRecord, SeedRecord, States, ClockOrAbsent
<1>2. TypeOK
  BY <1>1 DEF Init, TypeOK, Clock
<1>3. ASSUME NEW s \in Seeds PROVE RecordInv(gc[s], Clk(s))
  <2>1. gc[s] = NoRecord /\ Clk(s) \in Nat
    BY <1>2, ClkType DEF Init
  <2> QED
    BY <2>1 DEF NoRecord, RecordInv, Absent
<1> QED
  BY <1>2, <1>3 DEF Inductive

LEMMA StepInductive == Inductive /\ [OpenNext]_vars => Inductive'
<1> SUFFICES ASSUME Inductive, [OpenNext]_vars PROVE Inductive'
  OBVIOUS
<1> USE DEF Inductive
<1>1. CASE RepositoryChanges
  <2>1. TypeOK'
    BY <1>1 DEF RepositoryChanges, TypeOK
  <2>2. ASSUME NEW s \in Seeds PROVE RecordInv(gc'[s], Clk(s)')
    <3>1. Clk(s) \in Nat /\ Clk(s)' \in Nat /\ Clk(s) <= Clk(s)'
      BY <1>1, DomainAssumption DEF RepositoryChanges, TypeOK, Clk, Clock
    <3>2. gc[s] \in SeedRecord /\ gc'[s] = gc[s] /\ RecordInv(gc[s], Clk(s))
      BY <1>1 DEF RepositoryChanges, TypeOK
    <3> QED
      BY <3>1, <3>2, ClockGrows
  <2> QED
    BY <2>1, <2>2
<1>2. CASE Collect
  <2>1. ASSUME NEW s \in Seeds
        PROVE  /\ gc[s] \in SeedRecord /\ view[s] \in View /\ Clk(s) \in Nat
               /\ gc'[s] = Round(gc[s], Clk(s), view[s])
               /\ Clk(s)' = Clk(s)
    BY <1>2, ClkType DEF Collect, TypeOK, AfterRound, Clk
  <2>2. TypeOK'
    <3>1. gc' \in [Seeds -> SeedRecord]
      BY <1>2, <2>1, RoundType DEF Collect, AfterRound
    <3> QED
      BY <1>2, <3>1 DEF Collect, TypeOK
  <2>3. ASSUME NEW s \in Seeds PROVE RecordInv(gc'[s], Clk(s)')
    BY <2>1, RoundPreserves
  <2> QED
    BY <2>2, <2>3
<1>3. CASE UNCHANGED vars
  BY <1>3 DEF vars, TypeOK, Clk
<1> QED
  BY <1>1, <1>2, <1>3 DEF OpenNext

\* The environment of the model is one of those that only let clocks grow.
LEMMA StepIsOpen == TypeOK /\ [Next]_vars => [OpenNext]_vars
<1> SUFFICES ASSUME TypeOK, Next PROVE OpenNext
  BY DEF vars
<1>1. ASSUME NEW d \in Domains, ProblemSucceeds(d) PROVE RepositoryChanges
  BY <1>1 DEF ProblemSucceeds, RepositoryChanges, TypeOK, Clock
<1>2. ASSUME NEW s \in Seeds, RootsChange(s) PROVE RepositoryChanges
  BY <1>2 DEF RootsChange, RepositoryChanges, TypeOK, Clock
<1> QED
  BY <1>1, <1>2 DEF Next, OpenNext

\* The inductive invariant holds in every reachable state of a system that
\* contains the collector and whose domain clocks only grow.
THEOREM OpenInductive == OpenSpec => []Inductive
<1> QED
  BY InitInductive, StepInductive, PTL DEF OpenSpec

-----------------------------------------------------------------------------
(* What the inductive invariant gives. *)

LEMMA SpecImpliesOpen == Spec => OpenSpec
<1>1. Init => TypeOK
  BY InitInductive DEF Inductive
<1>2. TypeOK /\ [Next]_vars => TypeOK'
  <2>1. TypeOK /\ [OpenNext]_vars => TypeOK'
    <3> SUFFICES ASSUME TypeOK, [OpenNext]_vars PROVE TypeOK'
      OBVIOUS
    <3>1. CASE RepositoryChanges
      BY <3>1 DEF RepositoryChanges, TypeOK
    <3>2. CASE Collect
      <4>1. ASSUME NEW s \in Seeds PROVE AfterRound(s) \in SeedRecord
        BY ClkType, RoundType DEF TypeOK, AfterRound
      <4> QED
        BY <3>2, <4>1 DEF Collect, TypeOK
    <3>3. CASE UNCHANGED vars
      BY <3>3 DEF vars, TypeOK
    <3> QED
      BY <3>1, <3>2, <3>3 DEF OpenNext
  <2> QED
    BY <2>1, StepIsOpen
<1>3. TypeOK /\ [Next]_vars => [OpenNext]_vars
  BY StepIsOpen
<1> QED
  BY <1>1, <1>2, <1>3, PTL DEF Spec, OpenSpec

\* Type correctness: gc_state.json keeps its shape in every behaviour.
THEOREM TypeCorrect == Spec => []TypeOK
<1>1. Inductive => TypeOK
  BY DEF Inductive
<1> QED
  BY <1>1, OpenInductive, SpecImpliesOpen, PTL

\* The inductive invariant that the runs check holds for all parameters.
THEOREM InductiveInvariant == Spec => []Inductive
<1> QED
  BY OpenInductive, SpecImpliesOpen, PTL

\* The second stage of the staged revival is dead code while clocks grow, for
\* all thresholds with a pending window shorter than the archive threshold.
THEOREM SecondStageIsDead == Spec => []SecondStageUnreachable
<1>1. Inductive => SecondStageUnreachable
  <2> SUFFICES ASSUME Inductive, NEW s \in Seeds, gc[s].state = "archived"
               PROVE  ~WithinWindow(gc[s], Clk(s))
    BY DEF SecondStageUnreachable
  <2>1. gc[s] \in SeedRecord /\ Clk(s) \in Nat /\ RecordInv(gc[s], Clk(s))
    BY ClkType DEF Inductive, TypeOK
  <2> QED
    BY <2>1, NoSecondStage
<1> QED
  BY <1>1, InductiveInvariant, PTL

\* An archived seed has been idle for the archive threshold.
THEOREM ArchivedSeedsAreIdle == Spec => []ArchivedIsIdle
<1>1. Inductive => ArchivedIsIdle
  BY DEF Inductive, RecordInv, ArchivedIsIdle
<1> QED
  BY <1>1, InductiveInvariant, PTL

\* Where both grace periods are shorter than the quarantine threshold, as in
\* the default policy, they never decide anything.
THEOREM GraceDecidesNothing ==
    ASSUME GraceNewSeed <= QuarantineAfter, RevivalGrace < QuarantineAfter
    PROVE  Spec => []GraceIsImplied
<1>1. Inductive => GraceIsImplied
  <2> SUFFICES ASSUME Inductive, NEW s \in Seeds,
                      Staleness(gc[s], Clk(s)) >= QuarantineAfter
               PROVE  /\ Age(gc[s], Clk(s)) >= GraceNewSeed
                      /\ ~InRevivalGrace(gc[s], Clk(s))
    BY DEF GraceIsImplied
  <2>1. gc[s] \in SeedRecord /\ Clk(s) \in Nat /\ RecordInv(gc[s], Clk(s))
    BY ClkType DEF Inductive, TypeOK
  <2> QED
    BY <2>1, ThresholdAssumption
       DEF RecordInv, SeedRecord, ClockOrAbsent, Clock, Absent, InRevivalGrace,
           Age, Staleness, LastUsedAt, IntroducedAt, Clamp
<1> QED
  BY <1>1, InductiveInvariant, PTL

\* A revived seed is not quarantined again before the quarantine threshold has
\* passed on its clock.
THEOREM RevivalsAreSpaced == Spec => RevivalSpacing
<1>1. Inductive /\ [Next]_vars =>
        [\A s \in Seeds :
            gc[s].state = "active" /\ gc'[s].state = "quarantined"
                /\ gc[s].lastRevival # Absent
            => Clk(s) >= gc[s].lastRevival + QuarantineAfter]_vars
  <2> SUFFICES ASSUME Inductive, Next, NEW s \in Seeds,
                      gc[s].state = "active", gc'[s].state = "quarantined"
               PROVE  Clk(s) >= gc[s].lastRevival + QuarantineAfter
    BY DEF vars
  <2>1. Collect
    BY DEF Next, ProblemSucceeds, RootsChange
  <2>2. gc[s] \in SeedRecord /\ Clk(s) \in Nat /\ RecordInv(gc[s], Clk(s))
    BY ClkType DEF Inductive, TypeOK
  <2>3. gc'[s].state = NewState("active", Decide(gc[s], Clk(s), view[s]))
    <3>1. gc'[s] = Round(gc[s], Clk(s), view[s])
      BY <2>1 DEF Collect, AfterRound
    <3>2. Round(gc[s], Clk(s), view[s]).state
            = NewState(gc[s].state, Decide(gc[s], Clk(s), view[s]))
      BY DEF Round, ApplyEntry, Entry
    <3> QED
      BY <3>1, <3>2
  <2>4. StaleActive(gc[s], Clk(s), view[s])
    BY <2>3 DEF NewState, Decide, FirstStage, StagedRevival
  <2>5. Staleness(gc[s], Clk(s)) >= QuarantineAfter
    BY <2>4 DEF StaleActive
  <2> QED
    BY <2>2, <2>5, ThresholdAssumption
       DEF RecordInv, SeedRecord, ClockOrAbsent, Clock, Absent,
           Staleness, LastUsedAt, IntroducedAt, Clamp
<1> QED
  BY <1>1, InductiveInvariant, PTL DEF Spec, RevivalSpacing

-----------------------------------------------------------------------------
(* Rounds settle, whatever record and clock they start from. *)

\* Where a round leaves the state of a record.
LEMMA RoundState ==
    ASSUME NEW r \in SeedRecord, NEW clk \in Nat, NEW v \in View
    PROVE  Round(r, clk, v).state = NewState(r.state, Decide(r, clk, v))
BY DEF Round, ApplyEntry, Entry

\* What makes a record collectable stays as it is in a round, unless the seed is
\* in use.
LEMMA IdleRound ==
    ASSUME NEW r \in SeedRecord, NEW clk \in Nat, NEW v \in View, ~Used(v)
    PROVE  LET n == Round(r, clk, v) IN
           /\ Collectable(n, clk, v) = Collectable(r, clk, v)
           /\ Staleness(n, clk) = Staleness(r, clk)
           /\ n.state = CASE StaleActive(r, clk, v) -> "quarantined"
                          [] StaleQuarantined(r, clk, v) -> "archived"
                          [] OTHER -> r.state
<1> DEFINE n == Round(r, clk, v)
           act == Decide(r, clk, v)
<1>1. ~Revives(r, v) /\ ~Confirms(r, clk, v) /\ ~FirstStage(r, clk, v)
  BY DEF Revives, Confirms, FirstStage, SecondStage, StagedRevival, Used
<1>2. act = CASE StaleActive(r, clk, v) -> "quarantine"
              [] StaleQuarantined(r, clk, v) -> "archive"
              [] OTHER -> "meta"
  BY <1>1 DEF Decide
<1>3. n.state = NewState(r.state, act)
  BY RoundState
<1>4. ~(StaleActive(r, clk, v) /\ StaleQuarantined(r, clk, v))
  BY DEF StaleActive, StaleQuarantined
<1>5. n.state = CASE StaleActive(r, clk, v) -> "quarantined"
                  [] StaleQuarantined(r, clk, v) -> "archived"
                  [] OTHER -> r.state
  BY <1>2, <1>3, <1>4 DEF NewState
<1>6. /\ n.introduced = IF r.introduced = Absent THEN clk ELSE r.introduced
      /\ n.lastUsed = r.lastUsed
      /\ n.graceUntil = r.graceUntil
  BY <1>2 DEF Round, ApplyEntry, Entry, Set, NewLastUsed, Absent
<1>7. /\ IntroducedAt(n, clk) = IntroducedAt(r, clk)
      /\ LastUsedAt(n, clk) = LastUsedAt(r, clk)
      /\ InRevivalGrace(n, clk) = InRevivalGrace(r, clk)
  BY <1>6 DEF IntroducedAt, LastUsedAt, InRevivalGrace, Absent
<1>8. Collectable(n, clk, v) = Collectable(r, clk, v) /\ Staleness(n, clk) = Staleness(r, clk)
  BY <1>7 DEF Collectable, Staleness, Age
<1> QED
  BY <1>5, <1>8

\* A seed in use that is active stays so, and one that is quarantined is lifted.
LEMMA UsedRound ==
    ASSUME NEW r \in SeedRecord, NEW clk \in Nat, NEW v \in View, Used(v)
    PROVE  LET n == Round(r, clk, v) IN
           /\ r.state # "archived" \/ v.pinned => n.state = "active"
           /\ r.state = "archived" /\ ~v.pinned =>
                 n.state = IF Confirms(r, clk, v) THEN "active"
                           ELSE IF WithinWindow(r, clk) THEN "archived" ELSE "quarantined"
<1> DEFINE n == Round(r, clk, v)
           act == Decide(r, clk, v)
<1>1. n.state = NewState(r.state, act) /\ r.state \in States
  BY RoundState DEF SeedRecord
<1>2. ~StaleActive(r, clk, v) /\ ~StaleQuarantined(r, clk, v)
  BY DEF StaleActive, StaleQuarantined, Collectable
<1>3. CASE r.state = "active"
  <2>1. act = "meta"
    BY <1>2, <1>3 DEF Decide, Revives, Confirms, FirstStage, SecondStage, StagedRevival
  <2> QED
    BY <1>1, <1>3, <2>1 DEF NewState
<1>4. CASE r.state = "quarantined" \/ (r.state = "archived" /\ v.pinned)
  <2>1. act = "activate"
    BY <1>2, <1>4 DEF Decide, Revives, FirstStage, StagedRevival
  <2> QED
    BY <1>1, <1>4, <2>1 DEF NewState
<1>5. CASE r.state = "archived" /\ ~v.pinned
  <2>1. ~Revives(r, v)
    BY <1>5 DEF Revives
  <2>2. FirstStage(r, clk, v) = ~WithinWindow(r, clk)
    BY <1>5 DEF FirstStage, StagedRevival
  <2>3. Confirms(r, clk, v) => WithinWindow(r, clk)
    BY DEF Confirms, SecondStage
  <2>4. act = IF Confirms(r, clk, v) THEN "activate"
              ELSE IF WithinWindow(r, clk) THEN "meta" ELSE "quarantine"
    BY <1>2, <2>1, <2>2, <2>3 DEF Decide
  <2> QED
    BY <1>1, <1>5, <2>4 DEF NewState
<1> QED
  BY <1>1, <1>3, <1>4, <1>5 DEF States

\* A window that does not confirm a revival is left as it is but for the hits.
LEMMA WindowStays ==
    ASSUME NEW r \in SeedRecord, NEW clk \in Nat, NEW v \in View,
           StagedRevival(r, v), WithinWindow(r, clk), ~Confirms(r, clk, v)
    PROVE  LET n == Round(r, clk, v) IN
           WithinWindow(n, clk) /\ ~IndependentHits(n.pendingHits \union v.hits)
<1> DEFINE n == Round(r, clk, v)
<1>1. SecondStage(r, clk, v) /\ ~FirstStage(r, clk, v)
  BY DEF SecondStage, FirstStage
<1>2. /\ n.pending = r.pending
      /\ n.pendingUntil = r.pendingUntil
      /\ n.pendingHits = r.pendingHits \union v.hits
  BY <1>1 DEF Round, ApplyEntry, Entry
<1>3. WithinWindow(n, clk)
  BY <1>2 DEF WithinWindow
<1>4. n.pendingHits \union v.hits = r.pendingHits \union v.hits
  BY <1>2
<1>5. ~IndependentHits(r.pendingHits \union v.hits)
  BY <1>1 DEF Confirms
<1> QED
  BY <1>3, <1>4, <1>5

\* Two rounds with nothing in between bring a record where a third leaves it.
LEMMA RoundsSettle ==
    ASSUME NEW r \in SeedRecord, NEW clk \in Nat, NEW v \in View
    PROVE  LET twice == Round(Round(r, clk, v), clk, v)
           IN  Round(twice, clk, v).state = twice.state
<1> DEFINE once == Round(r, clk, v)
           twice == Round(once, clk, v)
           thrice == Round(twice, clk, v)
<1>0. once \in SeedRecord /\ twice \in SeedRecord
  BY RoundType
<1> SUFFICES thrice.state = twice.state
  OBVIOUS
<1> HIDE DEF once, twice, thrice
<1>1. CASE ~Used(v)
  <2>1. /\ Collectable(once, clk, v) = Collectable(r, clk, v)
        /\ Staleness(once, clk) = Staleness(r, clk)
        /\ once.state = CASE StaleActive(r, clk, v) -> "quarantined"
                          [] StaleQuarantined(r, clk, v) -> "archived"
                          [] OTHER -> r.state
    BY <1>1, IdleRound DEF once
  <2>2. /\ Collectable(twice, clk, v) = Collectable(once, clk, v)
        /\ Staleness(twice, clk) = Staleness(once, clk)
        /\ twice.state = CASE StaleActive(once, clk, v) -> "quarantined"
                           [] StaleQuarantined(once, clk, v) -> "archived"
                           [] OTHER -> once.state
    BY <1>0, <1>1, IdleRound DEF twice
  <2>3. thrice.state = CASE StaleActive(twice, clk, v) -> "quarantined"
                         [] StaleQuarantined(twice, clk, v) -> "archived"
                         [] OTHER -> twice.state
    BY <1>0, <1>1, IdleRound DEF thrice
  <2> QED
    BY <2>1, <2>2, <2>3 DEF StaleActive, StaleQuarantined
<1>2. CASE Used(v) /\ twice.state = "active"
  BY <1>0, <1>2, UsedRound DEF thrice
<1>3. CASE Used(v) /\ twice.state # "active"
  <2>1. once.state = "archived" /\ ~v.pinned
    BY <1>0, <1>3, UsedRound DEF twice
  <2>2. r.state = "archived" /\ ~Confirms(r, clk, v) /\ WithinWindow(r, clk)
    <3>1. r.state = "archived"
      BY <1>3, <2>1, UsedRound DEF once
    <3> QED
      BY <1>3, <2>1, <3>1, UsedRound DEF once
  <2>3. WithinWindow(once, clk) /\ ~IndependentHits(once.pendingHits \union v.hits)
    BY <1>3, <2>1, <2>2, WindowStays DEF once, StagedRevival
  <2>4. ~Confirms(once, clk, v)
    BY <2>3 DEF Confirms
  <2>5. twice.state = "archived"
    BY <1>0, <1>3, <2>1, <2>3, <2>4, UsedRound DEF twice
  <2>6. WithinWindow(twice, clk) /\ ~IndependentHits(twice.pendingHits \union v.hits)
    BY <1>0, <1>3, <2>1, <2>3, <2>4, WindowStays DEF twice, StagedRevival
  <2>7. ~Confirms(twice, clk, v)
    BY <2>6 DEF Confirms
  <2> QED
    BY <1>0, <1>3, <2>1, <2>5, <2>6, <2>7, UsedRound DEF thrice
<1> QED
  BY <1>1, <1>2, <1>3

\* Two rounds settle every seed, in every state of the collector.
THEOREM RoundsSettleAll == Spec => []Settles
<1>1. TypeOK => Settles
  BY ClkType, RoundsSettle DEF TypeOK, Settles, AfterRound
<1> QED
  BY <1>1, TypeCorrect, PTL

-----------------------------------------------------------------------------
(* Clocks that also go back: DropSpec. *)

\* A record's last revival is never ahead of its last use: a revival records a
\* use at the same clock, and a use is never replaced by an earlier one.
UsedSinceRevived(r) == r.lastRevival <= r.lastUsed

LEMMA RoundKeepsUse ==
    ASSUME NEW r \in SeedRecord, NEW clk \in Nat, NEW v \in View, UsedSinceRevived(r)
    PROVE  UsedSinceRevived(Round(r, clk, v))
<1> DEFINE n == Round(r, clk, v)
           act == Decide(r, clk, v)
<1> USE ThresholdAssumption DEF Absent
<1>1. /\ n.lastUsed = Set(NewLastUsed(r, clk, v), r.lastUsed)
      /\ n.lastRevival = Set(Entry(r, clk, v).lastRevival, r.lastRevival)
  <2>1. Entry(r, clk, v).lastUsed = NewLastUsed(r, clk, v)
    BY DEF Entry
  <2> QED
    BY <2>1 DEF Round, ApplyEntry
<1>2. n.lastRevival = IF act = "activate" THEN clk ELSE r.lastRevival
  <2>1. Entry(r, clk, v).lastRevival = IF act = "activate" THEN clk ELSE Absent
    BY DEF Entry
  <2> QED
    BY <1>1, <2>1 DEF Set
<1>3. act = "activate" => Used(v)
  BY DEF Decide, Revives, Confirms, SecondStage, StagedRevival, Used
<1>4. NewLastUsed(r, clk, v) # Absent => NewLastUsed(r, clk, v) = clk /\ r.lastUsed <= clk
  BY DEF NewLastUsed, LastUsedAt, Clamp, SeedRecord, ClockOrAbsent, Clock
<1>5. Used(v) /\ NewLastUsed(r, clk, v) = Absent => clk <= r.lastUsed
  BY DEF NewLastUsed, LastUsedAt, IntroducedAt, Clamp, SeedRecord, ClockOrAbsent, Clock
<1>6. r.lastUsed \in Int /\ r.lastRevival \in Int
  BY DEF SeedRecord, ClockOrAbsent, Clock
<1> QED
  BY <1>1, <1>2, <1>3, <1>4, <1>5, <1>6 DEF UsedSinceRevived, Set

DropInductive == TypeOK /\ \A s \in Seeds : UsedSinceRevived(gc[s])

LEMMA DropInit == Init => DropInductive
<1> SUFFICES ASSUME Init PROVE DropInductive
  OBVIOUS
<1>1. TypeOK
  BY InitInductive DEF Inductive
<1> QED
  BY <1>1 DEF Init, DropInductive, UsedSinceRevived, NoRecord, Absent

LEMMA DropStep == DropInductive /\ [DropNext]_vars => DropInductive'
<1> SUFFICES ASSUME DropInductive, [DropNext]_vars PROVE DropInductive'
  OBVIOUS
<1> USE DEF DropInductive
<1>1. CASE AnyRepositoryChange
  BY <1>1, MaxClockAssumption DEF AnyRepositoryChange, TypeOK, Clock
<1>2. CASE Collect
  <2>1. ASSUME NEW s \in Seeds
        PROVE  gc'[s] \in SeedRecord /\ UsedSinceRevived(gc'[s])
    <3>1. gc[s] \in SeedRecord /\ view[s] \in View /\ Clk(s) \in Nat
      BY ClkType DEF TypeOK
    <3>2. gc'[s] = Round(gc[s], Clk(s), view[s])
      BY <1>2 DEF Collect, AfterRound
    <3> QED
      BY <3>1, <3>2, RoundType, RoundKeepsUse
  <2>2. gc' \in [Seeds -> SeedRecord]
    BY <1>2, <2>1 DEF Collect
  <2> QED
    BY <1>2, <2>1, <2>2 DEF Collect, TypeOK
<1>3. CASE UNCHANGED vars
  BY <1>3 DEF vars, TypeOK
<1> QED
  BY <1>1, <1>2, <1>3 DEF DropNext

LEMMA DropInvariant == DropSpec => []DropInductive
<1> QED
  BY DropInit, DropStep, PTL DEF DropSpec

\* Rounds settle also when problems are removed or move to another domain, and
\* the clocks go back.
THEOREM DropSettles == DropSpec => []Settles
<1>1. DropInductive => Settles
  BY ClkType, RoundsSettle DEF DropInductive, TypeOK, Settles, AfterRound
<1> QED
  BY <1>1, DropInvariant, PTL

LEMMA OnlyCollectWrites ==
    ASSUME DropNext, NEW s \in Seeds, gc'[s].state # gc[s].state
    PROVE  Collect
BY DEF DropNext, AnyRepositoryChange

\* Whatever the clocks do, a revived seed is not quarantined again before the
\* quarantine threshold has passed, unless that threshold is 0.
THEOREM DropRevivalsAreSpaced ==
    ASSUME QuarantineAfter > 0
    PROVE  DropSpec => RevivalSpacing
<1>1. DropInductive /\ [DropNext]_vars =>
        [\A s \in Seeds :
            gc[s].state = "active" /\ gc'[s].state = "quarantined"
                /\ gc[s].lastRevival # Absent
            => Clk(s) >= gc[s].lastRevival + QuarantineAfter]_vars
  <2> SUFFICES ASSUME DropInductive, DropNext, NEW s \in Seeds,
                      gc[s].state = "active", gc'[s].state = "quarantined",
                      gc[s].lastRevival # Absent
               PROVE  Clk(s) >= gc[s].lastRevival + QuarantineAfter
    BY DEF vars
  <2>1. gc'[s] = Round(gc[s], Clk(s), view[s])
    BY OnlyCollectWrites DEF Collect, AfterRound
  <2>2. gc[s] \in SeedRecord /\ Clk(s) \in Nat /\ view[s] \in View /\ UsedSinceRevived(gc[s])
    BY ClkType DEF DropInductive, TypeOK
  <2>3. "quarantined" = NewState("active", Decide(gc[s], Clk(s), view[s]))
    BY <2>1, <2>2, RoundState
  <2>4. StaleActive(gc[s], Clk(s), view[s])
    BY <2>3 DEF NewState, Decide, FirstStage, StagedRevival
  <2>5. Staleness(gc[s], Clk(s)) >= QuarantineAfter
    BY <2>4 DEF StaleActive
  <2> QED
    BY <2>2, <2>5, ThresholdAssumption
       DEF UsedSinceRevived, SeedRecord, ClockOrAbsent, Clock, Absent,
           Staleness, LastUsedAt, IntroducedAt, Clamp
<1> QED
  BY <1>1, DropInvariant, PTL DEF DropSpec, RevivalSpacing

-----------------------------------------------------------------------------
(* The collector implements the life cycle. *)

\* One round is one outcome of the abstract sweep.
LEMMA RoundIsSweep ==
    ASSUME NEW r \in SeedRecord, NEW clk \in Nat, NEW v \in View,
           RecordInv(r, clk)
    PROVE  Round(r, clk, v).state \in Lifecycle!Outcome(r.state, Used(v))
<1>1. Round(r, clk, v).state = NewState(r.state, Decide(r, clk, v))
  BY RoundState
<1>2. r.state \in States
  BY DEF SeedRecord
<1>3. CASE Used(v) /\ r.state = "active"
  <2>1. Decide(r, clk, v) = "meta"
    BY <1>3 DEF Decide, Revives, Confirms, FirstStage, SecondStage, StagedRevival,
                StaleActive, StaleQuarantined, Collectable
  <2> QED
    BY <1>1, <1>3, <2>1 DEF NewState, Lifecycle!Outcome
<1>4. CASE Used(v) /\ r.state = "quarantined"
  <2>1. Decide(r, clk, v) = "activate"
    BY <1>4 DEF Decide, Revives, FirstStage, StagedRevival,
                StaleActive, StaleQuarantined, Collectable
  <2> QED
    BY <1>1, <1>4, <2>1 DEF NewState, Lifecycle!Outcome
<1>5. CASE Used(v) /\ r.state = "archived"
  <2>1. ~WithinWindow(r, clk)
    BY <1>5, NoSecondStage
  <2>2. Decide(r, clk, v) \in {"activate", "quarantine"}
    BY <1>5, <2>1 DEF Decide, Revives, Confirms, SecondStage, FirstStage,
                      StagedRevival, StaleActive, StaleQuarantined, Collectable
  <2> QED
    BY <1>1, <1>5, <2>2 DEF NewState, Lifecycle!Outcome
<1>6. CASE ~Used(v)
  <2>1. ~Revives(r, v) /\ ~Confirms(r, clk, v) /\ ~FirstStage(r, clk, v)
    BY <1>6 DEF Revives, Confirms, FirstStage, SecondStage, StagedRevival, Used
  <2>2. \/ Decide(r, clk, v) = "quarantine" /\ r.state = "active"
        \/ Decide(r, clk, v) = "archive" /\ r.state = "quarantined"
        \/ Decide(r, clk, v) = "meta"
    BY <2>1 DEF Decide, StaleActive, StaleQuarantined
  <2> QED
    BY <1>1, <1>2, <1>6, <2>2 DEF NewState, Lifecycle!Outcome, States
<1> QED
  BY <1>2, <1>3, <1>4, <1>5, <1>6 DEF States

\* The collector implements the abstract life cycle.
THEOREM CollectorImplementsLifecycle == Spec => ImplementsLifecycle
<1>1. Init => Lifecycle!Init
  BY DEF Init, Lifecycle!Init, NoRecord, Live
<1>2. Inductive /\ [Next]_vars => [Lifecycle!Next]_(Lifecycle!vars)
  <2> SUFFICES ASSUME Inductive, [Next]_vars
               PROVE  [Lifecycle!Next]_(Lifecycle!vars)
    OBVIOUS
  <2>1. ASSUME UNCHANGED gc, Live' \in SUBSET Seeds PROVE Lifecycle!UseChanges
    BY <2>1 DEF Lifecycle!UseChanges
  <2>2. Live' \in SUBSET Seeds
    BY DEF Live
  <2>3. CASE Next /\ ~Collect
    <3>1. UNCHANGED gc
      BY <2>3 DEF Next, ProblemSucceeds, RootsChange
    <3> QED
      BY <2>1, <2>2, <3>1 DEF Lifecycle!Next
  <2>4. CASE Collect
    <3>1. ASSUME NEW s \in Seeds
          PROVE  /\ gc'[s].state \in States
                 /\ gc'[s].state \in Lifecycle!Outcome(gc[s].state, s \in Live)
      <4>1. /\ gc[s] \in SeedRecord /\ view[s] \in View /\ Clk(s) \in Nat
            /\ RecordInv(gc[s], Clk(s))
            /\ gc'[s] = Round(gc[s], Clk(s), view[s])
        BY <2>4, ClkType DEF Inductive, Collect, TypeOK, AfterRound
      <4>2. gc'[s].state \in States
        BY <4>1, RoundType DEF SeedRecord
      <4>3. gc'[s].state \in Lifecycle!Outcome(gc[s].state, Used(view[s]))
        BY <4>1, RoundIsSweep
      <4>4. (s \in Live) = Used(view[s])
        BY DEF Live, Used
      <4> QED
        BY <4>2, <4>3, <4>4
    <3>2. UNCHANGED Live
      BY <2>4 DEF Collect, Live
    <3>3. Lifecycle!Sweep
      BY <3>1, <3>2 DEF Lifecycle!Sweep, States
    <3> QED
      BY <3>3 DEF Lifecycle!Next
  <2>5. CASE UNCHANGED vars
    BY <2>5 DEF vars, Lifecycle!vars, Live
  <2> QED
    BY <2>3, <2>4, <2>5
<1> QED
  BY <1>1, <1>2, InductiveInvariant, PTL
     DEF Spec, ImplementsLifecycle, Lifecycle!Spec

\* Without the invariant, on clocks that go back, a round may also leave an
\* archived seed where it is.
LEMMA RoundIsPatientSweep ==
    ASSUME NEW r \in SeedRecord, NEW clk \in Nat, NEW v \in View
    PROVE  \/ Round(r, clk, v).state \in Lifecycle!Outcome(r.state, Used(v))
           \/ Round(r, clk, v).state = "archived" /\ r.state = "archived"
<1> DEFINE n == Round(r, clk, v)
<1>1. r.state \in States
  BY DEF SeedRecord
<1>2. CASE Used(v)
  <2>1. /\ r.state # "archived" \/ v.pinned => n.state = "active"
        /\ r.state = "archived" /\ ~v.pinned
              => n.state \in {"active", "quarantined", "archived"}
    BY <1>2, UsedRound
  <2> QED
    BY <1>1, <1>2, <2>1 DEF Lifecycle!Outcome, States
<1>3. CASE ~Used(v)
  <2>1. n.state = CASE StaleActive(r, clk, v) -> "quarantined"
                    [] StaleQuarantined(r, clk, v) -> "archived"
                    [] OTHER -> r.state
    BY <1>3, IdleRound
  <2>2. n.state = r.state \/ (r.state = "active" /\ n.state = "quarantined")
                          \/ (r.state = "quarantined" /\ n.state = "archived")
    BY <2>1 DEF StaleActive, StaleQuarantined
  <2> QED
    BY <1>1, <1>3, <2>2 DEF Lifecycle!Outcome, States
<1> QED
  BY <1>2, <1>3

\* Whatever the clocks do, the collector implements the patient life cycle: one
\* level down at a time, and never a seed in use.
THEOREM DropImplementsLifecycle == DropSpec => ImplementsPatientLifecycle
<1>1. Init => Lifecycle!Init
  BY DEF Init, Lifecycle!Init, NoRecord, Live
<1>2. DropInductive /\ [DropNext]_vars
        => [Lifecycle!PatientSweep \/ Lifecycle!UseChanges]_(Lifecycle!vars)
  <2> SUFFICES ASSUME DropInductive, [DropNext]_vars
               PROVE  [Lifecycle!PatientSweep \/ Lifecycle!UseChanges]_(Lifecycle!vars)
    OBVIOUS
  <2>1. CASE AnyRepositoryChange
    BY <2>1 DEF AnyRepositoryChange, Lifecycle!UseChanges, Live
  <2>2. CASE Collect
    <3>1. ASSUME NEW s \in Seeds
          PROVE  /\ gc'[s].state \in States
                 /\ \/ gc'[s].state \in Lifecycle!Outcome(gc[s].state, s \in Live)
                    \/ gc'[s].state = "archived" /\ gc[s].state = "archived"
      <4>1. /\ gc[s] \in SeedRecord /\ view[s] \in View /\ Clk(s) \in Nat
            /\ gc'[s] = Round(gc[s], Clk(s), view[s])
        BY <2>2, ClkType DEF DropInductive, Collect, TypeOK, AfterRound
      <4>2. gc'[s].state \in States
        BY <4>1, RoundType DEF SeedRecord
      <4>3. (s \in Live) = Used(view[s])
        BY DEF Live, Used
      <4> QED
        BY <4>1, <4>2, <4>3, RoundIsPatientSweep
    <3>2. UNCHANGED Live
      BY <2>2 DEF Collect, Live
    <3> QED
      BY <3>1, <3>2 DEF Lifecycle!PatientSweep, States
  <2>3. CASE UNCHANGED vars
    BY <2>3 DEF vars, Lifecycle!vars, Live
  <2> QED
    BY <2>1, <2>2, <2>3 DEF DropNext
<1> QED
  BY <1>1, <1>2, DropInvariant, PTL
     DEF DropSpec, ImplementsPatientLifecycle, Lifecycle!PatientSpec

-----------------------------------------------------------------------------
(* Stale plans. *)

RecordFiles == [Seeds -> SeedRecord]
SeedPlans == [Seeds -> PlanEntry]

\* The types of the files, of the plans and of what the applies are about to
\* write, on clocks that move both ways.
StaleTypes ==
    /\ clock \in [Domains -> Clock]
    /\ view \in [Seeds -> View]
    /\ gc \in RecordFiles
    /\ DOMAIN plan = Plans /\ DOMAIN writing = Maintainers
    /\ \A p \in Plans : plan[p] = NoPlan \/ plan[p] \in SeedPlans
    /\ \A m \in Maintainers : writing[m] = Idle \/ writing[m] \in RecordFiles

LEMMA StaleTypeOK == StaleTypes => TypeOK
BY DEF StaleTypes, RecordFiles, TypeOK

LEMMA StaleStart == StaleInit => StaleTypes
<1> SUFFICES ASSUME StaleInit PROVE StaleTypes
  OBVIOUS
<1>1. TypeOK
  BY InitInductive DEF StaleInit, Inductive
<1> QED
  BY <1>1 DEF StaleInit, StaleTypes, RecordFiles, TypeOK

\* The plan that a propose leaves has its type.
LEMMA ProposeType ==
    ASSUME StaleTypes
    PROVE  [s \in Seeds |-> Entry(gc[s], Clk(s), view[s])] \in SeedPlans
<1>1. ASSUME NEW s \in Seeds PROVE Entry(gc[s], Clk(s), view[s]) \in PlanEntry
  <2>1. gc[s] \in SeedRecord /\ view[s] \in View /\ Clk(s) \in Nat
    BY StaleTypeOK, ClkType DEF StaleTypes, RecordFiles
  <2> QED
    BY <2>1, EntryType
<1> QED
  BY <1>1 DEF SeedPlans

\* So does the file an apply has merged.
LEMMA LoadType ==
    ASSUME StaleTypes, NEW e \in SeedPlans
    PROVE  [s \in Seeds |-> ApplyEntry(gc[s], e[s])] \in RecordFiles
<1>1. ASSUME NEW s \in Seeds PROVE ApplyEntry(gc[s], e[s]) \in SeedRecord
  <2>1. gc[s] \in SeedRecord /\ e[s] \in PlanEntry
    BY DEF StaleTypes, RecordFiles, SeedPlans
  <2> QED
    BY <2>1, ApplyType
<1> QED
  BY <1>1 DEF RecordFiles

LEMMA StaleTypesStep == StaleTypes /\ [StaleNext]_staleVars => StaleTypes'
<1> SUFFICES ASSUME StaleTypes, [StaleNext]_staleVars PROVE StaleTypes'
  OBVIOUS
<1>1. CASE Repository
  <2>1. /\ clock' \in [Domains -> Clock] /\ view' \in [Seeds -> View]
        /\ UNCHANGED <<gc, plan, writing>>
    BY <1>1 DEF Repository, ProblemSucceeds, ProblemLeaves, RootsChange, StaleTypes, Clock
  <2> QED
    BY <2>1 DEF StaleTypes
<1>2. ASSUME NEW p \in Plans, Propose(p) PROVE StaleTypes'
  BY <1>2, ProposeType DEF Propose, StaleTypes
<1>3. ASSUME NEW m \in Maintainers, NEW p \in Plans, ApplyLoad(m, p) PROVE StaleTypes'
  <2>1. plan[p] \in SeedPlans
    BY <1>3 DEF ApplyLoad, StaleTypes
  <2>2. [s \in Seeds |-> ApplyEntry(gc[s], plan[p][s])] \in RecordFiles
    BY <2>1, LoadType
  <2> QED
    BY <1>3, <2>2 DEF ApplyLoad, StaleTypes
<1>4. ASSUME NEW m \in Maintainers, ApplyStore(m) PROVE StaleTypes'
  BY <1>4 DEF ApplyStore, StaleTypes
<1>5. ASSUME NEW m \in Maintainers, ApplyEnds(m) PROVE StaleTypes'
  BY <1>5 DEF ApplyEnds, StaleTypes
<1>6. CASE UNCHANGED staleVars
  BY <1>6 DEF staleVars, StaleTypes
<1> QED
  BY <1>1, <1>2, <1>3, <1>4, <1>5, <1>6 DEF StaleNext

\* What is merged of late plans, in whatever order, stays well-formed.
THEOREM StaleFilesAreTyped == StaleSpec => []StaleTypes
<1> QED
  BY StaleStart, StaleTypesStep, PTL DEF StaleSpec

\* A plan made of an active seed in use does not move it down.
LEMMA UsedEntry ==
    ASSUME NEW r \in SeedRecord, NEW clk \in Nat, NEW v \in View,
           Used(v), r.state = "active"
    PROVE  Entry(r, clk, v).act \in {"activate", "meta"}
<1>1. /\ ~FirstStage(r, clk, v)
      /\ ~StaleActive(r, clk, v)
      /\ ~StaleQuarantined(r, clk, v)
  BY DEF FirstStage, StagedRevival, StaleActive, StaleQuarantined, Collectable
<1>2. Decide(r, clk, v) \in {"activate", "meta"}
  BY <1>1 DEF Decide
<1> QED
  BY <1>2 DEF Entry

\* Once a seed in use is active and no plan or apply under way moves it down,
\* nothing does until its use ends: for any maintainers, plans, clocks and
\* overlaps.
THEOREM RecoveredSeedsStay == StaleSpec => RecoveredStays
<1>1. ASSUME StaleTypes, [StaleNext]_staleVars, NEW s \in Seeds,
             NothingCollects(s), Used(view[s])
      PROVE  NothingCollects(s)'
  <2> USE DEF NothingCollects
  <2>1. CASE Repository
    BY <1>1, <2>1 DEF Repository, ProblemSucceeds, ProblemLeaves, RootsChange
  <2>2. ASSUME NEW p \in Plans, Propose(p) PROVE NothingCollects(s)'
    <3>1. gc[s] \in SeedRecord /\ view[s] \in View /\ Clk(s) \in Nat
      BY <1>1, StaleTypeOK, ClkType DEF StaleTypes, RecordFiles
    <3>2. Entry(gc[s], Clk(s), view[s]).act \in {"activate", "meta"}
      BY <1>1, <3>1, UsedEntry
    <3>3. /\ \A q \in Plans : plan'[q] # NoPlan => plan'[q][s].act \in {"activate", "meta"}
          /\ UNCHANGED <<gc, writing>>
      BY <1>1, <2>2, <3>2 DEF Propose, StaleTypes
    <3> QED
      BY <1>1, <3>3
  <2>3. ASSUME NEW m \in Maintainers, NEW p \in Plans, ApplyLoad(m, p)
        PROVE  NothingCollects(s)'
    <3>1. plan[p][s].act \in {"activate", "meta"} /\ gc[s].state = "active"
      BY <1>1, <2>3 DEF ApplyLoad
    <3>2. ApplyEntry(gc[s], plan[p][s]).state = "active"
      BY <3>1 DEF ApplyEntry, NewState
    <3>3. /\ \A k \in Maintainers : writing'[k] # Idle => writing'[k][s].state = "active"
          /\ UNCHANGED <<gc, plan>>
      BY <1>1, <2>3, <3>2 DEF ApplyLoad, StaleTypes
    <3> QED
      BY <1>1, <3>3
  <2>4. ASSUME NEW m \in Maintainers, ApplyStore(m) PROVE NothingCollects(s)'
    BY <1>1, <2>4 DEF ApplyStore, StaleTypes
  <2>5. ASSUME NEW m \in Maintainers, ApplyEnds(m) PROVE NothingCollects(s)'
    BY <1>1, <2>5 DEF ApplyEnds, StaleTypes
  <2>6. CASE UNCHANGED staleVars
    BY <1>1, <2>6 DEF staleVars
  <2> QED
    BY <1>1, <2>1, <2>2, <2>3, <2>4, <2>5, <2>6 DEF StaleNext
<1>2. StaleTypes /\ [StaleNext]_staleVars
        => [\A s \in Seeds :
              NothingCollects(s) /\ Used(view[s]) => NothingCollects(s)']_staleVars
  BY <1>1
<1> QED
  BY <1>2, StaleFilesAreTyped, PTL DEF StaleSpec, RecoveredStays

\* Two undisturbed rounds activate what is pinned or hit by two problems.
LEMMA TwoRoundsLift ==
    ASSUME NEW r \in SeedRecord, NEW clk \in Nat, NEW v \in View,
           v.pinned \/ IndependentHits(v.hits)
    PROVE  Round(Round(r, clk, v), clk, v).state = "active"
<1> DEFINE once == Round(r, clk, v)
<1>1. Used(v)
  BY DEF Used, IndependentHits
<1>2. once \in SeedRecord
  BY RoundType
<1> HIDE DEF once
<1>3. CASE r.state # "archived" \/ v.pinned
  <2>1. once.state = "active"
    BY <1>1, <1>3, UsedRound DEF once
  <2> QED
    BY <1>1, <1>2, <2>1, UsedRound DEF once
<1>4. CASE r.state = "archived" /\ ~v.pinned
  <2>1. WithinWindow(r, clk) => Confirms(r, clk, v)
    BY <1>1, <1>4 DEF Confirms, SecondStage, StagedRevival, IndependentHits
  <2>2. once.state \in {"active", "quarantined"}
    BY <1>1, <1>4, <2>1, UsedRound DEF once
  <2> QED
    BY <1>1, <1>2, <2>2, UsedRound DEF once
<1> QED
  BY <1>3, <1>4

\* Two undisturbed rounds repair what stale plans did to any seed, however many
\* there were and in whatever order.
THEOREM RoundsHeal == StaleSpec => []Heals
<1>1. TypeOK => Heals
  <2> SUFFICES ASSUME TypeOK, NEW s \in Seeds
               PROVE  LET twice == Round(AfterRound(s), Clk(s), view[s])
                      IN /\ view[s].pinned \/ IndependentHits(view[s].hits)
                               => twice.state = "active"
                         /\ Round(twice, Clk(s), view[s]).state = twice.state
    BY DEF Heals
  <2>1. gc[s] \in SeedRecord /\ Clk(s) \in Nat /\ view[s] \in View
    BY ClkType DEF TypeOK
  <2> QED
    BY <2>1, RoundsSettle, TwoRoundsLift DEF AfterRound
<1> QED
  BY <1>1, StaleFilesAreTyped, StaleTypeOK, PTL

=============================================================================
