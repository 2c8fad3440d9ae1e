------------------------- MODULE PromotionGateProofs -------------------------
(* Theorems of PromotionGate, for any libraries, plans, lists and bounds.    *)
EXTENDS PromotionGate, FiniteSetTheorems, WellFoundedInduction, TLAPS

-----------------------------------------------------------------------------
(* The candidates of a plan. *)

LEMMA LeastNatural ==
    ASSUME NEW S \in SUBSET Nat, S # {}
    PROVE  \E n \in S : \A m \in S : n <= m
<1>1. PICK n \in S : \A m \in S : ~ (<<m, n>> \in OpToRel(<, Nat))
  BY NatLessThanWellFounded, WFMin
<1>2. \A m \in S : m \in Nat /\ n \in Nat
  OBVIOUS
<1>3. \A m \in S : ~ (m < n)
  BY <1>1, <1>2 DEF OpToRel
<1> QED
  BY <1>2, <1>3

\* Of the places of a plan with some key there is a first one.
LEMMA FirstPlace ==
    ASSUME NEW S \in SUBSET (Nat \X Nat), S # {}
    PROVE  \E p \in S : \A q \in S : ~Before(q, p)
<1>1. PICK i \in {p[1] : p \in S} : \A k \in {p[1] : p \in S} : i <= k
  <2>1. {p[1] : p \in S} \in SUBSET Nat /\ {p[1] : p \in S} # {}
    OBVIOUS
  <2> QED
    BY <2>1, LeastNatural
<1> DEFINE T == {p \in S : p[1] = i}
<1>2. PICK j \in {p[2] : p \in T} : \A k \in {p[2] : p \in T} : j <= k
  <2>1. {p[2] : p \in T} \in SUBSET Nat /\ {p[2] : p \in T} # {}
    BY <1>1
  <2> QED
    BY <2>1, LeastNatural
<1>3. PICK p \in S : p[1] = i /\ p[2] = j
  BY <1>2
<1>4. ASSUME NEW q \in S, Before(q, p) PROVE FALSE
  <2>1. i <= q[1] /\ q[1] \in Nat /\ q[2] \in Nat /\ i \in Nat /\ j \in Nat
    BY <1>1, <1>3
  <2>2. q[1] = i => j <= q[2]
    BY <1>2
  <2> QED
    BY <1>3, <1>4, <2>1, <2>2 DEF Before
<1> QED
  BY <1>4

\* The three forms of an item: where its candidates are and how they are named.
LEMMA ItemForms ==
    ASSUME NEW item
    PROVE  /\ item.decls # <<>> =>
                /\ DOMAIN Candidates(item) = DOMAIN item.decls
                /\ \A j \in DOMAIN item.decls : Candidates(item)[j].name = item.decls[j].name
           /\ item.decls = <<>> /\ item.name # Absent =>
                DOMAIN Candidates(item) = {1} /\ Candidates(item)[1].name = item.name
           /\ item.decls = <<>> /\ ~ (item.name # Absent) =>
                /\ DOMAIN Candidates(item) = DOMAIN item.listed
                /\ \A j \in DOMAIN item.listed : Candidates(item)[j].name = item.listed[j]
<1> DEFINE Made(name, module, claim) ==
              [source |-> item.source, module |-> module, name |-> name, claim |-> claim]
<1>0. \A name, module, claim : Made(name, module, claim).name = name
  OBVIOUS
<1>1. CASE item.decls # <<>>
  <2> DEFINE claim(j) == [item.decls[j].claim EXCEPT !.migration = @ \/ item.claim.migration]
             module(j) == IF item.decls[j].module = Absent THEN item.module
                          ELSE item.decls[j].module
  <2>1. Candidates(item) =
          [j \in DOMAIN item.decls |-> Made(item.decls[j].name, module(j), claim(j))]
    BY <1>1, Zenon DEF Candidates
  <2> HIDE DEF claim, module, Made
  <2>2. DOMAIN Candidates(item) = DOMAIN item.decls
    BY <2>1
  <2>3. \A j \in DOMAIN item.decls : Candidates(item)[j].name = item.decls[j].name
    BY <1>0, <2>1
  <2> QED
    BY <1>1, <2>2, <2>3, Zenon
<1>2. CASE item.decls = <<>> /\ item.name # Absent
  <2>1. Candidates(item) = <<Made(item.name, item.module, item.claim)>>
    BY <1>2, Zenon DEF Candidates
  <2> HIDE DEF Made
  <2>2. DOMAIN Candidates(item) = {1}
    BY <2>1
  <2>3. Candidates(item)[1].name = item.name
    BY <1>0, <2>1
  <2> QED
    BY <1>2, <2>2, <2>3, Zenon
<1>3. CASE item.decls = <<>> /\ ~ (item.name # Absent)
  <2>1. Candidates(item) =
          [j \in DOMAIN item.listed |-> Made(item.listed[j], item.module, item.claim)]
    BY <1>3, Zenon DEF Candidates
  <2> HIDE DEF Made
  <2>2. DOMAIN Candidates(item) = DOMAIN item.listed
    BY <2>1
  <2>3. \A j \in DOMAIN item.listed : Candidates(item)[j].name = item.listed[j]
    BY <1>0, <2>1
  <2> QED
    BY <1>3, <2>2, <2>3, Zenon
<1> QED
  BY <1>1, <1>2, <1>3

\* Names that the items of a plan give are names of candidates.
LEMMA NamedAreCandidates ==
    ASSUME NEW p \in Plan, NEW i \in DOMAIN p.items, NEW x \in Named(p.items[i])
    PROVE  \E c \in PlanCandidates(p) : c.name = x /\ x # Blank
<1> DEFINE At(q) == Candidates(p.items[q[1]])[q[2]]
           places == CandidatePlaces(p)
<1>1. \A k \in DOMAIN p.items : p.items[k] \in Item
  BY DEF Plan
<1>2. PICK j \in DOMAIN Candidates(p.items[i]) : Candidates(p.items[i])[j].name = x
  <2> DEFINE item == p.items[i]
  <2>1. item \in Item
    BY <1>1
  <2> HIDE DEF item
  <2>2. CASE item.decls # <<>>
    <3>1. PICK k \in DOMAIN item.decls : item.decls[k].name = x
      BY <2>2 DEF Named, item
    <3>2. DOMAIN Candidates(item) = DOMAIN item.decls /\ Candidates(item)[k].name = x
      BY <2>2, <3>1, ItemForms
    <3> QED
      BY <3>1, <3>2 DEF item
  <2>3. CASE item.decls = <<>> /\ item.name # Absent
    <3>1. x = item.name
      BY <2>3 DEF Named, item
    <3>2. 1 \in DOMAIN Candidates(item) /\ Candidates(item)[1].name = x
      BY <2>3, <3>1, ItemForms
    <3> QED
      BY <3>2 DEF item
  <2>4. CASE item.decls = <<>> /\ item.name = Absent
    <3>1. PICK k \in DOMAIN item.listed : item.listed[k] = x
      BY <2>1, <2>4 DEF Named, ToSet, Item, item
    <3> QED
      BY <2>4, <3>1, ItemForms DEF item
  <2> QED
    BY <2>2, <2>3, <2>4
<1>3. places \in SUBSET (Nat \X Nat) /\ <<i, j>> \in places
  <2>1. DOMAIN p.items \subseteq Nat
    BY DEF Plan
  <2>2. ASSUME NEW item \in Item PROVE DOMAIN Candidates(item) \subseteq Nat
    <3>1. DOMAIN item.decls \subseteq Nat /\ DOMAIN item.listed \subseteq Nat
      BY <2>2 DEF Item
    <3>2. item.decls = <<>> /\ item.name # Absent => DOMAIN Candidates(item) = {1}
      BY ItemForms
    <3>3. item.decls # <<>> => DOMAIN Candidates(item) = DOMAIN item.decls
      BY ItemForms
    <3>4. item.decls = <<>> /\ ~ (item.name # Absent) =>
             DOMAIN Candidates(item) = DOMAIN item.listed
      BY ItemForms
    <3>5. DOMAIN Candidates(item) \in {{1}, DOMAIN item.decls, DOMAIN item.listed}
      BY <3>2, <3>3, <3>4, Zenon
    <3> QED
      BY <3>1, <3>5
  <2> QED
    BY <1>1, <2>1, <2>2 DEF CandidatePlaces
<1> DEFINE key(q) == <<At(q).source, At(q).module, At(q).name>>
           same == {q \in places : key(q) = key(<<i, j>>)}
<1>4. PICK q \in same : \A o \in same : ~Before(o, q)
  <2>1. same \in SUBSET (Nat \X Nat) /\ same # {}
    BY <1>3
  <2> HIDE DEF same
  <2> QED
    BY <2>1, FirstPlace
<1>5. \A o \in places : Before(o, q) => key(o) # key(q)
  BY <1>4
<1>6. At(q) \in PlanCandidates(p)
  BY <1>4, <1>5, Zenon DEF PlanCandidates
<1>7. At(q).name = x
  BY <1>2, <1>4
<1>8. x # Blank
  BY DEF Named
<1> QED
  BY <1>6, <1>7, <1>8

LEMMA UnreadableIsEmpty == PlanCandidates(Unreadable) = {}
<1>1. CandidatePlaces(Unreadable) = {}
  BY DEF CandidatePlaces, Unreadable
<1> QED
  BY <1>1 DEF PlanCandidates

\* No duplicates in the report of a library: what says the same is excused.
LEMMA NoDuplicatesMeans ==
    ASSUME NEW instances, IsFiniteSet(instances), Duplicates(instances, Allowed) = {},
           NEW d \in instances, NEW e \in instances, d # e, d.text = e.text
    PROVE  Excused(d)
<1>1. Decision(instances, Allowed, d) # "duplicate"
  BY DEF Duplicates
<1>2. Cardinality(Group(instances, d)) > 1
  <2>1. {d, e} \in SUBSET Group(instances, d)
    BY DEF Group
  <2>2. IsFiniteSet(Group(instances, d))
    BY FS_Subset DEF Group
  <2>3. Cardinality({d, e}) = 2
    <3>1. IsFiniteSet({d}) /\ Cardinality({d}) = 1
      BY FS_Singleton
    <3>2. Cardinality({d} \union {e}) = Cardinality({d}) + 1
      BY <3>1, FS_AddElement
    <3>3. {d, e} = {d} \union {e}
      OBVIOUS
    <3> QED
      BY <3>1, <3>2, <3>3
  <2>4. Cardinality({d, e}) <= Cardinality(Group(instances, d))
    BY <2>1, <2>2, FS_Subset
  <2>5. Cardinality(Group(instances, d)) \in Nat
    BY <2>2, FS_CardinalityType
  <2> QED
    BY <2>3, <2>4, <2>5
<1>3. ~ (Cardinality(Group(instances, d)) <= 1)
  <2>1. Cardinality(Group(instances, d)) \in Nat
    BY FS_Subset, FS_CardinalityType DEF Group
  <2> QED
    BY <1>2, <2>1
<1> QED
  BY <1>1, <1>2, <1>3 DEF Decision, Excused

-----------------------------------------------------------------------------
(* The invariant. *)

Labels == {"idle", "build", "candidates", "verify", "lint", "test", "pins", "decide", "done"}

Active == gate.pc \notin {"idle", "done"}

Shapes ==
    /\ tree = [at |-> tree.at, n |-> tree.n]
    /\ tree.at \in Trees /\ tree.n \in Nat
    /\ plan \in Plans /\ forcedNames \in ForcedLists
    /\ gate.pc \in Labels
    /\ gate = [pc |-> gate.pc, plan |-> gate.plan, cs |-> gate.cs, names |-> gate.names,
               forced |-> gate.forced, place |-> gate.place, of |-> gate.of,
               read |-> gate.read, passed |-> gate.passed]
    /\ gate.of \in Nat

\* A report is of a library not later than the present one, and if it is whole
\* and of the present one, it has its duplicates.
Faithful(r) ==
    /\ r.of \in 0..tree.n
    /\ r.state = "whole" /\ r.of = tree.n => r.duplicates = Duplicates(Scanned(tree.at.instances, r.modules), Allowed)

Reports ==
    /\ report = [p \in PlaceSet |-> report[p]]
    /\ \A p \in PlaceSet : Faithful(report[p])
    /\ Faithful(gate.read)
    /\ scan = [pc |-> scan.pc, place |-> scan.place, duplicates |-> scan.duplicates,
               of |-> scan.of, modules |-> scan.modules, runs |-> scan.runs]
    /\ scan.of \in 0..tree.n
    /\ scan.pc # "idle" => scan.place \in PlaceSet
    /\ scan.pc # "idle" /\ scan.of = tree.n =>
          scan.duplicates = Duplicates(Scanned(tree.at.instances, scan.modules), Allowed)

\* What the gate has in hand is the plan, and the library it began on.
InHand ==
    Active =>
        /\ gate.of <= tree.n
        /\ gate.cs = PlanCandidates(gate.plan)
        /\ gate.plan \in {plan, Unreadable}
        /\ gate.forced = forcedNames
        /\ gate.place \in PlaceSet \union {NoPlace}
        /\ gate.of = tree.n => gate.names = tree.at.names

\* A gate that has passed holds of what is in hand, and, on a library that has
\* not changed since, of the library.
PassedGates ==
    Active =>
        /\ "existence" \in gate.passed => ExistenceGate(gate.cs, gate.names)
        /\ "dedup" \in gate.passed => DedupGate(gate.cs, gate.read)
        /\ gate.pc \in {"build", "candidates"} =>
              gate.passed \intersect {"existence", "dedup", "verification", "pins"} = {}
        /\ gate.of = tree.n /\ gate.cs # {} =>
              /\ gate.pc \in {"lint", "test"} => tree.at.builds
              /\ gate.pc = "test" => tree.at.lints
              /\ "verification" \in gate.passed =>
                    tree.at.builds /\ tree.at.lints /\ tree.at.tests
              /\ "pins" \in gate.passed => tree.at.pins

Decided ==
    /\ PassedHolds
    /\ decision.of \in 0..tree.n /\ decision.report.of \in 0..tree.n

IInv == Shapes /\ Reports /\ InHand /\ PassedGates /\ Decided

LEMMA InitIInv == ASSUME Init PROVE IInv
<1>1. PICK t \in Trees : tree = [at |-> t, n |-> 0]
  BY DEF Init
<1>2. /\ gate.pc = "idle" /\ gate.of = 0 /\ gate.read = NoReport
      /\ gate = [pc |-> gate.pc, plan |-> gate.plan, cs |-> gate.cs, names |-> gate.names,
                 forced |-> gate.forced, place |-> gate.place, of |-> gate.of,
                 read |-> gate.read, passed |-> gate.passed]
  BY DEF Init, NoGate
<1>3. Shapes
  <2>1. plan \in Plans /\ forcedNames \in ForcedLists
    BY DEF Init
  <2>2. tree.at \in Trees /\ tree.n \in Nat /\ tree = [at |-> tree.at, n |-> tree.n]
    BY <1>1
  <2> QED
    BY <1>2, <2>1, <2>2 DEF Shapes, Labels
<1>4. Faithful(NoReport) /\ NoReport.of = 0
  BY <1>1 DEF Faithful, NoReport
<1>5. Reports
  <2>1. report = [p \in PlaceSet |-> report[p]] /\ \A p \in PlaceSet : report[p] = NoReport
    BY DEF Init
  <2>2. /\ scan = [pc |-> scan.pc, place |-> scan.place, duplicates |-> scan.duplicates,
                   of |-> scan.of, modules |-> scan.modules, runs |-> scan.runs]
        /\ scan.pc = "idle" /\ scan.of = 0
    BY DEF Init
  <2>3. tree.n = 0
    BY <1>1
  <2> QED
    BY <1>2, <1>4, <2>1, <2>2, <2>3 DEF Reports
<1>6. InHand /\ PassedGates
  BY <1>2 DEF InHand, PassedGates, Active
<1>7. decision.passed = FALSE /\ decision.of = 0 /\ decision.report = NoReport
  BY DEF Init, NotDecided
<1>8. Decided
  BY <1>1, <1>4, <1>7 DEF Decided, PassedHolds
<1> QED
  BY <1>3, <1>5, <1>6, <1>8 DEF IInv

\* A change of the library leaves everything behind it.
LEMMA EditKeepsIInv == ASSUME IInv, Edit PROVE IInv'
<1>1. /\ tree'.n = tree.n + 1 /\ tree' = [at |-> tree'.at, n |-> tree'.n] /\ tree'.at \in Trees
      /\ UNCHANGED <<plan, forcedNames, report, scan, gate, decision>>
      /\ tree.n \in Nat
  BY DEF Edit, IInv, Shapes
<1>2. Shapes'
  BY <1>1 DEF IInv, Shapes
<1>3. Reports'
  BY <1>1 DEF IInv, Reports, Faithful
<1>4. InHand' /\ PassedGates'
  BY <1>1 DEF IInv, Shapes, InHand, PassedGates, Active
<1>5. Decided'
  BY <1>1 DEF IInv, Decided, PassedHolds
<1> QED
  BY <1>2, <1>3, <1>4, <1>5 DEF IInv

\* The scan touches reports only, and writes what is so of the library it read.
ScanStep ==
    \/ \E p \in PlaceSet, scope \in Scopes : Scan(p, scope)
    \/ OpenReport \/ WriteReport \/ ScanKilled

LEMMA ScanKeepsIInv == ASSUME IInv, ScanStep PROVE IInv'
<1>1. UNCHANGED <<tree, plan, forcedNames, gate, decision>>
  BY DEF ScanStep, Scan, OpenReport, WriteReport, ScanKilled
<1>2. tree.n \in Nat
  BY DEF IInv, Shapes
<1>3. Reports'
  <2>1. Faithful(gate.read)'
    BY <1>1 DEF IInv, Reports, Faithful
  <2>2. ASSUME NEW p \in PlaceSet, NEW scope \in Scopes, Scan(p, scope) PROVE Reports'
    <3>1. UNCHANGED report
      BY <2>2 DEF Scan
    <3>2. /\ scan' = [pc |-> scan'.pc, place |-> scan'.place, duplicates |-> scan'.duplicates,
                      of |-> scan'.of, modules |-> scan'.modules, runs |-> scan'.runs]
          /\ scan'.of = tree.n
          /\ scan'.pc # "idle" => scan'.place = p
          /\ scan'.pc # "idle" =>
                scan'.duplicates = Duplicates(Scanned(tree.at.instances, scan'.modules), Allowed)
      BY <2>2 DEF Scan, IInv, Reports
    <3> QED
      BY <1>1, <1>2, <2>1, <3>1, <3>2 DEF IInv, Reports, Faithful
  <2>3. CASE OpenReport
    BY <1>1, <1>2, <2>1, <2>3 DEF OpenReport, IInv, Reports, Faithful, Torn, NoReport
  <2>4. CASE WriteReport
    <3> DEFINE new == [state |-> "whole", duplicates |-> scan.duplicates, of |-> scan.of,
                       modules |-> scan.modules]
    <3>1. /\ report' = [report EXCEPT ![scan.place] = new]
          /\ scan'.pc = "idle" /\ scan'.of = scan.of
          /\ scan' = [pc |-> scan'.pc, place |-> scan'.place, duplicates |-> scan'.duplicates,
                      of |-> scan'.of, modules |-> scan'.modules, runs |-> scan'.runs]
      BY <2>4 DEF WriteReport, ScanEnds, IInv, Reports
    <3>2. scan.pc # "idle"
      BY <2>4 DEF WriteReport
    <3>3. Faithful(new)
      BY <3>2 DEF IInv, Reports, Faithful
    <3> HIDE DEF new
    <3> QED
      BY <1>1, <1>2, <2>1, <3>1, <3>2, <3>3 DEF IInv, Reports, Faithful
  <2>5. CASE ScanKilled
    BY <1>1, <1>2, <2>1, <2>5 DEF ScanKilled, ScanEnds, IInv, Reports, Faithful
  <2> QED
    BY <2>2, <2>3, <2>4, <2>5 DEF ScanStep
<1>4. Shapes' /\ InHand' /\ PassedGates' /\ Decided'
  BY <1>1 DEF IInv, Shapes, InHand, PassedGates, Active, Decided, PassedHolds
<1> QED
  BY <1>3, <1>4 DEF IInv

\* The gate goes on, with what it has found of the library.
LEMMA GoOnKeepsIInv ==
    ASSUME IInv, NEW pc \in Labels \ {"idle", "done"}, NEW ok \in BOOLEAN,
           NEW gs \in SUBSET {"build", "verification", "pins"}, GoOn(pc, gs, ok), Active,
           pc \in {"build", "candidates"} => gate.pc = "build" /\ gs = {"build"},
           gate.of = tree.n /\ gate.cs # {} =>
              /\ pc \in {"lint", "test"} => tree.at.builds
              /\ pc = "test" => tree.at.lints
              /\ ok /\ "verification" \in gs => tree.at.builds /\ tree.at.lints /\ tree.at.tests
              /\ ok /\ "pins" \in gs => tree.at.pins
    PROVE  IInv'
<1>1. /\ UNCHANGED <<tree, plan, forcedNames, report, scan, decision>>
      /\ gate' = [gate EXCEPT !.pc = pc, !.passed = IF ok THEN @ \union gs ELSE @]
  BY DEF GoOn
<1>2. /\ gate'.pc = pc /\ gate'.plan = gate.plan /\ gate'.cs = gate.cs
      /\ gate'.names = gate.names /\ gate'.forced = gate.forced /\ gate'.of = gate.of
      /\ gate'.place = gate.place
      /\ gate'.read = gate.read
      /\ gate'.passed = IF ok THEN gate.passed \union gs ELSE gate.passed
      /\ gate' = [pc |-> gate'.pc, plan |-> gate'.plan, cs |-> gate'.cs, names |-> gate'.names,
                  forced |-> gate'.forced, place |-> gate'.place, of |-> gate'.of,
                  read |-> gate'.read, passed |-> gate'.passed]
  BY <1>1 DEF IInv, Shapes
<1>3. Shapes' /\ Reports'
  BY <1>1, <1>2 DEF IInv, Shapes, Reports, Faithful
<1>4. InHand'
  BY <1>1, <1>2 DEF IInv, InHand, Active
<1>5. PassedGates'
  <2> USE DEF IInv, PassedGates
  <2>1. /\ "existence" \in gate'.passed => ExistenceGate(gate'.cs, gate'.names)
        /\ "dedup" \in gate'.passed => DedupGate(gate'.cs, gate'.read)
    BY <1>2
  <2>2. gate'.pc \in {"build", "candidates"} =>
           gate'.passed \intersect {"existence", "dedup", "verification", "pins"} = {}
    BY <1>2
  <2>3. gate'.of = tree'.n /\ gate'.cs # {} =>
           /\ gate'.pc \in {"lint", "test"} => tree'.at.builds
           /\ gate'.pc = "test" => tree'.at.lints
           /\ "verification" \in gate'.passed =>
                 tree'.at.builds /\ tree'.at.lints /\ tree'.at.tests
           /\ "pins" \in gate'.passed => tree'.at.pins
    BY <1>1, <1>2
  <2> QED
    BY <2>1, <2>2, <2>3
<1>6. Decided'
  BY <1>1 DEF IInv, Decided, PassedHolds
<1> QED
  BY <1>3, <1>4, <1>5, <1>6 DEF IInv

\* The gate is over, or killed: nothing is in hand.
LEMMA NoGateIsSound ==
    ASSUME IInv, NEW pc \in {"idle", "done"}, gate' = NoGate(pc),
           UNCHANGED <<tree, plan, forcedNames, report, scan>>
    PROVE  Shapes' /\ Reports' /\ InHand' /\ PassedGates'
<1>1. /\ gate'.pc = pc /\ gate'.of = 0 /\ gate'.read = NoReport
      /\ gate' = [pc |-> gate'.pc, plan |-> gate'.plan, cs |-> gate'.cs, names |-> gate'.names,
                  forced |-> gate'.forced, place |-> gate'.place, of |-> gate'.of,
                  read |-> gate'.read, passed |-> gate'.passed]
  BY DEF NoGate
<1>2. NoReport.of = 0 /\ NoReport.state = "none"
  BY DEF NoReport
<1>3. Shapes' /\ InHand' /\ PassedGates'
  BY <1>1 DEF IInv, Shapes, Labels, InHand, PassedGates, Active
<1>4. Reports'
  BY <1>1, <1>2 DEF IInv, Shapes, Reports, Faithful
<1> QED
  BY <1>3, <1>4

\* The place the gate finds is one of the places of reports, or none.
LEMMA PlaceFound ==
    ASSUME NEW explicit \in PlaceSet \union {NoPlace}
    PROVE  FoundPlace(explicit) \in PlaceSet \union {NoPlace}
<1> DEFINE there == {i \in DOMAIN Places : report[Places[i]].state # "none"}
<1>1. there # {} => (CHOOSE i \in there : \A j \in there : i <= j) \in there
  <2> SUFFICES ASSUME there # {}
               PROVE  \E i \in there : \A j \in there : i <= j
    OBVIOUS
  <2>1. there \in SUBSET Nat
    BY PlacesAssumption
  <2> HIDE DEF there
  <2> QED
    BY <2>1, LeastNatural
<1> QED
  BY <1>1 DEF FoundPlace, PlaceSet

LEMMA LoadKeepsIInv ==
    ASSUME IInv, NEW mode, NEW explicit \in PlaceSet \union {NoPlace}, NEW cannotRead \in BOOLEAN,
           Load(mode, explicit, cannotRead)
    PROVE  IInv'
<1> DEFINE p == IF cannotRead THEN Unreadable ELSE plan
<1>1. /\ UNCHANGED <<tree, plan, forcedNames, report, scan, decision>>
      /\ gate'.pc = "build" /\ gate'.plan = p /\ gate'.cs = PlanCandidates(p)
      /\ gate'.names = tree.at.names /\ gate'.forced = forcedNames /\ gate'.of = tree.n
      /\ gate'.place = FoundPlace(explicit)
      /\ gate'.read = NoReport /\ gate'.passed \in {{"mode"}, {}}
      /\ gate' = [pc |-> gate'.pc, plan |-> gate'.plan, cs |-> gate'.cs, names |-> gate'.names,
                  forced |-> gate'.forced, place |-> gate'.place, of |-> gate'.of,
                  read |-> gate'.read, passed |-> gate'.passed]
  BY DEF Load
<1>2. NoReport.of = 0 /\ NoReport.state = "none"
  BY DEF NoReport
<1> HIDE DEF p
<1>3. p \in {plan, Unreadable}
  BY DEF p
<1>4. Shapes'
  BY <1>1 DEF IInv, Shapes, Labels
<1>5. Reports'
  BY <1>1, <1>2 DEF IInv, Shapes, Reports, Faithful
<1>6. InHand'
  BY <1>1, <1>3, PlaceFound DEF IInv, Shapes, InHand, Active
<1>7. PassedGates'
  BY <1>1 DEF PassedGates, Active
<1>8. Decided'
  BY <1>1 DEF IInv, Decided, PassedHolds
<1> QED
  BY <1>4, <1>5, <1>6, <1>7, <1>8 DEF IInv

LEMMA OnCandidatesKeepsIInv == ASSUME IInv, OnCandidates PROVE IInv'
<1> DEFINE r == IF gate.place = NoPlace THEN NoReport ELSE report[gate.place]
           outcome == [existence |-> ExistenceGate(gate.cs, gate.names),
                       dedup |-> DedupGate(gate.cs, r),
                       reuse |-> ReuseGate(gate.plan, gate.cs, gate.forced),
                       migration |-> MigrationGate(gate.cs)]
<1>1. /\ UNCHANGED <<tree, plan, forcedNames, report, scan, decision>>
      /\ gate.pc = "candidates"
      /\ gate' = [gate EXCEPT !.pc = "verify", !.read = r,
                              !.passed = @ \union {g \in DOMAIN outcome : outcome[g]}]
  BY DEF OnCandidates
<1>2. /\ "existence" \in {g \in DOMAIN outcome : outcome[g]} => ExistenceGate(gate.cs, gate.names)
      /\ "dedup" \in {g \in DOMAIN outcome : outcome[g]} => DedupGate(gate.cs, r)
      /\ {g \in DOMAIN outcome : outcome[g]} \subseteq {"existence", "dedup", "reuse", "migration"}
  OBVIOUS
<1> DEFINE gs == {g \in DOMAIN outcome : outcome[g]}
<1>3. gs \subseteq {"existence", "dedup", "reuse", "migration"}
  BY <1>2
<1>4. /\ gate'.pc = "verify" /\ gate'.plan = gate.plan /\ gate'.cs = gate.cs
      /\ gate'.names = gate.names /\ gate'.forced = gate.forced /\ gate'.of = gate.of
      /\ gate'.place = gate.place
      /\ gate'.read = r /\ gate'.passed = gate.passed \union gs
      /\ gate' = [pc |-> gate'.pc, plan |-> gate'.plan, cs |-> gate'.cs, names |-> gate'.names,
                  forced |-> gate'.forced, place |-> gate'.place, of |-> gate'.of,
                  read |-> gate'.read, passed |-> gate'.passed]
  <2> HIDE DEF outcome, r
  <2> QED
    BY <1>1 DEF IInv, Shapes
<1> HIDE DEF gs
<1>5. gate.passed \intersect {"existence", "dedup", "verification", "pins"} = {}
  BY <1>1 DEF IInv, PassedGates, Active
<1>6. Faithful(r)
  <2>1. Faithful(NoReport)
    BY DEF Faithful, NoReport, IInv, Shapes
  <2> QED
    BY <2>1, <1>1 DEF IInv, Reports, InHand, Active
<1> HIDE DEF r, outcome
<1>7. Shapes' /\ Reports' /\ InHand'
  BY <1>1, <1>4, <1>6 DEF IInv, Shapes, Labels, Reports, Faithful, InHand, Active
<1>8. PassedGates'
  <2>1. "existence" \in gate'.passed => ExistenceGate(gate'.cs, gate'.names)
    BY <1>2, <1>4, <1>5 DEF gs
  <2>2. "dedup" \in gate'.passed => DedupGate(gate'.cs, gate'.read)
    BY <1>2, <1>4, <1>5 DEF gs
  <2>4. "verification" \notin gate'.passed /\ "pins" \notin gate'.passed
    BY <1>3, <1>4, <1>5
  <2> QED
    BY <1>4, <2>1, <2>2, <2>4 DEF PassedGates
<1>9. Decided'
  BY <1>1 DEF IInv, Decided, PassedHolds
<1> QED
  BY <1>7, <1>8, <1>9 DEF IInv

\* What the decision stands for.
LEMMA DecideKeepsIInv == ASSUME IInv, Decide PROVE IInv'
<1>1. /\ UNCHANGED <<tree, plan, forcedNames, report, scan>>
      /\ gate' = NoGate("done") /\ gate.pc = "decide"
      /\ decision'.passed = (HardGates \subseteq gate.passed)
      /\ decision'.cs = gate.cs /\ decision'.of = gate.of /\ decision'.report = gate.read
  BY DEF Decide
<1>2. Shapes' /\ Reports' /\ InHand' /\ PassedGates'
  BY <1>1, NoGateIsSound
<1>3. /\ gate.of \in 0..tree.n /\ gate.cs = PlanCandidates(gate.plan)
      /\ gate.plan \in {plan, Unreadable} /\ gate.forced = forcedNames
      /\ gate.of = tree.n => gate.names = tree.at.names
  BY <1>1 DEF IInv, Shapes, InHand, Active
<1>4. Faithful(gate.read) /\ tree.at \in Trees /\ plan \in Plan
  BY PlansAssumption DEF IInv, Reports, Shapes
<1>5. ASSUME decision'.passed, gate.cs # {}
      PROVE  /\ ExistenceGate(gate.cs, gate.names)
             /\ gate.read.state = "whole" /\ gate.read.duplicates = {}
             /\ gate.of = tree.n =>
                   tree.at.builds /\ tree.at.lints /\ tree.at.tests /\ tree.at.pins
             /\ gate.plan = plan
  <2>1. {"existence", "dedup", "verification", "pins"} \subseteq gate.passed
    BY <1>1, <1>5 DEF HardGates
  <2>2. gate.plan = plan
    BY <1>3, <1>5, UnreadableIsEmpty
  <2>3. DedupGate(gate.cs, gate.read)
    BY <1>1, <2>1 DEF IInv, PassedGates, Active
  <2> QED
    BY <1>1, <1>5, <2>1, <2>2, <2>3 DEF IInv, PassedGates, Active, DedupGate
<1>6. PassedHolds'
  <2> SUFFICES ASSUME decision'.passed, gate.cs # {}, gate.of = tree.n, gate.read.of = tree.n
               PROVE  LET t == tree.at IN
                      /\ \A i \in DOMAIN plan.items : Named(plan.items[i]) \subseteq t.names
                      /\ t.builds /\ t.lints /\ t.tests /\ t.pins
                      /\ \A d, e \in Scanned(t.instances, gate.read.modules) :
                            d # e /\ d.text = e.text => Excused(d) /\ Excused(e)
    BY <1>1 DEF PassedHolds
  <2>1. \A i \in DOMAIN plan.items : Named(plan.items[i]) \subseteq tree.at.names
    <3> SUFFICES ASSUME NEW i \in DOMAIN plan.items, NEW x \in Named(plan.items[i])
                 PROVE  x \in tree.at.names
      OBVIOUS
    <3>1. PICK c \in PlanCandidates(plan) : c.name = x /\ x # Blank
      BY <1>4, NamedAreCandidates
    <3> QED
      BY <1>3, <1>5, <3>1 DEF ExistenceGate
  <2> DEFINE seen == Scanned(tree.at.instances, gate.read.modules)
  <2>2. Duplicates(seen, Allowed) = {}
    BY <1>4, <1>5 DEF Faithful
  <2>3. IsFiniteSet(seen)
    BY <1>4, TreesAssumption, FS_Subset DEF Scanned
  <2> HIDE DEF seen
  <2>4. \A d, e \in seen : d # e /\ d.text = e.text => Excused(d)
    BY <2>2, <2>3, NoDuplicatesMeans
  <2> QED
    BY <1>5, <2>1, <2>4 DEF seen
<1>7. decision'.of \in 0..tree'.n /\ decision'.report.of \in 0..tree'.n
  BY <1>1, <1>3, <1>4 DEF Faithful
<1> QED
  BY <1>2, <1>6, <1>7 DEF IInv, Decided

\* The steps of the gate, each with what its outcome says of the library.
LEMMA GateKeepsIInv == ASSUME IInv, GateStep PROVE IInv'
<1>2. ASSUME NEW inTime \in BOOLEAN, BuildSnapshot(inTime) PROVE IInv'
  <2> DEFINE ok == gate.cs = {} \/ (tree.at.builds /\ inTime)
  <2>1. gate.pc = "build" /\ GoOn("candidates", {"build"}, ok) /\ ok \in BOOLEAN
    BY <1>2 DEF BuildSnapshot
  <2> HIDE DEF ok
  <2> QED
    BY <2>1, GoOnKeepsIInv DEF Active, Labels
<1>3. ASSUME NEW inTime \in BOOLEAN, VerifyBuild(inTime) PROVE IInv'
  <2>1. gate.pc = "verify"
    BY <1>3 DEF VerifyBuild
  <2>2. CASE gate.cs = {}
    BY <1>3, <2>1, <2>2, GoOnKeepsIInv DEF VerifyBuild, Active, Labels
  <2>3. CASE gate.cs # {}
    <3> DEFINE pc == IF tree.at.builds /\ inTime THEN "lint" ELSE "pins"
    <3>1. GoOn(pc, {}, TRUE) /\ pc \in Labels \ {"idle", "done"} /\ (pc = "lint" => tree.at.builds)
          /\ pc \in {"lint", "pins"}
      BY <1>3, <2>3 DEF VerifyBuild, Labels
    <3> HIDE DEF pc
    <3> QED
      BY <2>1, <3>1, GoOnKeepsIInv DEF Active
  <2> QED
    BY <2>2, <2>3
<1>4. ASSUME NEW inTime \in BOOLEAN, VerifyLint(inTime) PROVE IInv'
  <2> DEFINE pc == IF tree.at.lints /\ inTime THEN "test" ELSE "pins"
  <2>1. /\ gate.pc = "lint" /\ GoOn(pc, {}, TRUE) /\ pc \in Labels \ {"idle", "done"}
        /\ (pc = "test" => tree.at.lints) /\ pc \in {"test", "pins"}
    BY <1>4 DEF VerifyLint, Labels
  <2>2. gate.of = tree.n /\ gate.cs # {} => tree.at.builds
    BY <2>1 DEF IInv, PassedGates, Active
  <2> HIDE DEF pc
  <2> QED
    BY <2>1, <2>2, GoOnKeepsIInv DEF Active
<1>5. ASSUME NEW inTime \in BOOLEAN, VerifyTest(inTime) PROVE IInv'
  <2> DEFINE ok == tree.at.tests /\ inTime
  <2>1. gate.pc = "test" /\ GoOn("pins", {"verification"}, ok) /\ ok \in BOOLEAN
        /\ (ok => tree.at.tests)
    BY <1>5 DEF VerifyTest
  <2>2. gate.of = tree.n /\ gate.cs # {} => tree.at.builds /\ tree.at.lints
    BY <2>1 DEF IInv, PassedGates, Active
  <2> HIDE DEF ok
  <2> QED
    BY <2>1, <2>2, GoOnKeepsIInv DEF Active, Labels
<1>6. CASE DependencyPins
  <2>1. gate.pc = "pins" /\ GoOn("decide", {"pins"}, tree.at.pins)
    BY <1>6 DEF DependencyPins
  <2>2. tree.at.pins \in BOOLEAN
    BY TreesAssumption DEF IInv, Shapes
  <2> QED
    BY <2>1, <2>2, GoOnKeepsIInv DEF Active, Labels
<1> QED
  BY <1>2, <1>3, <1>4, <1>5, <1>6, OnCandidatesKeepsIInv, DecideKeepsIInv DEF GateStep

LEMMA NextIInv == ASSUME IInv, [Next]_vars PROVE IInv'
<1>1. CASE UNCHANGED vars
  BY <1>1 DEF vars, IInv, Shapes, Reports, Faithful, InHand, PassedGates, Active, Decided,
              PassedHolds
<1>2. ASSUME NEW mode, NEW p \in PlaceSet \union {NoPlace}, NEW cannot \in BOOLEAN,
             Load(mode, p, cannot)
      PROVE  IInv'
  BY <1>2, LoadKeepsIInv
<1>3. CASE GateKilled
  <2>1. gate' = NoGate("idle") /\ UNCHANGED <<tree, plan, forcedNames, report, scan, decision>>
    BY <1>3 DEF GateKilled
  <2>2. Decided'
    BY <2>1 DEF IInv, Decided, PassedHolds
  <2> QED
    BY <2>1, <2>2, NoGateIsSound DEF IInv
<1> QED
  BY <1>1, <1>2, <1>3, EditKeepsIInv, ScanKeepsIInv, GateKeepsIInv DEF Next, ScanStep

LEMMA GateInvariant == Spec => []IInv
BY InitIInv, NextIInv, PTL DEF Spec

-----------------------------------------------------------------------------

\* A promotion decided on a library that did not change since the scan holds of
\* that library, whatever was scanned, edited, killed and torn before.
THEOREM PassedAlwaysHolds == Spec => []PassedHolds
<1>1. IInv => PassedHolds
  BY DEF IInv, Decided
<1> QED
  BY <1>1, GateInvariant, PTL
=============================================================================
