--------------------------- MODULE PromotionGate ----------------------------
(***************************************************************************)
(* The promotion gate (tools/promote/promote.py) and the dedup scan        *)
(* (tools/dedup/dedup.py), run by a maintainer on a library that changes   *)
(* under them.  The gate reads the plan, the declarations and the place of *)
(* the dedup report first, runs lake build, then reads the report, and     *)
(* runs build, lint and test once more: each at its own moment.            *)
(***************************************************************************)
EXTENDS PromotionPlan

CONSTANTS
    Trees,       \* states of the library: names, instances, builds, lints, tests, pins, and
                 \* unread: modules whose file cannot be decoded
    Modules,     \* of the library
    Scopes,      \* the modules that a --scope of the scan selects
    Plans,       \* plans a maintainer writes
    ForcedLists, \* contents of tools/index/force_deposit.json
    Allowed,     \* tools/dedup/allowlist.json
    Places,      \* places of a dedup report, in the order the gate tries them
    MaxEdits,    \* bound: changes of the library
    MaxScans,    \* bound: runs of the dedup scan
    Operator     \* "diligent": scans everything into the first place, after every
                 \* change of the library and before the gate; "any": when and where they like

ASSUME BoundsAssumption == MaxEdits \in Nat /\ MaxScans \in Nat
ASSUME PlacesAssumption == Places \in Seq(STRING)
ASSUME PlansAssumption == Plans \subseteq Plan
ASSUME TreesAssumption ==
    \A t \in Trees :
        /\ t.names \subseteq Names /\ IsFiniteSet(t.instances) /\ t.unread \subseteq Modules
        /\ {t.builds, t.lints, t.tests, t.pins} \subseteq BOOLEAN
ASSUME ScopesAssumption == Modules \in Scopes /\ Scopes \subseteq SUBSET Modules
ASSUME OperatorAssumption == Operator \in {"diligent", "any"}

VARIABLES
    tree,        \* the library, with the number of its changes
    plan,        \* PromotionPlan.json
    forcedNames, \* tools/index/force_deposit.json
    report,      \* DedupReport.json at each place
    scan,        \* the process of the dedup scan
    gate,        \* the process of the promotion gate
    decision     \* PromotionReport.json

vars == <<tree, plan, forcedNames, report, scan, gate, decision>>

PlaceSet == {Places[i] : i \in DOMAIN Places}
NoPlace == ""

\* Of a report: whether it is there, the duplicates it has, and (history) the
\* change of the library and the modules it is of.  It does not say which: its
\* meta.scope is always LeanAtlas/**/*.lean.
NoReport == [state |-> "none", duplicates |-> {}, of |-> 0, modules |-> {}]
Torn == [NoReport EXCEPT !.state = "torn"]

\* of, until: (history) the change of the library when the gate began and decided.
NotDecided == [passed |-> FALSE, cs |-> {}, of |-> 0, until |-> 0, report |-> NoReport]

NoGate(pc) == [pc |-> pc, plan |-> Unreadable, cs |-> {}, names |-> {}, forced |-> {},
               place |-> NoPlace, of |-> 0, read |-> NoReport, passed |-> {}]

HardGates == {"mode", "build", "existence", "dedup", "reuse", "migration",
              "verification", "pins"}

Init ==
    /\ \E t \in Trees : tree = [at |-> t, n |-> 0]
    /\ plan \in Plans
    /\ forcedNames \in ForcedLists
    /\ report = [p \in PlaceSet |-> NoReport]
    /\ scan = [pc |-> "idle", place |-> NoPlace, duplicates |-> {}, of |-> 0, modules |-> {},
               runs |-> 0]
    /\ gate = NoGate("idle")
    /\ decision = NotDecided

-----------------------------------------------------------------------------
(* The library and the dedup scan *)

Edit ==
    /\ tree.n < MaxEdits
    /\ Operator = "diligent" => scan.pc = "idle" /\ gate.pc = "idle" /\ scan.of = tree.n
    /\ \E t \in Trees : tree' = [at |-> t, n |-> tree.n + 1]
    /\ UNCHANGED <<plan, forcedNames, report, scan, gate, decision>>

\* make_report of the modules in the scope; files that cannot be decoded are
\* passed over.  One head without a text raises, and there is nothing to write.
Scan(place, scope) ==
    /\ scan.pc = "idle" /\ scan.runs < MaxScans
    /\ Operator = "diligent" => place = Places[1] /\ scope = Modules /\ gate.pc = "idle"
    /\ LET modules == scope \ tree.at.unread
           seen == Scanned(tree.at.instances, modules)
           begun == [scan EXCEPT !.of = tree.n, !.modules = modules, !.runs = @ + 1]
       IN scan' = IF ScanFails(seen) THEN begun
                  ELSE [begun EXCEPT !.pc = "open", !.place = place,
                                     !.duplicates = Duplicates(seen, Allowed)]
    /\ UNCHANGED <<tree, plan, forcedNames, report, gate, decision>>

ScanEnds == [scan EXCEPT !.pc = "idle", !.place = NoPlace, !.duplicates = {}]

\* write_text opens the file, which empties it, and then writes.
OpenReport ==
    /\ scan.pc = "open"
    /\ report' = [report EXCEPT ![scan.place] = Torn]
    /\ scan' = [scan EXCEPT !.pc = "write"]
    /\ UNCHANGED <<tree, plan, forcedNames, gate, decision>>

WriteReport ==
    /\ scan.pc = "write"
    /\ report' = [report EXCEPT ![scan.place] =
                    [state |-> "whole", duplicates |-> scan.duplicates, of |-> scan.of,
                     modules |-> scan.modules]]
    /\ scan' = ScanEnds
    /\ UNCHANGED <<tree, plan, forcedNames, gate, decision>>

ScanKilled ==
    /\ Operator = "any"
    /\ scan.pc # "idle"
    /\ scan' = ScanEnds
    /\ UNCHANGED <<tree, plan, forcedNames, report, gate, decision>>

-----------------------------------------------------------------------------
(* The gate *)

\* _find_dedup_report: the one named on the command line, or else the first one there is.
FoundPlace(explicit) ==
    IF explicit # NoPlace /\ report[explicit].state # "none" THEN explicit
    ELSE LET there == {i \in DOMAIN Places : report[Places[i]].state # "none"}
         IN IF there = {} THEN NoPlace ELSE Places[CHOOSE i \in there : \A j \in there : i <= j]

\* The command is started: the plan, the declarations, the forced names and the
\* place of the report are read before the first gate.
Load(mode, explicit, cannotRead) ==
    /\ gate.pc = "idle"
    /\ Operator = "diligent" =>
          /\ mode = "MAINTAINER" /\ ~cannotRead /\ explicit = NoPlace
          /\ scan.pc = "idle" /\ scan.runs > 0 /\ scan.of = tree.n
    /\ LET p == IF cannotRead THEN Unreadable ELSE plan
       IN gate' = [pc |-> "build", plan |-> p, cs |-> PlanCandidates(p), names |-> tree.at.names,
                   forced |-> forcedNames, place |-> FoundPlace(explicit), of |-> tree.n,
                   read |-> NoReport, passed |-> IF mode = "MAINTAINER" THEN {"mode"} ELSE {}]
    /\ UNCHANGED <<tree, plan, forcedNames, report, scan, decision>>

\* The gate moves on to pc, with the gates gs if ok.
GoOn(pc, gs, ok) ==
    /\ gate' = [gate EXCEPT !.pc = pc, !.passed = IF ok THEN @ \union gs ELSE @]
    /\ UNCHANGED <<tree, plan, forcedNames, report, scan, decision>>

\* A command of lake succeeds if the library lets it, and in time (1200 s).
BuildSnapshot(inTime) ==
    /\ gate.pc = "build"
    /\ GoOn("candidates", {"build"}, gate.cs = {} \/ (tree.at.builds /\ inTime))

DedupGate(cs, r) == cs # {} => r.state = "whole" /\ r.duplicates = {}

\* Existence, reuse and migration need only what Load has read; between them the
\* dedup report is read, at the place that Load has found.
OnCandidates ==
    /\ gate.pc = "candidates"
    /\ LET r == IF gate.place = NoPlace THEN NoReport ELSE report[gate.place]
           outcome == [existence |-> ExistenceGate(gate.cs, gate.names),
                       dedup |-> DedupGate(gate.cs, r),
                       reuse |-> ReuseGate(gate.plan, gate.cs, gate.forced),
                       migration |-> MigrationGate(gate.cs)]
       IN gate' = [gate EXCEPT !.pc = "verify", !.read = r,
                               !.passed = @ \union {g \in DOMAIN outcome : outcome[g]}]
    /\ UNCHANGED <<tree, plan, forcedNames, report, scan, decision>>

\* lake build, lake lint, lake test: the first that fails is the last.
VerifyBuild(inTime) ==
    /\ gate.pc = "verify"
    /\ IF gate.cs = {} THEN GoOn("pins", {"verification"}, TRUE)
       ELSE GoOn(IF tree.at.builds /\ inTime THEN "lint" ELSE "pins", {}, TRUE)

VerifyLint(inTime) ==
    /\ gate.pc = "lint"
    /\ GoOn(IF tree.at.lints /\ inTime THEN "test" ELSE "pins", {}, TRUE)

VerifyTest(inTime) ==
    /\ gate.pc = "test"
    /\ GoOn("pins", {"verification"}, tree.at.tests /\ inTime)

\* lakefile, manifest and toolchain are there.  The four audits around the gates
\* only run `lean --version`, and are not hard gates.
DependencyPins ==
    /\ gate.pc = "pins"
    /\ GoOn("decide", {"pins"}, tree.at.pins)

Decide ==
    /\ gate.pc = "decide"
    /\ decision' = [passed |-> HardGates \subseteq gate.passed, cs |-> gate.cs,
                    of |-> gate.of, until |-> tree.n, report |-> gate.read]
    /\ gate' = NoGate("done")
    /\ UNCHANGED <<tree, plan, forcedNames, report, scan>>

\* The gate is killed (bound: once it has decided it is not run again): its report
\* is written after the decision, so there is none.
GateKilled ==
    /\ Operator = "any"
    /\ gate.pc \notin {"idle", "done"}
    /\ gate' = NoGate("idle")
    /\ UNCHANGED <<tree, plan, forcedNames, report, scan, decision>>

GateStep ==
    \/ \E inTime \in BOOLEAN :
          BuildSnapshot(inTime) \/ VerifyBuild(inTime) \/ VerifyLint(inTime) \/ VerifyTest(inTime)
    \/ OnCandidates \/ DependencyPins \/ Decide

Next ==
    \/ Edit
    \/ \E p \in PlaceSet, scope \in Scopes : Scan(p, scope)
    \/ OpenReport \/ WriteReport \/ ScanKilled
    \/ \E mode \in {"MAINTAINER", "OPERATOR"}, p \in PlaceSet \union {NoPlace}, cannot \in BOOLEAN :
          Load(mode, p, cannot)
    \/ GateStep \/ GateKilled

Spec == Init /\ [][Next]_vars

-----------------------------------------------------------------------------

\* The declarations that an item of a plan names.
Named(item) ==
    LET listed == IF item.name # Absent THEN {item.name} ELSE ToSet(item.listed)
        named == IF item.decls # <<>> THEN {item.decls[j].name : j \in DOMAIN item.decls}
                 ELSE listed
    IN named \ {Blank}

Excused(d) == d.alias \/ Allowed \intersect {d.name, d.module, d.text} # {}

\* What "passed" stands for, if the library did not change from the scan to the
\* decision, whatever was killed, scanned and edited before: every declaration
\* of the plan is there, the library builds, lints, passes its tests and has its
\* pins, and no two instances of the modules that were scanned, of a text the
\* scan can compare, say the same unexcused.
PassedHolds ==
    decision.passed /\ decision.cs # {} /\ decision.of = tree.n /\ decision.report.of = tree.n =>
        LET t == tree.at IN
        /\ \A i \in DOMAIN plan.items : Named(plan.items[i]) \subseteq t.names
        /\ t.builds /\ t.lints /\ t.tests /\ t.pins
        /\ \A d, e \in Scanned(t.instances, decision.report.modules) :
               d # e /\ d.text = e.text => Excused(d) /\ Excused(e)

\* "inject two instances with same key => ... gate FAIL": a library with two
\* instances of one type, none excused, is not promoted from by a maintainer
\* who scans after every change.
NoDuplicatePromoted ==
    decision.passed /\ decision.cs # {} =>
        ~ \E d, e \in tree.at.instances : d # e /\ d.type = e.type /\ ~Excused(d) /\ ~Excused(e)

=============================================================================
