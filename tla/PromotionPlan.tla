--------------------------- MODULE PromotionPlan ----------------------------
(***************************************************************************)
(* Reading a PromotionPlan and a library: the candidates of a plan and the *)
(* gates that only look at them (tools/promote/promote.py), and the scan   *)
(* for duplicate instances with its report (tools/dedup/dedup.py).  No     *)
(* variables: PromotionGate has the tools that run on a changing library.  *)
(***************************************************************************)
EXTENDS Integers, Sequences, FiniteSets, SequencesExt

CONSTANTS
    Names,       \* declaration names, as the source scan finds them: unqualified
    Problems

\* What a plan says of a candidate.  justified, forced: its intent; migration:
\* strategy, notes or since is given.
Claim == [problems : SUBSET Problems, justified : BOOLEAN, forced : BOOLEAN,
          migration : BOOLEAN]

Item == [source : STRING, module : STRING,
         decls : Seq([name : STRING, module : STRING, claim : Claim]), name : STRING,
         listed : Seq(STRING), claim : Claim]

\* A name or a module that is not given, and a name that is there but blank.
Absent == "(none)"
Blank == ""

\* min, exceptions, force: the thresholds of the plan's policy.
Plan == [items : Seq(Item), min : Nat, exceptions : BOOLEAN, force : BOOLEAN]

-----------------------------------------------------------------------------
(* Candidates *)

\* An item of the plan has a list of declarations, a name, or a bare list of
\* names in its evidence.  Declarations carry claims of their own; of the item
\* they only take the migration and, if they have none, the module.  (Names that
\* differ in the blanks around them only are not told apart.)
Candidates(item) ==
    LET Named(name, module, claim) ==
            [source |-> item.source, module |-> module, name |-> name, claim |-> claim]
    IN CASE item.decls # <<>> ->
              [j \in DOMAIN item.decls |->
                 LET d == item.decls[j]
                 IN Named(d.name, IF d.module = Absent THEN item.module ELSE d.module,
                          [d.claim EXCEPT !.migration = @ \/ item.claim.migration])]
         [] item.decls = <<>> /\ item.name # Absent ->
              <<Named(item.name, item.module, item.claim)>>
         [] OTHER ->
              [j \in DOMAIN item.listed |-> Named(item.listed[j], item.module, item.claim)]

\* A plan that cannot be read is taken for one without items.
Unreadable == [items |-> <<>>, min |-> 3, exceptions |-> TRUE, force |-> TRUE]

\* The places of candidates, by item and in the item, in the order of the plan.
CandidatePlaces(plan) ==
    UNION {{<<i, j>> : j \in DOMAIN Candidates(plan.items[i])} : i \in DOMAIN plan.items}

Before(p, q) == p[1] < q[1] \/ (p[1] = q[1] /\ p[2] < q[2])

\* Of candidates with the same source, module and name, the first one counts.
PlanCandidates(plan) ==
    LET At(p) == Candidates(plan.items[p[1]])[p[2]]
        Key(p) == <<At(p).source, At(p).module, At(p).name>>
    IN {At(p) : p \in {q \in CandidatePlaces(plan) :
            \A o \in CandidatePlaces(plan) :
                Before(o, q) => Key(o) # Key(q)}}

-----------------------------------------------------------------------------
(* Gates on the candidates.  Each is skipped, and passes, without candidates. *)

\* What has a blank name is not looked for.
ExistenceGate(cs, names) == \A c \in cs : c.name \in names \union {Blank}

\* The problems of all candidates are counted together.
DistinctProblems(cs) == UNION {c.claim.problems : c \in cs}

Forced(cs, forcedNames) == {c \in cs : c.claim.forced \/ c.name \in forcedNames}

\* A forced candidate decides for all of them; otherwise enough problems, or
\* one justified candidate, do.
ReuseGate(plan, cs, forcedNames) ==
    \/ cs = {}
    \/ /\ Forced(cs, forcedNames) # {} /\ plan.force
       /\ \A c \in Forced(cs, forcedNames) : c.claim.justified
    \/ /\ Forced(cs, forcedNames) = {}
       /\ \/ Cardinality(DistinctProblems(cs)) >= plan.min
          \/ plan.exceptions /\ \E c \in cs : c.claim.justified

MigrationGate(cs) == \A c \in cs : c.claim.migration

-----------------------------------------------------------------------------
(* The dedup scan.  An instance declaration has a name, a module, a type, a  *)
(* text and a right-hand side that may be an alias.  The scan compares the texts: what  *)
(* a block has between its first colon and the colon that ends the head.  An *)
(* ordinary head has no colon before that one, and no text.                  *)

NoText == "none"

\* head.split(":", 1)[1] raises on a head without a colon: there is no report.
ScanFails(instances) == \E d \in instances : d.text = NoText

\* What the scan of some modules sees.
Scanned(instances, modules) == {d \in instances : d.module \in modules}

Group(instances, d) == {e \in instances : e.text = d.text}

\* Mutant: an alias or an allowlisted declaration vouches for its whole group.
DecisionOfGroup(instances, allowed, d) ==
    CASE Cardinality(Group(instances, d)) <= 1 -> "keep"
      [] \E e \in Group(instances, d) : e.alias -> "alias"
      [] \E e \in Group(instances, d) : e.name \in allowed -> "allowlist"
      [] OTHER -> "duplicate"

\* allowed: the names of the allowlist, its modules and its type hashes
Decision(instances, allowed, d) ==
    CASE Cardinality(Group(instances, d)) <= 1 -> "keep"
      [] Cardinality(Group(instances, d)) > 1 /\ d.alias -> "alias"
      [] /\ Cardinality(Group(instances, d)) > 1 /\ ~d.alias
         /\ allowed \intersect {d.name, d.module, d.text} # {} -> "allowlist"
      [] OTHER -> "duplicate"

Duplicates(instances, allowed) ==
    {d \in instances : Decision(instances, allowed, d) = "duplicate"}

=============================================================================
