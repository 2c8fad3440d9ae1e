-------------------------- MODULE MCPromotionGate ---------------------------
(* Instances of PromotionGate: small libraries and plans.                    *)
EXTENDS PromotionGate

SomeNames == {"a", "b", "c"}
FourProblems == {"p1", "p2", "p3", "p4"}
TwoPlaces == <<"cache", "nightly">>

TwoModules == {"Toolbox", "Seeds"}
AllOrToolbox == {TwoModules, {"Toolbox"}}
Everything == {TwoModules}

I(name, type, text, alias) ==
    [name |-> name, module |-> IF name = "j" THEN "Seeds" ELSE "Toolbox",
     type |-> type, text |-> text, alias |-> alias]

\* Two instances with comparable texts, an alias and its original, two instances
\* of one type as they are ordinarily written, and one library for each check
\* of the gate that fails.
Sound == [names |-> {"a", "b"}, instances |-> {}, builds |-> TRUE, lints |-> TRUE,
          tests |-> TRUE, pins |-> TRUE, unread |-> {}]
Twice == [Sound EXCEPT !.instances = {I("i", "T", "T", FALSE), I("j", "T", "T", FALSE)}]
Alias == [Sound EXCEPT !.instances = {I("i", "T", "T", FALSE), I("j", "T", "T", TRUE)}]
Listed == [Sound EXCEPT !.instances = {I("ok", "T", "T", FALSE), I("j", "T", "T", TRUE)}]
Undecoded == [Twice EXCEPT !.unread = {"Seeds"}]
Ordinary == [Sound EXCEPT !.instances = {I("i", "T", NoText, FALSE), I("j", "T", NoText, FALSE)}]
Untested == [Sound EXCEPT !.tests = FALSE]
Renamed == [Sound EXCEPT !.names = {"a", "c"}]
Broken == [Sound EXCEPT !.builds = FALSE, !.lints = FALSE]
Unpinned == [Sound EXCEPT !.lints = FALSE, !.pins = FALSE]

SomeTrees == {Sound, Twice, Undecoded, Alias, Listed, Ordinary, Untested, Renamed, Broken, Unpinned}
BothTrees == {Sound, Ordinary}
ListOk == {"ok"}

C(problems, justified, forced, migration) ==
    [problems |-> problems, justified |-> justified, forced |-> forced, migration |-> migration]
PlanItem(decls, name, listed, claim) ==
    [source |-> "seed", module |-> "Seeds", decls |-> decls, name |-> name,
     listed |-> listed, claim |-> claim]
P(items, exceptions) ==
    [items |-> items, min |-> 3, exceptions |-> exceptions, force |-> TRUE]

Used3 == C({"p1", "p2", "p3"}, FALSE, FALSE, TRUE)
Used1 == C({"p4"}, FALSE, FALSE, TRUE)
Force == C({"p4"}, TRUE, TRUE, TRUE)
D(name, claim) == [name |-> name, module |-> Absent, claim |-> claim]

\* A list of declarations, one of which relies on the migration of its item, and
\* is named twice, and one of which is blank; names in the evidence; and a forced
\* item.
ListPlan == P(<<PlanItem(<<D("a", [Used3 EXCEPT !.migration = FALSE]), D("b", Used1), D("a", Used1),
                       D(Blank, Used1)>>, Absent, <<>>, Used1)>>, FALSE)
NamesPlan == P(<<PlanItem(<<>>, Absent, <<"a", "b">>, Used3)>>, FALSE)
ForcePlan == P(<<PlanItem(<<>>, "a", <<>>, Force), PlanItem(<<>>, "b", <<>>, Used3)>>, TRUE)
EmptyPlan == P(<<>>, TRUE)

SomePlans == {ListPlan, NamesPlan, ForcePlan, EmptyPlan}
OnePlan == {NamesPlan}
SomeLists == {{}, {"b"}}
NoList == {{}}
=============================================================================
