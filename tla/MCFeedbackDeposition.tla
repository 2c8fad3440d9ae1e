----------------------- MODULE MCFeedbackDeposition ------------------------
(* Three pieces of feedback, one of them deposited as closed; one run at a time. *)
EXTENDS FeedbackDeposition

CONSTANTS f1, f2, f3, r1

ByName == [x \in Items |-> CASE x = f1 -> 1 [] x = f2 -> 2 [] OTHER -> 3]
=============================================================================
