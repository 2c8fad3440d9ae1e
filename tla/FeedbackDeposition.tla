------------------------- MODULE FeedbackDeposition -------------------------
(***************************************************************************)
(* The automation nightly_chat_feedback_deposition: run_automation.py runs *)
(* the three tools of tools/feedback one after the other (mine the inbox   *)
(* into a digest, append what is new to the ledger, build the matrix) and  *)
(* then asks the advisor to work on what is new.  A step may time out, a   *)
(* run may be killed, and a rerun may overlap with the run it replaces.    *)
(***************************************************************************)
EXTENDS Integers, FiniteSets, SequencesExt

CONSTANTS
    Items,       \* pieces of feedback, by feedback_id
    Order,       \* how their ids sort
    Untraced,    \* items deposited as closed, without a link (force_deposit.json)
    Runners,     \* processes that run the automation
    MaxFaults    \* bound of the model: steps that time out, runs that are killed

ASSUME ItemsAssumption ==
    Untraced \subseteq Items /\ \A x, y \in Items : Order[x] = Order[y] => x = y
ASSUME FaultsAssumption == MaxFaults \in Nat

VARIABLES
    inbox,     \* artifacts/feedback/inbox
    digest,    \* items of chat_feedback/latest.json, none while it is torn
    ledger,    \* feedback_ledger.jsonl, as the pieces that were written
    summary,   \* new_feedback_ids of latest_append_summary.json, none while torn
    advised,   \* what the advisor was asked to work on
    faults,
    pc,        \* where each run is
    items,     \* the feedback its step has in hand, at last what it appended
    pending,   \* pieces its append has still to write
    stepsOk    \* the deterministic steps succeeded

files == <<digest, ledger, summary>>
run == <<pc, items, pending, stepsOk>>
vars == <<inbox, files, advised, faults, run>>

-----------------------------------------------------------------------------
(* The ledger.  A line is written as two parts of its JSON text and a      *)
(* newline; buffers are flushed, and writers killed, between any of them.  *)

Parts == <<"head", "rest", "newline">>

\* Mutant: lines are not ended.
UnendedLines(s, r) ==
    [i \in 1 .. 2 * Len(s) |->
        [item |-> s[1 + ((i - 1) \div 2)], part |-> Parts[1 + ((i - 1) % 2)], by |-> r]]

\* One line for each item of a sequence.
Lines(s, r) ==
    [i \in 1 .. 3 * Len(s) |->
        [item |-> s[1 + ((i - 1) \div 3)], part |-> Parts[1 + ((i - 1) % 3)], by |-> r]]

\* All items of a set in the order of their ids.
InOrder(some) ==
    {s \in Bijection(1..Cardinality(some), some) :
        \A i, j \in DOMAIN s : i < j => Order[s[i]] < Order[s[j]]}

\* A line parses if it is the whole text of one item and nothing else; the last
\* one may lack its newline.
ParsesAt(i) ==
    /\ i = 1 \/ ledger[i-1].part = "newline"
    /\ i < Len(ledger)
    /\ ledger[i].part = "head"
    /\ ledger[i+1] = [ledger[i] EXCEPT !.part = "rest"]
    /\ i + 1 < Len(ledger) => ledger[i+2].part = "newline"

LinesOf(x) == {i \in DOMAIN ledger : ledger[i].item = x /\ ParsesAt(i)}

\* The ids a reader of the ledger finds; lines that do not parse are skipped.
Recorded == {x \in Items : LinesOf(x) # {}}

-----------------------------------------------------------------------------
Init ==
    /\ inbox = {}
    /\ digest = {} /\ ledger = <<>> /\ summary = {}
    /\ advised = {}
    /\ faults = 0
    /\ pc = [r \in Runners |-> "idle"]
    /\ items = [r \in Runners |-> {}]
    /\ pending = [r \in Runners |-> <<>>]
    /\ stepsOk = [r \in Runners |-> TRUE]

\* Somebody leaves feedback.
Leave(x) ==
    /\ x \notin inbox
    /\ inbox' = inbox \union {x}
    /\ UNCHANGED <<files, advised, faults, run>>

Goto(r, label) == pc' = [pc EXCEPT ![r] = label]
Take(r, some) == items' = [items EXCEPT ![r] = some]

Begin(r) ==
    /\ pc[r] = "idle"
    /\ Goto(r, "mine")
    /\ Take(r, {})
    /\ stepsOk' = [stepsOk EXCEPT ![r] = TRUE]
    /\ UNCHANGED <<inbox, files, advised, faults, pending>>

\* mine_chat_feedback: the whole inbox, whatever was mined before; the digest is
\* opened, which empties it, and then written.
Mine(r) ==
    /\ pc[r] = "mine"
    /\ Take(r, inbox)
    /\ Goto(r, "open_digest")
    /\ UNCHANGED <<inbox, files, advised, faults, pending, stepsOk>>

OpenDigest(r) ==
    /\ pc[r] = "open_digest"
    /\ digest' = {}
    /\ Goto(r, "write_digest")
    /\ UNCHANGED <<inbox, ledger, summary, advised, faults, items, pending, stepsOk>>

WriteDigest(r) ==
    /\ pc[r] = "write_digest"
    /\ digest' = items[r]
    /\ Goto(r, "read_digest")
    /\ UNCHANGED <<inbox, ledger, summary, advised, faults, items, pending, stepsOk>>

\* append_feedback_ledger: a digest that is torn or missing holds no items.
ReadDigest(r) ==
    /\ pc[r] = "read_digest"
    /\ Take(r, digest)
    /\ Goto(r, "read_ledger")
    /\ UNCHANGED <<inbox, files, advised, faults, pending, stepsOk>>

\* Mutants: what is in the ledger is not looked at, or a torn line counts.
NewIgnoringLedger(some) == some
NewUnmentioned(some) == some \ {ledger[i].item : i \in DOMAIN ledger}

New(some) == some \ Recorded

AfterReading(new) == IF new = {} THEN "open_summary" ELSE "flush"

ReadLedger(r) ==
    /\ pc[r] = "read_ledger"
    /\ Take(r, New(items[r]))
    /\ \E s \in InOrder(New(items[r])) : pending' = [pending EXCEPT ![r] = Lines(s, r)]
    /\ Goto(r, AfterReading(New(items[r])))
    /\ UNCHANGED <<inbox, files, advised, faults, stepsOk>>

\* Any number of pieces goes to the end of the file at once.
Flush(r) ==
    /\ pc[r] = "flush"
    /\ \E n \in 1..Len(pending[r]) :
          /\ ledger' = ledger \o SubSeq(pending[r], 1, n)
          /\ pending' = [pending EXCEPT ![r] = SubSeq(@, n + 1, Len(@))]
          /\ IF n = Len(pending[r]) THEN Goto(r, "open_summary") ELSE UNCHANGED pc
    /\ UNCHANGED <<inbox, digest, summary, advised, faults, items, stepsOk>>

OpenSummary(r) ==
    /\ pc[r] = "open_summary"
    /\ summary' = {}
    /\ Goto(r, "write_summary")
    /\ UNCHANGED <<inbox, digest, ledger, advised, faults, items, pending, stepsOk>>

WriteSummary(r) ==
    /\ pc[r] = "write_summary"
    /\ summary' = items[r]
    /\ Goto(r, "matrix")
    /\ UNCHANGED <<inbox, digest, ledger, advised, faults, items, pending, stepsOk>>

\* build_traceability_matrix --strict-closed fails on a closed item without links.
Matrix(r) ==
    /\ pc[r] = "matrix"
    /\ stepsOk' = [stepsOk EXCEPT ![r] = Recorded \intersect Untraced = {}]
    /\ Goto(r, "advisor")
    /\ UNCHANGED <<inbox, files, advised, faults, items, pending>>

\* Mutant: the advisor is asked only after a failure.
AskedOnFailure(r) == ~stepsOk[r]

\* The probe of advisor mode auto: a failed step, or new_items_count > 0.
Asked(r) == ~stepsOk[r] \/ summary # {}

\* The handoff to the advisor, who works on the new ids of the summary; then
\* the manifest is written and the run ends.
Advise(r) ==
    /\ pc[r] = "advisor"
    /\ advised' = IF Asked(r) THEN advised \union summary ELSE advised
    /\ Goto(r, "idle")
    /\ UNCHANGED <<inbox, files, faults, items, pending, stepsOk>>

StepLabels ==
    {"mine", "open_digest", "write_digest", "read_digest", "read_ledger", "flush",
     "open_summary", "write_summary", "matrix"}

\* A step is killed by its timeout: the steps after it are skipped, the advisor
\* is not.
TimeOut(r) ==
    /\ faults < MaxFaults
    /\ pc[r] \in StepLabels
    /\ faults' = faults + 1
    /\ pending' = [pending EXCEPT ![r] = <<>>]
    /\ stepsOk' = [stepsOk EXCEPT ![r] = FALSE]
    /\ Goto(r, "advisor")
    /\ UNCHANGED <<inbox, files, advised, items>>

\* The run itself is killed.
Kill(r) ==
    /\ faults < MaxFaults
    /\ pc[r] # "idle"
    /\ faults' = faults + 1
    /\ pending' = [pending EXCEPT ![r] = <<>>]
    /\ Goto(r, "idle")
    /\ UNCHANGED <<inbox, files, advised, items, stepsOk>>

Step(r) ==
    \/ Begin(r)
    \/ Mine(r) \/ OpenDigest(r) \/ WriteDigest(r)
    \/ ReadDigest(r) \/ ReadLedger(r) \/ Flush(r) \/ OpenSummary(r) \/ WriteSummary(r)
    \/ Matrix(r) \/ Advise(r)

Next ==
    \/ \E x \in Items : Leave(x)
    \/ \E r \in Runners : Step(r) \/ TimeOut(r) \/ Kill(r)

Spec == Init /\ [][Next]_vars

\* The automation is run every night, and a run that is not killed goes on.
FairSpec == Spec /\ \A r \in Runners : WF_vars(Step(r))

-----------------------------------------------------------------------------
(* Correctness. *)

\* "The same feedback_id must not be appended twice": no reader of the ledger
\* finds an item twice, whatever was torn and written again.
OnceEach == \A x \in Items : Cardinality(LinesOf(x)) <= 1

\* As long as no step timed out and no run was killed, what the summary reports
\* as new is in the ledger by then.
AppendedAreRecorded ==
    \A r \in Runners :
        faults = 0 /\ pc[r] \in {"open_summary", "write_summary", "matrix", "advisor"}
            => items[r] \subseteq Recorded

\* "Existing lines must never be rewritten": what a reader found once, every
\* later reader finds, unless a line before it was torn by a fault.
RecordedStays == [][faults = 0 => Recorded \subseteq Recorded']_vars

\* Feedback in the inbox ends in the ledger, and stays there, whatever timed
\* out or was killed.
FeedbackIsDeposited ==
    \A x \in Items : x \in inbox ~> [](x \in Recorded)

\* "Advisor runs on newly deposited items": each one reaches the advisor, unless
\* there is a fault.
NewItemsReachTheAdvisor ==
    \A x \in Items : x \in Recorded ~> (x \in advised \/ faults > 0)
=============================================================================
