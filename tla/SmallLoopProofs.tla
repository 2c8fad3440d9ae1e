-------------------------- MODULE SmallLoopProofs ---------------------------
(***************************************************************************)
(* What holds of every run of the small loop, whatever its cases, patches, *)
(* diagnostics and costs.                                                  *)
(***************************************************************************)
EXTENDS SmallLoop, TLAPS

Line ==
    [patch : Patches \union {{}}, ok : BOOLEAN,
     errors : {b.errors : b \in Builds} \union {{"tooling"}},
     stagnant : BOOLEAN, reason : Reasons]

\* A line of the log that is no reason to stop.
Harmless(line) ==
    /\ Allowed(Mode, Recorded(line.patch))
    /\ line.errors \intersect ErrorsOutside = {}
    /\ ~line.ok

\* The history of a run that goes on, and what the Judge knows of it: the
\* reason of the last attempt is in the log, its number in the counters.
LoopInv ==
    /\ log \in Seq(Line)
    /\ attempt \in Nat
    /\ Len(log) = attempt
    /\ verdict \in {"none", "SUCCESS", "TRIAGED"}
    /\ verdict = "none" => \A i \in 1..Len(log) : Harmless(log[i])
    /\ verdict = "none" /\ log # <<>> => Exhausted(case.limits, counters) = {}
    /\ log # <<>> => counters["attempts"] = attempt
    /\ verdict = "TRIAGED" => log # <<>> /\ log[Len(log)].reason # "OK"
    /\ DOMAIN counters = Dimensions

\* What the Judge found when it let the run go on.
LEMMA OkMeansNoReason ==
    ASSUME NEW allowed \in BOOLEAN, NEW family, NEW n, NEW signals, NEW limits, NEW used,
           Reason(Mode, allowed, family, n, signals, limits, used) = "OK"
    PROVE  allowed /\ ~signals.outside /\ Exhausted(limits, used) = {}
  BY DEF Reason, Mode

\* The Judge always answers with one of its reasons.
LEMMA ReasonIsReason ==
    ASSUME NEW mode, NEW allowed, NEW family, NEW n, NEW signals, NEW limits, NEW used
    PROVE  Reason(mode, allowed, family, n, signals, limits, used) \in Reasons
  BY DEF Reason, Reasons

\* One attempt keeps the history right, whatever it applies and finds.
LEMMA AttemptKeepsLoopInv ==
    ASSUME LoopInv,
           NEW patch \in Patches \union {{}}, NEW proofEdited \in BOOLEAN,
           NEW outcome \in Outcomes, NEW cost,
           Attempt(patch, proofEdited, outcome, cost)
    PROVE  LoopInv'
<1> DEFINE stagnant == Stagnant(proofEdited, outcome.errors)
           signals == [tooling |-> ToolingFailed,
                       outside |-> outcome.errors \intersect ErrorsOutside # {},
                       stagnant |-> stagnant]
           used == [counters EXCEPT !["attempts"] = attempt + 1, !["wall"] = @ + cost]
           reason == Reason(Mode, Allowed(Mode, Recorded(patch)), case.family,
                            RunnerCount(stagnant), signals, case.limits, used)
           line == [patch |-> patch, ok |-> outcome.ok, errors |-> outcome.errors,
                    stagnant |-> stagnant, reason |-> reason]
<1>1. /\ verdict = "none"
      /\ attempt' = attempt + 1
      /\ counters' = used
      /\ log' = Append(log, line)
      /\ verdict' = StatusAfter(outcome.ok, reason)
      /\ case' = case
  BY DEF Attempt
<1>2. line \in Line
  <2>1. outcome.ok \in BOOLEAN /\ outcome.errors \in {b.errors : b \in Builds} \union {{"tooling"}}
    BY DEF Outcomes, Builds
  <2>2. stagnant \in BOOLEAN
    BY DEF Stagnant
  <2>3. reason \in Reasons
    BY ReasonIsReason
  <2> HIDE DEF stagnant, reason
  <2> QED
    BY <2>1, <2>2, <2>3 DEF Line
<1>3. /\ log' \in Seq(Line)
      /\ Len(log') = Len(log) + 1
      /\ \A i \in 1..Len(log) : log'[i] = log[i]
      /\ log'[Len(log')] = line
      /\ log' # <<>>
  <2> HIDE DEF line
  <2> QED
    BY <1>1, <1>2 DEF LoopInv
<1>4. attempt' \in Nat /\ Len(log') = attempt'
  BY <1>1, <1>3 DEF LoopInv
<1>5. verdict' \in {"none", "SUCCESS", "TRIAGED"}
  <2> HIDE DEF reason
  <2> QED
    BY <1>1 DEF StatusAfter
<1>6. verdict' = "none" =>
        /\ Harmless(line)
        /\ Exhausted(case.limits, used) = {}
  <2> SUFFICES ASSUME verdict' = "none"
               PROVE  Harmless(line) /\ Exhausted(case.limits, used) = {}
    OBVIOUS
  <2>1. ~outcome.ok /\ reason = "OK"
    <3> HIDE DEF reason
    <3> QED
      BY <1>1 DEF StatusAfter
  <2>2. Allowed(Mode, Recorded(patch)) \in BOOLEAN
    BY DEF Allowed
  <2>3. /\ Allowed(Mode, Recorded(patch))
        /\ ~signals.outside
        /\ Exhausted(case.limits, used) = {}
    <3> HIDE DEF used, signals, stagnant
    <3> QED
      BY <2>1, <2>2, OkMeansNoReason
  <2> HIDE DEF used, stagnant, reason
  <2> QED
    BY <2>1, <2>3 DEF Harmless
<1>7. verdict' = "none" => \A i \in 1..Len(log') : Harmless(log'[i])
  <2> HIDE DEF line, used
  <2>1. ASSUME verdict' = "none", NEW i \in 1..Len(log')
        PROVE  Harmless(log'[i])
    <3>1. CASE i = Len(log')
      BY <1>3, <1>6, <2>1, <3>1
    <3>2. CASE i # Len(log')
      <4>1. Len(log) \in Nat
        BY DEF LoopInv
      <4>2. i \in 1..Len(log) /\ log'[i] = log[i]
        BY <1>3, <3>2, <4>1
      <4> QED
        BY <1>1, <4>2 DEF LoopInv
    <3> QED
      BY <3>1, <3>2
  <2> QED
    BY <2>1
<1>8. DOMAIN used = Dimensions /\ used["attempts"] = attempt + 1
  BY DEF LoopInv, Dimensions
<1>9. verdict' = "TRIAGED" => log'[Len(log')].reason # "OK"
  <2> HIDE DEF reason
  <2>1. verdict' = "TRIAGED" => reason # "OK"
    BY <1>1 DEF StatusAfter
  <2> QED
    BY <1>3, <2>1
<1> HIDE DEF line, used
<1>10. (\A i \in 1..Len(log') : Harmless(log'[i]))
         <=> (\A i \in 1..Len(log)' : Harmless(log[i])')
  BY <1>1 DEF Harmless, Allowed, Recorded
<1> QED
  BY <1>1, <1>3, <1>4, <1>5, <1>6, <1>7, <1>8, <1>9, <1>10 DEF LoopInv, Harmless

\* LoopInv holds of every state of every run.
THEOREM LoopInvariant == Spec => []LoopInv
<1>1. Init => LoopInv
  BY DEF Init, LoopInv, Dimensions
<1>2. LoopInv /\ [Next]_vars => LoopInv'
  <2> SUFFICES ASSUME LoopInv, [Next]_vars
               PROVE  LoopInv'
    OBVIOUS
  <2>1. CASE Baseline
    BY <2>1, AttemptKeepsLoopInv DEF Baseline
  <2>2. CASE ApplyPatch
    <3>1. PICK patch \in Patches, outcome \in Outcomes, cost \in Costs :
             \E proofEdited \in {b \in BOOLEAN :
                                   b => [place |-> "source", lean |-> TRUE] \in patch} :
                Attempt(patch, proofEdited, outcome, cost)
      BY <2>2 DEF ApplyPatch
    <3>2. PICK proofEdited \in BOOLEAN : Attempt(patch, proofEdited, outcome, cost)
      BY <3>1
    <3> QED
      BY <3>2, AttemptKeepsLoopInv
  <2>3. CASE UNCHANGED <<case, loop>>
    BY <2>3 DEF LoopInv, Harmless, Allowed, Recorded, loop
  <2> QED
    BY <2>1, <2>2, <2>3 DEF Next, Report, Abort, vars
<1> QED
  BY <1>1, <1>2, PTL DEF Spec

\* A run goes on only while every attempt so far stayed in scope as recorded,
\* failed inside its problem, and no budget is used up.
THEOREM RunsGoOnForNoReason == Spec => []GoesOnForNoReason
<1>1. LoopInv => GoesOnForNoReason
  BY DEF LoopInv, GoesOnForNoReason, Running, Harmless
<1> QED
  BY <1>1, LoopInvariant, PTL

\* The limit of attempts is a number of attempts the patches allow: the default
\* of both runners, and no larger where a case overrides it.
AttemptsAreLimited ==
    \A c \in Cases : c.limits["attempts"] \in 1 .. c.patches + 1

\* With such limits the patches never run out before there is a reason to stop:
\* a triaged run always names one.
THEOREM TriagedRunsNameAReason ==
    ASSUME AttemptsAreLimited
    PROVE  Spec => []TriagedForAReason
<1> DEFINE ReportInv ==
             /\ case \in Cases
             /\ report = "TRIAGED" => verdict = "TRIAGED"
<1>1. Init => ReportInv
  BY DEF Init, NoReport
<1>2. LoopInv /\ ReportInv /\ [Next]_vars => ReportInv'
  <2> SUFFICES ASSUME LoopInv, ReportInv, [Next]_vars
               PROVE  ReportInv'
    OBVIOUS
  <2>1. case' = case
    BY DEF Next, Baseline, ApplyPatch, Attempt, Report, Abort, vars
  <2>2. CASE Baseline \/ ApplyPatch
    <3>1. report = NoReport /\ report' = report
      BY <2>2 DEF Baseline, ApplyPatch, Attempt
    <3> QED
      BY <2>1, <3>1 DEF NoReport
  <2>3. CASE Report
    <3>1. verdict' = verdict
      BY <2>3 DEF Report, loop
    <3>2. CASE verdict # "none"
      <4>1. report' = verdict
        BY <2>3, <3>2 DEF Report
      <4> QED
        BY <2>1, <3>1, <4>1
    <3>3. CASE verdict = "none"
      <4>1. attempt > case.patches
        BY <2>3, <3>3 DEF Report
      <4>2. /\ case.patches \in Nat
            /\ case.limits["attempts"] \in 1 .. case.patches + 1
        BY CasesAssumption DEF AttemptsAreLimited, Case
      <4>3. log # <<>>
        BY <4>1, <4>2 DEF LoopInv
      <4>4. counters["attempts"] = attempt /\ attempt \in Nat
        BY <4>3 DEF LoopInv
      <4>5. "attempts" \in Exhausted(case.limits, counters)
        BY <4>1, <4>2, <4>4 DEF Exhausted, Dimensions
      <4> QED
        BY <3>3, <4>3, <4>5 DEF LoopInv
    <3> QED
      BY <3>2, <3>3
  <2>4. CASE Abort
    BY <2>1, <2>4 DEF Abort, Aborted
  <2>5. CASE UNCHANGED vars
    BY <2>5 DEF vars, loop
  <2> QED
    BY <2>2, <2>3, <2>4, <2>5 DEF Next
<1>3. LoopInv /\ ReportInv => TriagedForAReason
  BY DEF LoopInv, TriagedForAReason
<1> QED
  BY <1>1, <1>2, <1>3, LoopInvariant, PTL DEF Spec

-----------------------------------------------------------------------------
(* Stagnation. *)

\* What the count and the lines of the log say of each other: a stagnant line
\* has the errors of the line before; the count is the number of stagnant lines
\* at the end, no more and no fewer; and the last reason was found with it.
StagnationInv ==
    /\ case \in Cases
    /\ count \in 0..Len(log)
    /\ last = IF log = <<>> THEN NoFingerprint ELSE log[Len(log)].errors
    /\ \A j \in 1..Len(log) :
          log[j].stagnant => j > 1 /\ log[j].errors = log[j-1].errors
    /\ \A j \in Len(log) - count + 1 .. Len(log) : log[j].stagnant
    /\ count < Len(log) => ~log[Len(log) - count].stagnant
    /\ verdict = "none" /\ log # <<>> => log[Len(log)].reason = "OK"
    /\ log # <<>> =>
          LET n == IF log[Len(log)].stagnant THEN count + 1 ELSE 0
          IN  /\ log[Len(log)].reason = "STAGNATION_EXCEEDED" =>
                    K[case.family] # 0 /\ n >= K[case.family]
              /\ log[Len(log)].reason = "OK" =>
                    K[case.family] # 0 /\ n < K[case.family]

LEMMA KType == \A family \in Families : K[family] \in Nat
BY DEF K, Families

\* How the Judge's answer depends on the count.
LEMMA ReasonOfCount ==
    ASSUME NEW allowed, NEW family \in Families, NEW n \in Nat, NEW signals, NEW limits,
           NEW used
    PROVE  LET reason == Reason(Mode, allowed, family, n, signals, limits, used)
               judged == CountAfter(n, signals)
           IN  /\ reason = "STAGNATION_EXCEEDED" => K[family] # 0 /\ judged >= K[family]
               /\ reason = "OK" => K[family] # 0 /\ judged < K[family]
<1>1. K[family] \in Nat /\ CountAfter(n, signals) \in Nat
  BY KType DEF CountAfter
<1> QED
  BY <1>1 DEF Reason

\* The first attempt is never stagnant: nothing it finds is the empty fingerprint.
LEMMA FirstIsFresh ==
    ASSUME NEW outcome \in Outcomes
    PROVE  outcome.errors # NoFingerprint
<1>1. outcome.errors \in SUBSET (Errors \union ErrorsOutside) \/ outcome.errors = {"tooling"}
  BY DEF Outcomes, Builds
<1> QED
  BY <1>1, ErrorsAssumption DEF NoFingerprint

LEMMA AttemptKeepsStagnationInv ==
    ASSUME LoopInv, StagnationInv,
           NEW patch \in Patches \union {{}}, NEW proofEdited \in BOOLEAN,
           NEW outcome \in Outcomes, NEW cost,
           Attempt(patch, proofEdited, outcome, cost)
    PROVE  StagnationInv'
<1> DEFINE stagnant == Stagnant(proofEdited, outcome.errors)
           signals == [tooling |-> ToolingFailed,
                       outside |-> outcome.errors \intersect ErrorsOutside # {},
                       stagnant |-> stagnant]
           used == [counters EXCEPT !["attempts"] = attempt + 1, !["wall"] = @ + cost]
           reason == Reason(Mode, Allowed(Mode, Recorded(patch)), case.family,
                            RunnerCount(stagnant), signals, case.limits, used)
           line == [patch |-> patch, ok |-> outcome.ok, errors |-> outcome.errors,
                    stagnant |-> stagnant, reason |-> reason]
<1>1. /\ log' = Append(log, line)
      /\ verdict' = StatusAfter(outcome.ok, reason)
      /\ last' = outcome.errors
      /\ count' = RunnerCount(stagnant)
      /\ case' = case
  BY DEF Attempt
<1>2. stagnant \in BOOLEAN /\ case.family \in Families /\ count \in Nat
  BY CasesAssumption DEF Stagnant, StagnationInv, LoopInv, Case
<1>3. RunnerCount(stagnant) = (IF stagnant THEN count + 1 ELSE 0)
      /\ RunnerCount(stagnant) \in Nat
  BY <1>2 DEF RunnerCount
<1>4. LET n == IF stagnant THEN RunnerCount(stagnant) + 1 ELSE 0
      IN  /\ reason = "STAGNATION_EXCEEDED" => K[case.family] # 0 /\ n >= K[case.family]
          /\ reason = "OK" => K[case.family] # 0 /\ n < K[case.family]
  <2>1. CountAfter(RunnerCount(stagnant), signals)
          = (IF stagnant THEN RunnerCount(stagnant) + 1 ELSE 0)
    BY DEF CountAfter
  <2> HIDE DEF stagnant, signals, used
  <2> QED
    BY <1>2, <1>3, <2>1, ReasonOfCount
<1>5. verdict' = "none" => reason = "OK"
  <2> HIDE DEF reason
  <2> QED
    BY <1>1 DEF StatusAfter
<1>6. stagnant => log # <<>> /\ outcome.errors = log[Len(log)].errors
  BY FirstIsFresh DEF Stagnant, StagnationInv
<1>7. /\ line.stagnant = stagnant /\ line.errors = outcome.errors /\ line.reason = reason
  OBVIOUS
<1>8. log \in Seq(Line) /\ Len(log) \in Nat
  BY DEF LoopInv
<1> HIDE DEF line, reason, stagnant
<1>9. /\ Len(log') = Len(log) + 1
      /\ \A i \in 1..Len(log) : log'[i] = log[i]
      /\ log'[Len(log) + 1] = line
      /\ log' # <<>>
  BY <1>1, <1>8
<1>10. count' \in 0..Len(log')
  BY <1>1, <1>3, <1>8, <1>9, <1>2 DEF StagnationInv
<1>11. \A j \in 1..Len(log') :
          log'[j].stagnant => j > 1 /\ log'[j].errors = log'[j-1].errors
  <2> SUFFICES ASSUME NEW j \in 1..Len(log'), log'[j].stagnant
               PROVE  j > 1 /\ log'[j].errors = log'[j-1].errors
    OBVIOUS
  <2>1. CASE j = Len(log) + 1
    <3>1. stagnant
      BY <1>7, <1>9, <2>1
    <3>2. Len(log) >= 1
      BY <1>6, <1>8, <3>1
    <3>3. log'[j-1] = log[Len(log)]
      BY <1>8, <1>9, <2>1, <3>2
    <3> QED
      BY <1>6, <1>7, <1>9, <2>1, <3>1, <3>2, <3>3
  <2>2. CASE j # Len(log) + 1
    <3>1. j \in 1..Len(log) /\ log'[j] = log[j]
      BY <1>8, <1>9, <2>2
    <3>2. j > 1 /\ log[j].errors = log[j-1].errors
      BY <3>1 DEF StagnationInv
    <3>3. log'[j-1] = log[j-1]
      BY <1>8, <1>9, <3>1, <3>2
    <3> QED
      BY <3>1, <3>2, <3>3
  <2> QED
    BY <2>1, <2>2
<1>12. \A j \in Len(log') - count' + 1 .. Len(log') : log'[j].stagnant
  <2> SUFFICES ASSUME NEW j \in Len(log') - count' + 1 .. Len(log')
               PROVE  log'[j].stagnant
    OBVIOUS
  <2>1. stagnant /\ count' = count + 1
    BY <1>1, <1>2, <1>3, <1>8, <1>9
  <2>2. CASE j = Len(log) + 1
    BY <1>7, <1>9, <2>1, <2>2
  <2>3. CASE j # Len(log) + 1
    <3>1. count \in 0..Len(log)
      BY DEF StagnationInv
    <3>2. j \in Len(log) - count + 1 .. Len(log) /\ j \in 1..Len(log)
      BY <1>8, <1>9, <2>1, <2>3, <3>1
    <3> QED
      BY <1>9, <3>2 DEF StagnationInv
  <2> QED
    BY <2>2, <2>3
<1>13. count' < Len(log') => ~log'[Len(log') - count'].stagnant
  <2>1. CASE ~stagnant
    BY <1>1, <1>3, <1>7, <1>8, <1>9, <2>1
  <2>2. CASE stagnant
    <3>1. count' = count + 1 /\ count \in 0..Len(log)
      BY <1>1, <1>3, <2>2 DEF StagnationInv
    <3> SUFFICES ASSUME count < Len(log)
                 PROVE  ~log'[Len(log) - count].stagnant
      BY <1>8, <1>9, <3>1
    <3>2. Len(log) - count \in 1..Len(log)
      BY <1>8, <3>1
    <3> QED
      BY <1>9, <3>2 DEF StagnationInv
  <2> QED
    BY <2>1, <2>2
<1> QED
  BY <1>1, <1>4, <1>5, <1>7, <1>9, <1>10, <1>11, <1>12, <1>13 DEF StagnationInv

LEMMA StagnationInvariant == Spec => []StagnationInv
<1>1. Init => StagnationInv
  BY DEF Init, StagnationInv
<1>2. LoopInv /\ StagnationInv /\ [Next]_vars => StagnationInv'
  <2> SUFFICES ASSUME LoopInv, StagnationInv, [Next]_vars
               PROVE  StagnationInv'
    OBVIOUS
  <2>1. CASE Baseline
    BY <2>1, AttemptKeepsStagnationInv DEF Baseline
  <2>2. CASE ApplyPatch
    <3>1. PICK patch \in Patches, outcome \in Outcomes, cost \in Costs :
             \E proofEdited \in {b \in BOOLEAN :
                                   b => [place |-> "source", lean |-> TRUE] \in patch} :
                Attempt(patch, proofEdited, outcome, cost)
      BY <2>2 DEF ApplyPatch
    <3>2. PICK proofEdited \in BOOLEAN : Attempt(patch, proofEdited, outcome, cost)
      BY <3>1
    <3> QED
      BY <3>2, AttemptKeepsStagnationInv
  <2>3. CASE UNCHANGED <<case, loop>>
    BY <2>3 DEF StagnationInv, loop
  <2> QED
    BY <2>1, <2>2, <2>3 DEF Next, Report, Abort, vars
<1> QED
  BY <1>1, <1>2, LoopInvariant, PTL DEF Spec

\* A stop for stagnation is earned, and no run goes on after the stagnant attempts
\* that the runner's counting asks for.
THEOREM StagnationIsEarned == Spec => []StagnationIsReal
<1>1. LoopInv /\ StagnationInv => StagnationIsReal
  <2> SUFFICES ASSUME LoopInv, StagnationInv, log # <<>>
               PROVE  LET enough == IF K[case.family] <= 1 THEN 1 ELSE K[case.family] - 1
                          tail == Len(log) - enough + 1
                      IN  /\ log[Len(log)].reason = "STAGNATION_EXCEEDED" =>
                                /\ tail > 1
                                /\ SameSince(tail)
                                /\ \A j \in tail..Len(log) : log[j].stagnant
                          /\ Running => ~ (tail > 1 /\ \A j \in tail..Len(log) : log[j].stagnant)
    BY DEF StagnationIsReal
  <2> DEFINE k == K[case.family]
             enough == IF k <= 1 THEN 1 ELSE k - 1
             tail == Len(log) - enough + 1
  <2>1. /\ k \in Nat /\ Len(log) \in Nat /\ Len(log) >= 1 /\ count \in Nat /\ count <= Len(log)
    BY KType, CasesAssumption DEF LoopInv, StagnationInv, Case
  <2>2. ASSUME log[Len(log)].reason = "STAGNATION_EXCEEDED"
        PROVE  tail > 1 /\ SameSince(tail) /\ \A j \in tail..Len(log) : log[j].stagnant
    <3>1. log[Len(log)].stagnant /\ k # 0 /\ count + 1 >= k
      BY <2>1, <2>2 DEF StagnationInv
    <3>2. count >= 1
      BY <2>1, <3>1 DEF StagnationInv
    <3>3. count >= enough /\ enough \in Nat
      BY <2>1, <3>1, <3>2
    <3> HIDE DEF enough
    <3>4. ASSUME NEW j \in tail..Len(log)
          PROVE  j \in 1..Len(log) /\ log[j].stagnant
      <4>1. j \in Len(log) - count + 1 .. Len(log)
        BY <2>1, <3>3
      <4>2. j \in 1..Len(log)
        BY <2>1, <3>3
      <4> QED
        BY <4>1, <4>2 DEF StagnationInv
    <3>5. \A j \in tail..Len(log) : j > 1 /\ log[j].errors = log[j-1].errors
      BY <3>4 DEF StagnationInv
    <3>6. enough >= 1
      BY <2>1 DEF enough
    <3>7. tail \in tail..Len(log)
      BY <2>1, <3>3, <3>6
    <3> QED
      BY <3>4, <3>5, <3>7 DEF SameSince
  <2>3. ASSUME Running, tail > 1, \A j \in tail..Len(log) : log[j].stagnant
        PROVE  FALSE
    <3>1. log[Len(log)].reason = "OK"
      BY <2>3 DEF Running, StagnationInv
    <3>2. enough \in Nat /\ enough >= 1 /\ enough >= k - 1
      BY <2>1
    <3> HIDE DEF enough
    <3>3. log[Len(log)].stagnant
      BY <2>1, <2>3, <3>2
    <3>4. k # 0 /\ count + 1 < k
      BY <3>1, <3>3 DEF StagnationInv
    <3>5. Len(log) - count \in tail..Len(log) /\ count < Len(log)
      BY <2>1, <2>3, <3>2, <3>4
    <3> QED
      BY <2>3, <3>5 DEF StagnationInv
  <2> QED
    BY <2>2, <2>3
<1> QED
  BY <1>1, LoopInvariant, StagnationInvariant, PTL
-----------------------------------------------------------------------------
(* Types. *)

LEMMA AttemptKeepsTypes ==
    ASSUME TypeOK, LoopInv, LoopInv', StagnationInv',
           NEW patch \in Patches \union {{}}, NEW proofEdited \in BOOLEAN,
           NEW outcome \in Outcomes, NEW cost \in Costs,
           Attempt(patch, proofEdited, outcome, cost)
    PROVE  TypeOK'
<1>1. /\ case' = case /\ report' = report
      /\ attempt <= case.patches /\ attempt' = attempt + 1
      /\ last' = outcome.errors
      /\ counters' = [counters EXCEPT !["attempts"] = attempt + 1, !["wall"] = @ + cost]
  BY DEF Attempt
<1>2. case.patches \in Nat /\ attempt \in Nat /\ cost \in Nat
  BY CostsAssumption DEF TypeOK, Case, LoopInv
<1>3. attempt' \in 0 .. case'.patches + 1
  BY <1>1, <1>2
<1>4. counters' \in Budget
  <2>1. counters \in [Dimensions -> Nat] /\ "wall" \in Dimensions
    BY DEF TypeOK, Budget, Dimensions
  <2>2. counters["wall"] + cost \in Nat /\ attempt + 1 \in Nat
    BY <1>2, <2>1
  <2>3. counters' = [d \in Dimensions |-> IF d = "wall" THEN counters["wall"] + cost
                                        ELSE IF d = "attempts" THEN attempt + 1 ELSE counters[d]]
    BY <1>1, <2>1
  <2> QED
    BY <2>1, <2>2, <2>3 DEF Budget
<1>5. Outcomes' = Outcomes
  BY <1>1 DEF Outcomes, ToolingFailed
<1>6. count' \in 0..attempt' /\ Len(log') = attempt'
  BY DEF StagnationInv, LoopInv
<1>7. \A i \in 1..Len(log') : log'[i].reason \in Reasons
  <2>1. \A i \in 1..Len(log') : log'[i] \in Line
    BY DEF LoopInv
  <2> QED
    BY <2>1 DEF Line
<1> QED
  BY <1>1, <1>3, <1>4, <1>5, <1>6, <1>7 DEF TypeOK, LoopInv

\* Every variable of a run keeps its type: no more attempts than patches and the
\* baseline, a line of the log for each, and no count beyond them.
THEOREM LoopTypes == Spec => []TypeOK
<1>1. Init => TypeOK
  BY CasesAssumption DEF Init, TypeOK, Case, Budget, NoReport
<1>2. TypeOK /\ LoopInv /\ LoopInv' /\ StagnationInv' /\ [Next]_vars => TypeOK'
  <2> SUFFICES ASSUME TypeOK, LoopInv, LoopInv', StagnationInv', [Next]_vars
               PROVE  TypeOK'
    OBVIOUS
  <2>1. CASE Baseline
    BY <2>1, AttemptKeepsTypes DEF Baseline
  <2>2. CASE ApplyPatch
    <3>1. PICK patch \in Patches, outcome \in Outcomes, cost \in Costs :
             \E proofEdited \in {b \in BOOLEAN :
                                   b => [place |-> "source", lean |-> TRUE] \in patch} :
                Attempt(patch, proofEdited, outcome, cost)
      BY <2>2 DEF ApplyPatch
    <3>2. PICK proofEdited \in BOOLEAN : Attempt(patch, proofEdited, outcome, cost)
      BY <3>1
    <3> QED
      BY <3>2, AttemptKeepsTypes
  <2>3. ASSUME UNCHANGED <<case, loop>>,
               report' \in {"none", "aborted", "SUCCESS", "TRIAGED"}
        PROVE  TypeOK'
    BY <2>3 DEF TypeOK, loop, Outcomes, ToolingFailed
  <2>4. CASE Report
    BY <2>3, <2>4 DEF Report, TypeOK
  <2>5. CASE Abort
    BY <2>3, <2>5 DEF Abort, Aborted
  <2>6. CASE UNCHANGED vars
    BY <2>3, <2>6 DEF vars, TypeOK
  <2> QED
    BY <2>1, <2>2, <2>4, <2>5, <2>6 DEF Next
<1> QED
  BY <1>1, <1>2, LoopInvariant, StagnationInvariant, PTL DEF Spec
=============================================================================
