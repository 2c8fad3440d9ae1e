------------------------ MODULE StuckRecoveryProofs -------------------------
(***************************************************************************)
(* What recoveries never do, for any number of them, of rows and of        *)
(* automations, and any threshold.                                         *)
(***************************************************************************)
EXTENDS StuckRecovery, TLAPS

\* Repaired rows never get back to IN_PROGRESS, so that no recovery can
\* repair them again.
RepairedAreOut ==
    \A r \in Recoveries : \A t \in repaired[r] :
        row[t].status \in {"PENDING_REVIEW", "FINISHED"}

IInv == TypeOK /\ RepairedAreOut /\ RepairedOnce

LEMMA InitIInv == Init => IInv
  BY AutomationAssumption, TimeAssumption
     DEF Init, IInv, TypeOK, RepairedAreOut, RepairedOnce, Row, Status

\* Every step of the app, of the clock and of a recovery keeps the invariant:
\* the app starts rows that were never repaired, and a repair takes rows that
\* are IN_PROGRESS out of it.
LEMMA NextIInv == IInv /\ [Next]_vars => IInv'
<1> SUFFICES ASSUME IInv, [Next]_vars PROVE IInv'
    OBVIOUS
<1> USE AutomationAssumption, TimeAssumption
<1>1. CASE Tick
    BY <1>1 DEF Tick, recovery, IInv, TypeOK, RepairedAreOut, RepairedOnce, Row, Status
<1>2. ASSUME NEW t \in Threads, Start(t) PROVE IInv'
    BY <1>2 DEF Start, Write, recovery, IInv, TypeOK, RepairedAreOut, RepairedOnce, Row, Status
<1>3. ASSUME NEW t \in Threads, Beat(t) PROVE IInv'
    BY <1>3 DEF Beat, Write, recovery, IInv, TypeOK, RepairedAreOut, RepairedOnce, Row, Status
<1>4. ASSUME NEW t \in Threads, Finish(t) PROVE IInv'
    BY <1>4 DEF Finish, Write, recovery, IInv, TypeOK, RepairedAreOut, RepairedOnce, Row, Status
<1>5. ASSUME NEW t \in Threads, Stall(t) PROVE IInv'
    BY <1>5 DEF Stall, recovery, IInv, TypeOK, RepairedAreOut, RepairedOnce, Row, Status
<1>6. ASSUME NEW r \in Recoveries, Select(r) PROVE IInv'
  <2>1. StaleRows(now) \subseteq Threads
    BY DEF StaleRows
  <2>2. \A q \in Recoveries :
           (repaired'[q] = repaired[q] /\ picked'[q] = picked[q])
             \/ (repaired'[q] = {} /\ picked'[q] = StaleRows(now))
    BY <1>6 DEF Select, IInv, TypeOK
  <2>3. \A q \in Recoveries : repaired'[q] \subseteq picked'[q]
    BY <2>2 DEF IInv, TypeOK
  <2>4. TypeOK'
    BY <1>6, <2>1, <2>3 DEF Select, app, IInv, TypeOK, Row, Status
  <2>5. RepairedAreOut'
    BY <1>6, <2>2 DEF Select, app, IInv, RepairedAreOut
  <2>6. RepairedOnce'
    BY <2>2 DEF IInv, RepairedOnce
  <2> QED
    BY <2>4, <2>5, <2>6 DEF IInv
<1>7. ASSUME NEW r \in Recoveries, Repair(r) PROVE IInv'
  <2>1. Repairable(r) \subseteq {t \in Threads : row[t].status = "IN_PROGRESS"}
    BY DEF Repairable, IInv, TypeOK
  <2>2. \A q \in Recoveries : repaired[q] \intersect Repairable(r) = {}
    BY <2>1 DEF IInv, RepairedAreOut
  <2>3. TypeOK'
    <3>1. toRerun' \in [Recoveries -> SUBSET Automations]
      <4>1. {AutomationOf[t] : t \in picked[r]} \subseteq Automations
        BY DEF IInv, TypeOK
      <4>2. toRerun' = [toRerun EXCEPT ![r] = {AutomationOf[t] : t \in picked[r]}]
              \/ toRerun' = [toRerun EXCEPT ![r] = {}]
        BY <1>7 DEF Repair
      <4> QED
        BY <4>1, <4>2 DEF IInv, TypeOK
    <3>2. row' \in [Threads -> Row] /\ \A t \in Threads : row'[t].updated <= now
      BY <1>7 DEF Repair, IInv, TypeOK, Row, Status
    <3>3. alive \subseteq {t \in Threads : row'[t].status \in {"IN_PROGRESS", "PENDING_REVIEW"}}
      BY <1>7 DEF Repair, IInv, TypeOK, Row, Status
    <3>4. /\ repaired' \in [Recoveries -> SUBSET Threads]
          /\ \A q \in Recoveries : repaired'[q] \subseteq picked[q]
      BY <1>7 DEF Repair, Repairable, IInv, TypeOK
    <3> QED
      BY <1>7, <3>1, <3>2, <3>3, <3>4 DEF Repair, IInv, TypeOK
  <2>4. RepairedAreOut'
    BY <1>7, <2>1 DEF Repair, IInv, TypeOK, RepairedAreOut, Row, Status
  <2>5. RepairedOnce'
    BY <1>7, <2>2 DEF Repair, IInv, TypeOK, RepairedOnce
  <2> QED
    BY <2>3, <2>4, <2>5 DEF IInv
<1>8. ASSUME NEW r \in Recoveries, NEW a \in Automations, Rerun(r, a) PROVE IInv'
    BY <1>8 DEF Rerun, app, IInv, TypeOK, RepairedAreOut, RepairedOnce
<1>9. ASSUME NEW r \in Recoveries, End(r) PROVE IInv'
    BY <1>9 DEF End, app, IInv, TypeOK, RepairedAreOut, RepairedOnce
<1>10. ASSUME NEW r \in Recoveries, Kill(r) PROVE IInv'
    BY <1>10 DEF Kill, app, IInv, TypeOK, RepairedAreOut, RepairedOnce
<1>11. CASE UNCHANGED vars
    BY <1>11 DEF vars, app, recovery, IInv, TypeOK, RepairedAreOut, RepairedOnce
<1> QED
    BY <1>1, <1>2, <1>3, <1>4, <1>5, <1>6, <1>7, <1>8, <1>9, <1>10, <1>11
       DEF Next, AppStep, RecoveryStep

\* No two recoveries ever count the same row as repaired, however many run.
THEOREM RowsAreRepairedOnce == Spec => []RepairedOnce
<1>1. IInv => RepairedOnce
    BY DEF IInv
<1> QED
    BY InitIInv, NextIInv, <1>1, PTL DEF Spec

\* The variables keep their types, with rows never newer than the clock and
\* the app at work only on rows that have no result yet.
THEOREM RecoveryTypes == Spec => []TypeOK
<1>1. IInv => TypeOK
    BY DEF IInv
<1> QED
    BY InitIInv, NextIInv, <1>1, PTL DEF Spec

\* A result the app wrote is never overwritten by a recovery that had selected
\* the row before.
THEOREM ResultsAreNeverOverwritten == Spec => ResultsStay
<1> DEFINE Stays == \A t \in Threads : row[t].status = "FINISHED" => row'[t] = row[t]
<1>1. ASSUME IInv, [Next]_vars PROVE [Stays]_vars
  <2> SUFFICES ASSUME NEW t \in Threads, row[t].status = "FINISHED"
               PROVE row'[t] = row[t]
    OBVIOUS
  <2>1. t \notin alive
    BY <1>1 DEF IInv, TypeOK
  <2>2. CASE Tick
    BY <2>2 DEF Tick
  <2>3. ASSUME NEW u \in Threads, Start(u) \/ Beat(u) \/ Finish(u) \/ Stall(u)
        PROVE row'[t] = row[t]
    BY <1>1, <2>1, <2>3 DEF Start, Beat, Finish, Stall, Write, IInv, TypeOK
  <2>4. ASSUME NEW r \in Recoveries, Repair(r) PROVE row'[t] = row[t]
    BY <2>4 DEF Repair, Repairable
  <2>5. ASSUME NEW r \in Recoveries, Select(r) \/ End(r) \/ Kill(r)
        PROVE row'[t] = row[t]
    BY <2>5 DEF Select, End, Kill, app
  <2>6. ASSUME NEW r \in Recoveries, NEW a \in Automations, Rerun(r, a)
        PROVE row'[t] = row[t]
    BY <2>6 DEF Rerun, app
  <2>7. CASE UNCHANGED vars
    BY <2>7 DEF vars, app
  <2> QED
    BY <1>1, <2>2, <2>3, <2>4, <2>5, <2>6, <2>7 DEF Next, AppStep, RecoveryStep
<1> QED
    BY InitIInv, NextIInv, <1>1, PTL DEF Spec, ResultsStay
=============================================================================
