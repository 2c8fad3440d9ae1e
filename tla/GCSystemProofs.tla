--------------------------- MODULE GCSystemProofs ---------------------------
(***************************************************************************)
(* Proofs about the repository around the collector.  The State.json files *)
(* first, for any problems, domains, run ids and number of processes of    *)
(* reconcile.py; then that the repository is one of those that DropSpec of *)
(* SeedGC allows, for any problems, seeds, imports and schedules.          *)
(***************************************************************************)
EXTENDS GCSystem, FiniteSetTheorems, TLAPS

-----------------------------------------------------------------------------
(* State.json. *)

\* What Put and Without do to the values of a partial function.
LEMMA PutKeeps ==
    ASSUME NEW S, NEW f, \A y \in DOMAIN f : f[y] \in S, NEW x, NEW v \in S
    PROVE  \A y \in DOMAIN Put(f, x, v) : Put(f, x, v)[y] \in S
BY DEF Put

LEMMA WithoutKeeps ==
    ASSUME NEW S, NEW f, \A y \in DOMAIN f : f[y] \in S, NEW x
    PROVE  \A y \in DOMAIN Without(f, x) : Without(f, x)[y] \in S
BY DEF Without

-----------------------------------------------------------------------------
(* Types. *)

StatesTypeOK ==
    /\ DOMAIN problem \subseteq Problems
    /\ \A p \in DOMAIN problem : problem[p] \in ProblemState
    /\ torn \subseteq Problems
    /\ \A r \in DOMAIN job : job[r] \in Job

LEMMA LoadedType ==
    ASSUME StatesTypeOK, NEW p \in Problems
    PROVE  Loaded(p) \in ProblemState
BY UnknownAssumption DEF StatesTypeOK, Loaded, Fresh, ProblemState, Statuses

LEMMA ReconciledType ==
    ASSUME NEW st \in ProblemState, NEW run \in Nat, NEW reported \in ReportStatuses
    PROVE  Reconciled(st, run, reported) \in ProblemState
<1>1. (st.everSucceeded \/ reported = "SUCCESS") \in BOOLEAN
  OBVIOUS
<1>2. /\ st.attempts + 1 \in Nat
      /\ (IF reported = "SUCCESS" THEN st.success + 1 ELSE st.success) \in Nat
      /\ (IF reported = "TRIAGED" THEN st.triaged + 1 ELSE st.triaged) \in Nat
      /\ reported \in Statuses
  BY DEF ProblemState, ReportStatuses, Statuses
<1> DEFINE ever == st.everSucceeded \/ reported = "SUCCESS"
<1>3. Reconciled(st, run, reported) =
        [status |-> reported, everSucceeded |-> ever, domain |-> st.domain,
         attempts |-> st.attempts + 1,
         success |-> IF reported = "SUCCESS" THEN st.success + 1 ELSE st.success,
         triaged |-> IF reported = "TRIAGED" THEN st.triaged + 1 ELSE st.triaged,
         lastRun |-> run]
  BY DEF Reconciled
<1>4. ever \in BOOLEAN
  BY <1>1
<1> HIDE DEF ever
<1> QED
  BY <1>2, <1>3, <1>4 DEF ProblemState

LEMMA InitTypes == StatesInit => StatesTypeOK
BY DEF StatesInit, StatesTypeOK, Fresh, ProblemState, Statuses

LEMMA StepTypes == StatesTypeOK /\ [StatesNext]_stateVars => StatesTypeOK'
<1> SUFFICES ASSUME StatesTypeOK, [StatesNext]_stateVars PROVE StatesTypeOK'
  OBVIOUS
<1>1. ASSUME NEW r \in Reconcilers, NEW p \in Problems, ReconcileLoad(r, p)
      PROVE  StatesTypeOK'
  <2>1. PICK run \in RunIds[p], reported \in ReportStatuses :
            job' = Put(job, r, [slug |-> p, opened |-> FALSE,
                                next |-> Reconciled(Loaded(p), run, reported)])
    BY <1>1 DEF ReconcileLoad
  <2>2. run \in Nat
    BY RunIdsAssumption
  <2>3. Reconciled(Loaded(p), run, reported) \in ProblemState
    BY <2>2, LoadedType, ReconciledType
  <2>4. \A q \in DOMAIN job' : job'[q] \in Job
    <3>1. [slug |-> p, opened |-> FALSE,
           next |-> Reconciled(Loaded(p), run, reported)] \in Job
      BY <2>3 DEF Job
    <3> QED
      BY <2>1, <3>1, PutKeeps DEF StatesTypeOK
  <2> QED
    BY <1>1, <2>4 DEF ReconcileLoad, StatesTypeOK
<1>2. ASSUME NEW r \in Reconcilers, ReconcileOpen(r) PROVE StatesTypeOK'
  <2>1. job[r] \in Job
    BY <1>2 DEF ReconcileOpen, StatesTypeOK
  <2>2. /\ DOMAIN problem' \subseteq Problems
        /\ \A p \in DOMAIN problem' : problem'[p] \in ProblemState
    <3>1. problem' = Without(problem, job[r].slug)
      BY <1>2 DEF ReconcileOpen
    <3>2. DOMAIN problem' \subseteq Problems
      BY <3>1 DEF StatesTypeOK, Without
    <3>3. \A p \in DOMAIN problem' : problem'[p] \in ProblemState
      BY <3>1, WithoutKeeps DEF StatesTypeOK
    <3> QED
      BY <3>2, <3>3
  <2>3. \A q \in DOMAIN job' : job'[q] \in Job
    BY <1>2, <2>1 DEF ReconcileOpen, StatesTypeOK, Job
  <2> QED
    BY <1>2, <2>1, <2>2, <2>3 DEF ReconcileOpen, StatesTypeOK, Job
<1>3. ASSUME NEW r \in Reconcilers, ReconcileWrite(r) PROVE StatesTypeOK'
  <2>1. job[r] \in Job
    BY <1>3 DEF ReconcileWrite, StatesTypeOK
  <2>2. /\ DOMAIN problem' \subseteq Problems
        /\ \A p \in DOMAIN problem' : problem'[p] \in ProblemState
    <3>1. job[r].slug \in Problems /\ job[r].next \in ProblemState
      BY <2>1 DEF Job
    <3>2. \/ problem' = Put(problem, job[r].slug, job[r].next)
          \/ problem' = Without(problem, job[r].slug)
      BY <1>3 DEF ReconcileWrite
    <3>3. DOMAIN problem' \subseteq Problems
      BY <3>1, <3>2 DEF StatesTypeOK, Put, Without
    <3>4. ASSUME problem' = Put(problem, job[r].slug, job[r].next)
          PROVE  \A p \in DOMAIN problem' : problem'[p] \in ProblemState
      BY <3>1, <3>4, PutKeeps DEF StatesTypeOK
    <3>5. ASSUME problem' = Without(problem, job[r].slug)
          PROVE  \A p \in DOMAIN problem' : problem'[p] \in ProblemState
      BY <3>5, WithoutKeeps DEF StatesTypeOK
    <3> QED
      BY <3>2, <3>3, <3>4, <3>5
  <2>3. \A q \in DOMAIN job' : job'[q] \in Job
    BY <1>3, WithoutKeeps DEF ReconcileWrite, StatesTypeOK
  <2>4. torn' \subseteq Problems
    BY <1>3, <2>1 DEF ReconcileWrite, StatesTypeOK, Job
  <2> QED
    BY <2>2, <2>3, <2>4 DEF StatesTypeOK
<1>4. ASSUME NEW r \in Reconcilers, ReconcileKilled(r) PROVE StatesTypeOK'
  BY <1>4, WithoutKeeps DEF ReconcileKilled, StatesTypeOK
<1>5. ASSUME NEW p \in Problems, SetStatus(p) PROVE StatesTypeOK'
  BY <1>5 DEF SetStatus, StatesTypeOK, ProblemState, Statuses
<1>6. CASE UNCHANGED stateVars
  BY <1>6 DEF stateVars, StatesTypeOK
<1> QED
  BY <1>1, <1>2, <1>3, <1>4, <1>5, <1>6 DEF StatesNext

\* State.json and the jobs keep their types, overlapping or not.
THEOREM StateTypes == StatesSpec => []StatesTypeOK
<1> QED
  BY InitTypes, StepTypes, PTL DEF StatesSpec

-----------------------------------------------------------------------------
(* The counters, overlapping or not. *)

Agree(st) ==
    /\ st.attempts = st.success + st.triaged
    /\ st.everSucceeded <=> st.success > 0

\* What is written was computed from a state whose counters agree.
CountersInv ==
    /\ \A p \in DOMAIN problem : Agree(problem[p])
    /\ \A r \in DOMAIN job : Agree(job[r].next)

LEMMA FreshAgrees ==
    ASSUME NEW status, NEW d
    PROVE  Agree(Fresh(status, d))
BY DEF Fresh, Agree

LEMMA ReconciledAgrees ==
    ASSUME NEW st \in ProblemState, Agree(st), NEW run, NEW reported \in ReportStatuses
    PROVE  Agree(Reconciled(st, run, reported))
<1>1. /\ st.attempts \in Nat /\ st.success \in Nat /\ st.triaged \in Nat
      /\ reported = "SUCCESS" \/ reported = "TRIAGED"
  BY DEF ProblemState, ReportStatuses
<1> DEFINE n == Reconciled(st, run, reported)
<1>2. /\ n.attempts = st.attempts + 1
      /\ n.success = IF reported = "SUCCESS" THEN st.success + 1 ELSE st.success
      /\ n.triaged = IF reported = "TRIAGED" THEN st.triaged + 1 ELSE st.triaged
      /\ n.everSucceeded <=> st.everSucceeded \/ reported = "SUCCESS"
  BY DEF Reconciled
<1>3. n.attempts = n.success + n.triaged
  <2>1. CASE reported = "SUCCESS"
    BY <1>1, <1>2, <2>1 DEF Agree
  <2>2. CASE reported = "TRIAGED"
    BY <1>1, <1>2, <2>2 DEF Agree
  <2> QED
    BY <1>1, <2>1, <2>2
<1>4. n.everSucceeded <=> n.success > 0
  <2>1. CASE reported = "SUCCESS"
    BY <1>1, <1>2, <2>1
  <2>2. CASE reported = "TRIAGED"
    BY <1>1, <1>2, <2>2 DEF Agree
  <2> QED
    BY <1>1, <2>1, <2>2
<1> QED
  BY <1>3, <1>4 DEF Agree

LEMMA InitCounters == StatesInit => CountersInv
BY FreshAgrees DEF StatesInit, CountersInv

LEMMA StepCounters ==
    StatesTypeOK /\ CountersInv /\ [StatesNext]_stateVars => CountersInv'
<1> SUFFICES ASSUME StatesTypeOK, CountersInv, [StatesNext]_stateVars
             PROVE  CountersInv'
  OBVIOUS
<1>1. ASSUME NEW r \in Reconcilers, NEW p \in Problems, ReconcileLoad(r, p)
      PROVE  CountersInv'
  <2>1. PICK run \in RunIds[p], reported \in ReportStatuses :
            job' = Put(job, r, [slug |-> p, opened |-> FALSE,
                                next |-> Reconciled(Loaded(p), run, reported)])
    BY <1>1 DEF ReconcileLoad
  <2>2. Agree(Loaded(p))
    BY FreshAgrees DEF Loaded, CountersInv
  <2>3. Agree(Reconciled(Loaded(p), run, reported))
    BY <2>2, LoadedType, ReconciledAgrees
  <2>4. \A q \in DOMAIN job' : Agree(job'[q].next)
    BY <2>1, <2>3 DEF CountersInv, Put
  <2> QED
    BY <1>1, <2>4 DEF ReconcileLoad, CountersInv
<1>2. ASSUME NEW r \in Reconcilers, ReconcileOpen(r) PROVE CountersInv'
  <2>1. \A p \in DOMAIN problem' : Agree(problem'[p])
    BY <1>2 DEF ReconcileOpen, CountersInv, Without
  <2>2. \A q \in DOMAIN job' : Agree(job'[q].next)
    <3>1. job[r] \in Job
      BY <1>2 DEF ReconcileOpen, StatesTypeOK
    <3> QED
      BY <1>2, <3>1 DEF ReconcileOpen, CountersInv, Job
  <2> QED
    BY <2>1, <2>2 DEF CountersInv
<1>3. ASSUME NEW r \in Reconcilers, ReconcileWrite(r) PROVE CountersInv'
  <2>1. r \in DOMAIN job /\ Agree(job[r].next)
    BY <1>3 DEF ReconcileWrite, CountersInv
  <2>2. \A p \in DOMAIN problem' : Agree(problem'[p])
    <3>1. CASE problem' = Put(problem, job[r].slug, job[r].next)
      BY <2>1, <3>1 DEF CountersInv, Put
    <3>2. CASE problem' = Without(problem, job[r].slug)
      BY <3>2 DEF CountersInv, Without
    <3> QED
      BY <1>3, <3>1, <3>2 DEF ReconcileWrite
  <2>3. \A q \in DOMAIN job' : Agree(job'[q].next)
    BY <1>3 DEF ReconcileWrite, CountersInv, Without
  <2> QED
    BY <2>2, <2>3 DEF CountersInv
<1>4. ASSUME NEW r \in Reconcilers, ReconcileKilled(r) PROVE CountersInv'
  BY <1>4 DEF ReconcileKilled, CountersInv, Without
<1>5. ASSUME NEW p \in Problems, SetStatus(p) PROVE CountersInv'
  <2>1. problem[p] \in ProblemState /\ Agree(problem[p])
    BY <1>5 DEF SetStatus, StatesTypeOK, CountersInv
  <2>2. PICK status : problem' = [problem EXCEPT ![p].status = status]
    BY <1>5 DEF SetStatus
  <2>3. \A q \in DOMAIN problem' :
            /\ problem'[q].attempts = problem[q].attempts
            /\ problem'[q].success = problem[q].success
            /\ problem'[q].triaged = problem[q].triaged
            /\ problem'[q].everSucceeded = problem[q].everSucceeded
    BY <2>1, <2>2 DEF StatesTypeOK, ProblemState
  <2>4. \A q \in DOMAIN problem' : Agree(problem'[q])
    BY <2>2, <2>3 DEF CountersInv, Agree
  <2> QED
    BY <1>5, <2>4 DEF SetStatus, CountersInv
<1>6. CASE UNCHANGED stateVars
  BY <1>6 DEF stateVars, CountersInv
<1> QED
  BY <1>1, <1>2, <1>3, <1>4, <1>5, <1>6 DEF StatesNext

\* Counters agree in every State.json that parses, however many processes of
\* reconcile.py overlap or are killed.
THEOREM CountersAlwaysAgree == StatesSpec => []CountersAgree
<1>1. CountersInv => CountersAgree
  BY DEF CountersInv, CountersAgree, Agree
<1> QED
  BY <1>1, InitTypes, StepTypes, InitCounters, StepCounters, PTL DEF StatesSpec

-----------------------------------------------------------------------------
(* A success is for good, where one report of a problem is reconciled at a  *)
(* time.                                                                    *)

\* A process works on what is in the file still, or has emptied it; it is alone
\* with its problem, and what it will write forgets no success.
OneAtATime ==
    /\ \A r, q \in DOMAIN job : job[r].slug = job[q].slug => r = q
    /\ torn \intersect DOMAIN problem = {}
    /\ \A r \in DOMAIN job :
          /\ job[r].opened <=> job[r].slug \in torn
          /\ job[r].slug \in DOMAIN problem /\ problem[job[r].slug].everSucceeded
                => job[r].next.everSucceeded

\* The success of p is recorded wherever its state is.
Remembered(p) ==
    /\ p \in DOMAIN problem \union torn
    /\ p \in DOMAIN problem => problem[p].everSucceeded
    /\ \A r \in DOMAIN job : job[r].slug = p => job[r].next.everSucceeded

LEMMA ReconciledRemembers ==
    ASSUME NEW st, NEW run, NEW reported, st.everSucceeded
    PROVE  Reconciled(st, run, reported).everSucceeded
BY DEF Reconciled

LEMMA InitAlone == StatesInit => OneAtATime
BY DEF StatesInit, OneAtATime

LEMMA StepAlone ==
    ASSUME ~Overlapping
    PROVE  StatesTypeOK /\ OneAtATime /\ [StatesNext]_stateVars => OneAtATime'
<1> SUFFICES ASSUME StatesTypeOK, OneAtATime, [StatesNext]_stateVars
             PROVE  OneAtATime'
  OBVIOUS
<1>1. ASSUME NEW r \in Reconcilers, NEW p \in Problems, ReconcileLoad(r, p)
      PROVE  OneAtATime'
  <2>1. PICK run \in RunIds[p], reported \in ReportStatuses :
            job' = Put(job, r, [slug |-> p, opened |-> FALSE,
                                next |-> Reconciled(Loaded(p), run, reported)])
    BY <1>1 DEF ReconcileLoad
  <2>2. /\ p \notin torn /\ problem' = problem /\ torn' = torn
        /\ r \notin DOMAIN job
        /\ \A q \in DOMAIN job : job[q].slug # p
    BY <1>1 DEF ReconcileLoad, WorkedOn
  <2>3. /\ DOMAIN job' = DOMAIN job \union {r}
        /\ job'[r].slug = p /\ ~job'[r].opened
        /\ job'[r].next = Reconciled(Loaded(p), run, reported)
        /\ \A q \in DOMAIN job : job'[q] = job[q]
    BY <2>1, <2>2 DEF Put
  <2>4. p \in DOMAIN problem /\ problem[p].everSucceeded
          => job'[r].next.everSucceeded
    <3> SUFFICES ASSUME p \in DOMAIN problem, problem[p].everSucceeded
                 PROVE  job'[r].next.everSucceeded
      OBVIOUS
    <3>1. Loaded(p).everSucceeded
      BY DEF Loaded
    <3>2. Reconciled(Loaded(p), run, reported).everSucceeded
      BY <3>1, ReconciledRemembers
    <3> QED
      BY <2>3, <3>2
  <2> QED
    BY <2>2, <2>3, <2>4 DEF OneAtATime
<1>2. ASSUME NEW r \in Reconcilers, ReconcileOpen(r) PROVE OneAtATime'
  <2>1. r \in DOMAIN job /\ job[r] \in Job
    BY <1>2 DEF ReconcileOpen, StatesTypeOK
  <2>2. /\ DOMAIN job' = DOMAIN job
        /\ \A q \in DOMAIN job : /\ job'[q].slug = job[q].slug
                                 /\ job'[q].next = job[q].next
                                 /\ q # r => job'[q].opened = job[q].opened
        /\ job'[r].opened
    BY <1>2, <2>1 DEF ReconcileOpen, Job
  <2>3. /\ DOMAIN problem' = DOMAIN problem \ {job[r].slug}
        /\ \A p \in DOMAIN problem' : problem'[p] = problem[p]
        /\ torn' = torn \union {job[r].slug}
    BY <1>2 DEF ReconcileOpen, Without
  <2> QED
    BY <2>1, <2>2, <2>3 DEF OneAtATime
<1>3. ASSUME NEW r \in Reconcilers, ReconcileWrite(r) PROVE OneAtATime'
  <2>1. /\ r \in DOMAIN job /\ job[r].opened
        /\ job[r].slug \in torn
    BY <1>3 DEF ReconcileWrite, OneAtATime
  <2>2. /\ problem' = Put(problem, job[r].slug, job[r].next)
        /\ torn' = torn \ {job[r].slug}
        /\ job' = Without(job, r)
    BY <1>3, <2>1 DEF ReconcileWrite
  <2>3. /\ DOMAIN problem' = DOMAIN problem \union {job[r].slug}
        /\ \A p \in DOMAIN problem \ {job[r].slug} : problem'[p] = problem[p]
        /\ DOMAIN job' = DOMAIN job \ {r}
        /\ \A q \in DOMAIN job' : job'[q] = job[q]
    BY <2>2 DEF Put, Without
  <2>4. \A q \in DOMAIN job' : job[q].slug # job[r].slug
    BY <2>1, <2>3 DEF OneAtATime
  <2> QED
    BY <2>2, <2>3, <2>4 DEF OneAtATime
<1>4. ASSUME NEW r \in Reconcilers, ReconcileKilled(r) PROVE OneAtATime'
  BY <1>4 DEF ReconcileKilled, OneAtATime, Without
<1>5. ASSUME NEW p \in Problems, SetStatus(p) PROVE OneAtATime'
  <2>1. PICK status : problem' = [problem EXCEPT ![p].status = status]
    BY <1>5 DEF SetStatus
  <2>2. /\ DOMAIN problem' = DOMAIN problem /\ torn' = torn /\ job' = job
        /\ \A q \in DOMAIN problem :
              problem'[q].everSucceeded = problem[q].everSucceeded
    BY <1>5, <2>1 DEF SetStatus, StatesTypeOK, ProblemState
  <2> QED
    BY <2>2 DEF OneAtATime
<1>6. CASE UNCHANGED stateVars
  BY <1>6 DEF stateVars, OneAtATime
<1> QED
  BY <1>1, <1>2, <1>3, <1>4, <1>5, <1>6 DEF StatesNext

LEMMA StepRemembers ==
    ASSUME ~Overlapping, NEW p \in Problems
    PROVE  StatesTypeOK /\ OneAtATime /\ Remembered(p) /\ [StatesNext]_stateVars
             => Remembered(p)'
<1> SUFFICES ASSUME StatesTypeOK, OneAtATime, Remembered(p), [StatesNext]_stateVars
             PROVE  Remembered(p)'
  OBVIOUS
<1>1. ASSUME NEW r \in Reconcilers, NEW q \in Problems, ReconcileLoad(r, q)
      PROVE  Remembered(p)'
  <2>1. PICK run \in RunIds[q], reported \in ReportStatuses :
            job' = Put(job, r, [slug |-> q, opened |-> FALSE,
                                next |-> Reconciled(Loaded(q), run, reported)])
    BY <1>1 DEF ReconcileLoad
  <2>2. /\ q \notin torn /\ problem' = problem /\ torn' = torn
        /\ r \notin DOMAIN job
    BY <1>1 DEF ReconcileLoad
  <2>3. /\ DOMAIN job' = DOMAIN job \union {r}
        /\ job'[r].slug = q
        /\ job'[r].next = Reconciled(Loaded(q), run, reported)
        /\ \A o \in DOMAIN job : job'[o] = job[o]
    BY <2>1, <2>2 DEF Put
  <2>4. q = p => job'[r].next.everSucceeded
    <3> SUFFICES ASSUME q = p PROVE job'[r].next.everSucceeded
      OBVIOUS
    <3>1. Loaded(p).everSucceeded
      BY <2>2 DEF Loaded, Remembered
    <3>2. Reconciled(Loaded(p), run, reported).everSucceeded
      BY <3>1, ReconciledRemembers
    <3> QED
      BY <2>3, <3>2
  <2> QED
    BY <2>2, <2>3, <2>4 DEF Remembered
<1>2. ASSUME NEW r \in Reconcilers, ReconcileOpen(r) PROVE Remembered(p)'
  <2>1. r \in DOMAIN job /\ job[r] \in Job
    BY <1>2 DEF ReconcileOpen, StatesTypeOK
  <2>2. /\ DOMAIN job' = DOMAIN job
        /\ \A q \in DOMAIN job : /\ job'[q].slug = job[q].slug
                                 /\ job'[q].next = job[q].next
    BY <1>2, <2>1 DEF ReconcileOpen, Job
  <2>3. /\ DOMAIN problem' = DOMAIN problem \ {job[r].slug}
        /\ \A q \in DOMAIN problem' : problem'[q] = problem[q]
        /\ torn' = torn \union {job[r].slug}
    BY <1>2 DEF ReconcileOpen, Without
  <2> QED
    BY <2>2, <2>3 DEF Remembered
<1>3. ASSUME NEW r \in Reconcilers, ReconcileWrite(r) PROVE Remembered(p)'
  <2>1. r \in DOMAIN job /\ job[r].slug \in torn
    BY <1>3 DEF ReconcileWrite, OneAtATime
  <2>2. /\ problem' = Put(problem, job[r].slug, job[r].next)
        /\ torn' = torn \ {job[r].slug}
        /\ job' = Without(job, r)
    BY <1>3, <2>1 DEF ReconcileWrite
  <2>3. /\ DOMAIN problem' = DOMAIN problem \union {job[r].slug}
        /\ problem'[job[r].slug] = job[r].next
        /\ \A q \in DOMAIN problem \ {job[r].slug} : problem'[q] = problem[q]
        /\ DOMAIN job' = DOMAIN job \ {r}
        /\ \A q \in DOMAIN job' : job'[q] = job[q]
    BY <2>2 DEF Put, Without
  <2> QED
    BY <2>1, <2>2, <2>3 DEF Remembered
<1>4. ASSUME NEW r \in Reconcilers, ReconcileKilled(r) PROVE Remembered(p)'
  BY <1>4 DEF ReconcileKilled, Remembered, Without
<1>5. ASSUME NEW q \in Problems, SetStatus(q) PROVE Remembered(p)'
  <2>1. PICK status : problem' = [problem EXCEPT ![q].status = status]
    BY <1>5 DEF SetStatus
  <2>2. /\ DOMAIN problem' = DOMAIN problem /\ torn' = torn /\ job' = job
        /\ \A o \in DOMAIN problem :
              problem'[o].everSucceeded = problem[o].everSucceeded
    BY <1>5, <2>1 DEF SetStatus, StatesTypeOK, ProblemState
  <2> QED
    BY <2>2 DEF Remembered
<1>6. CASE UNCHANGED stateVars
  BY <1>6 DEF stateVars, Remembered
<1> QED
  BY <1>1, <1>2, <1>3, <1>4, <1>5, <1>6 DEF StatesNext

\* A success is never forgotten, in any number of problems and processes, as long
\* as no two processes work on one problem at a time.
THEOREM SuccessIsNeverForgotten ==
    ASSUME ~Overlapping
    PROVE  StatesSpec => SuccessIsForGood
<1> SUFFICES ASSUME NEW p \in Problems
             PROVE  StatesSpec =>
                [](p \in DOMAIN problem /\ problem[p].everSucceeded
                   => [](p \in DOMAIN problem => problem[p].everSucceeded))
  BY DEF SuccessIsForGood
<1> DEFINE Known == p \in DOMAIN problem => problem[p].everSucceeded
<1>1. OneAtATime /\ p \in DOMAIN problem /\ problem[p].everSucceeded => Remembered(p)
  BY DEF OneAtATime, Remembered
<1>2. Remembered(p) => Known
  BY DEF Remembered
<1>3. StatesTypeOK /\ OneAtATime /\ Remembered(p) /\ [StatesNext]_stateVars
        => Remembered(p)'
  BY StepRemembers
<1>4. StatesTypeOK /\ OneAtATime /\ [StatesNext]_stateVars => OneAtATime'
  BY StepAlone
<1> QED
  BY <1>1, <1>2, <1>3, <1>4, InitTypes, StepTypes, InitAlone, PTL DEF StatesSpec

-----------------------------------------------------------------------------
(* The collector in the repository. *)

\* A clock is never beyond the number of problems.
LEMMA ClocksType ==
    StatesTypeOK => Clocks \in [Domains -> 0..Cardinality(Problems)]
<1> SUFFICES ASSUME StatesTypeOK, NEW d \in Domains
             PROVE  DomainClock(problem, d) \in 0..Cardinality(Problems)
  BY DEF Clocks
<1> DEFINE succeeded == {p \in DOMAIN problem :
                            problem[p].domain = d /\ problem[p].everSucceeded}
<1>1. succeeded \subseteq Problems
  BY DEF StatesTypeOK
<1>2. /\ IsFiniteSet(succeeded)
      /\ Cardinality(succeeded) <= Cardinality(Problems)
  BY <1>1, ProblemsAssumption, FS_Subset
<1>3. Cardinality(succeeded) \in Nat /\ Cardinality(Problems) \in Nat
  BY <1>2, ProblemsAssumption, FS_CardinalityType
<1> QED
  BY <1>2, <1>3 DEF DomainClock

-----------------------------------------------------------------------------
(* SeedGCProofs at the clocks and views of the system.  Its operators and   *)
(* those of Collector are two instances of the same definitions.            *)

P == INSTANCE SeedGCProofs
         WITH clock <- Clocks, view <- Views, MaxClock <- Cardinality(Problems),
              plan <- <<>>, writing <- <<>>, Plans <- {}, Maintainers <- {}, Reaching <- {}

LEMMA SameReads ==
    ASSUME NEW r, NEW clk, NEW v
    PROVE  /\ P!Used(v) = Collector!Used(v)
           /\ P!WithinWindow(r, clk) = Collector!WithinWindow(r, clk)
           /\ P!InRevivalGrace(r, clk) = Collector!InRevivalGrace(r, clk)
           /\ P!Age(r, clk) = Collector!Age(r, clk)
           /\ P!LastUsedAt(r, clk) = Collector!LastUsedAt(r, clk)
           /\ P!Staleness(r, clk) = Collector!Staleness(r, clk)
           /\ \A H : P!IndependentHits(H) = Collector!IndependentHits(H)
BY DEF P!Used, Collector!Used, P!WithinWindow, Collector!WithinWindow, P!InRevivalGrace,
       Collector!InRevivalGrace, P!Age, Collector!Age, P!LastUsedAt,
       Collector!LastUsedAt, P!Staleness, Collector!Staleness, P!IntroducedAt,
       Collector!IntroducedAt, P!Clamp, Collector!Clamp, P!Absent, Collector!Absent,
       P!IndependentHits, Collector!IndependentHits

LEMMA SameConditions ==
    ASSUME NEW r, NEW clk, NEW v
    PROVE  /\ P!Revives(r, v) = Collector!Revives(r, v)
           /\ P!FirstStage(r, clk, v) = Collector!FirstStage(r, clk, v)
           /\ P!SecondStage(r, clk, v) = Collector!SecondStage(r, clk, v)
           /\ P!Confirms(r, clk, v) = Collector!Confirms(r, clk, v)
           /\ P!StaleActive(r, clk, v) = Collector!StaleActive(r, clk, v)
           /\ P!StaleQuarantined(r, clk, v) = Collector!StaleQuarantined(r, clk, v)
BY SameReads
   DEF P!Revives, Collector!Revives, P!FirstStage, Collector!FirstStage, P!SecondStage,
       Collector!SecondStage, P!StagedRevival, Collector!StagedRevival, P!Confirms,
       Collector!Confirms, P!StaleActive, Collector!StaleActive, P!StaleQuarantined,
       Collector!StaleQuarantined, P!Collectable, Collector!Collectable

LEMMA SameDecision ==
    ASSUME NEW r, NEW clk, NEW v
    PROVE  /\ P!Decide(r, clk, v) = Collector!Decide(r, clk, v)
           /\ P!NewLastUsed(r, clk, v) = Collector!NewLastUsed(r, clk, v)
BY SameReads, SameConditions, Zenon
   DEF P!Decide, Collector!Decide, P!NewLastUsed, Collector!NewLastUsed, P!Absent,
       Collector!Absent

LEMMA SameEntry ==
    ASSUME NEW r, NEW clk, NEW v
    PROVE  P!Entry(r, clk, v) = Collector!Entry(r, clk, v)
BY SameConditions, SameDecision, Zenon DEF P!Entry, Collector!Entry, P!Absent, Collector!Absent

LEMMA SameApply ==
    ASSUME NEW r, NEW e
    PROVE  P!ApplyEntry(r, e) = Collector!ApplyEntry(r, e)
BY Zenon
   DEF P!ApplyEntry, Collector!ApplyEntry, P!Set, Collector!Set, P!NewState,
       Collector!NewState, P!Absent, Collector!Absent

LEMMA SameRound ==
    ASSUME NEW s
    PROVE  P!AfterRound(s) = Collector!AfterRound(s)
BY SameEntry, SameApply
   DEF P!AfterRound, Collector!AfterRound, P!Round, Collector!Round, P!Clk,
       Collector!Clk

-----------------------------------------------------------------------------
(* The repository is an environment of DropSpec. *)

\* What reaches a seed is a view of SeedGC.
LEMMA ViewsType == StatesTypeOK => Views \in [Seeds -> P!View]
<1> SUFFICES ASSUME StatesTypeOK, NEW s \in Seeds
             PROVE  [pinned |-> s \in pinned, toolbox |-> s \in ReachableFrom(ToolboxRoots),
                     hits |-> Hits(s)] \in P!View
  BY DEF Views
<1>1. Hits(s) \in SUBSET Problems
  BY DEF Hits, Selected, StatesTypeOK
<1>2. (s \in pinned) \in BOOLEAN /\ (s \in ReachableFrom(ToolboxRoots)) \in BOOLEAN
  OBVIOUS
<1> QED
  BY <1>1, <1>2 DEF P!View

\* What the collector reads has the types of SeedGC.
ReadsTyped ==
    /\ Clocks \in [Domains -> 0..Cardinality(Problems)]
    /\ Views \in [Seeds -> P!View]

LEMMA ReadsAreTyped == StatesTypeOK => ReadsTyped
BY ClocksType, ViewsType DEF ReadsTyped

LEMMA InitImplements == Init => P!Init
<1> SUFFICES ASSUME Init PROVE P!Init
  OBVIOUS
<1>1. StatesTypeOK
  BY InitTypes DEF Init
<1>2. ASSUME NEW d \in Domains PROVE DomainClock(problem, d) = 0
  <2>1. {p \in DOMAIN problem : problem[p].domain = d /\ problem[p].everSucceeded} = {}
    BY DEF Init, StatesInit, Fresh
  <2> QED
    BY <2>1, FS_EmptySet DEF DomainClock
<1>3. Clocks = [d \in Domains |-> 0]
  BY <1>2 DEF Clocks
<1>4. P!NoRecord = Collector!NoRecord
  BY DEF P!NoRecord, Collector!NoRecord, P!Absent, Collector!Absent
<1> QED
  BY <1>1, <1>3, <1>4, ViewsType DEF P!Init, Init

LEMMA StepImplements ==
    ReadsTyped' /\ [Next]_vars
      => [P!DropNext]_(P!vars)
<1> SUFFICES ASSUME ReadsTyped', [Next]_vars
             PROVE  [P!DropNext]_(P!vars)
  OBVIOUS
<1>1. Clocks' \in [Domains -> 0..Cardinality(Problems)] /\ Views' \in [Seeds -> P!View]
  BY DEF ReadsTyped
<1>2. CASE gc' = gc
  BY <1>1, <1>2 DEF P!DropNext, P!AnyRepositoryChange
<1>3. CASE Collect
  <2>1. Clocks' = Clocks
    BY <1>3 DEF Collect, stateVars, Clocks, DomainClock
  <2>2. Views' = Views
    BY <1>3 DEF Collect, stateVars, Views, Hits, Selected, MoreRecent, RootsKept,
                ReachableFrom, Reach
  <2> QED
    BY <1>3, <2>1, <2>2, SameRound DEF Collect, P!DropNext, P!Collect
<1> QED
  BY <1>2, <1>3 DEF Next, StatesChange, EditImports, EditPins, vars

\* The steps of the files are those of ProblemStates.
LEMMA SpecHasTypes == Spec => []StatesTypeOK
<1>1. Init => StatesTypeOK
  BY InitTypes DEF Init
<1>2. StatesTypeOK /\ [Next]_vars => StatesTypeOK'
  BY StepTypes DEF Next, StatesChange, EditImports, EditPins, Collect, vars, stateVars
<1> QED
  BY <1>1, <1>2, PTL DEF Spec

\* The repository is one of those that DropSpec of SeedGC allows, whatever
\* processes of reconcile.py do to the State.json meanwhile.
LEMMA SystemIsCollector == Spec => P!DropSpec
<1> QED
  BY InitImplements, StepImplements, SpecHasTypes, ReadsAreTyped, PTL DEF Spec, P!DropSpec

\* What SeedGCProofs assumes of its constants.
LEMMA CollectorConstants ==
    /\ {GraceNewSeed, QuarantineAfter, ArchiveAfter, RevivalGrace, RevivalPendingWindow}
          \subseteq Nat
    /\ RevivalPendingWindow < ArchiveAfter
    /\ DomainOf \in [Seeds -> Domains]
    /\ Cardinality(Problems) \in Nat
BY CollectorAssumption, ProblemsAssumption, FS_CardinalityType

\* However State.json files are read, torn, edited and written by overlapping
\* processes around the rounds, a revived seed is quarantined again only after the
\* whole quarantine threshold, if that is not 0.
THEOREM RevivalsAreSpaced ==
    ASSUME QuarantineAfter > 0
    PROVE  Spec => RevivalsSpaced
<1>1. P!DropSpec => P!RevivalSpacing
  BY CollectorConstants, P!DropRevivalsAreSpaced
<1>2. ASSUME [\A s \in Seeds :
                 gc[s].state = "active" /\ gc'[s].state = "quarantined"
                     /\ gc[s].lastRevival # P!Absent
                 => P!Clk(s) >= gc[s].lastRevival + QuarantineAfter]_(P!vars)
      PROVE  [\A s \in Seeds :
                 gc[s].state = "active" /\ gc'[s].state = "quarantined"
                     /\ gc[s].lastRevival # Collector!Absent
                 => Clocks[DomainOf[s]] >= gc[s].lastRevival + QuarantineAfter]_vars
  BY <1>2 DEF P!vars, P!Clk, P!Absent, Collector!Absent
<1> QED
  BY <1>1, <1>2, SystemIsCollector, PTL DEF P!RevivalSpacing, RevivalsSpaced

\* In the same system the rounds implement the patient life cycle of the seeds,
\* with what is in use computed from pins, imports and selected problems.
THEOREM SystemSweepsLikeLifecycle == Spec => SweepsLikeLifecycle
<1>1. P!DropSpec => P!ImplementsPatientLifecycle
  BY CollectorConstants, P!DropImplementsLifecycle
<1>2. P!Live = Live /\ P!Live' = Live'
  BY DEF P!Live, P!Used, Live, Views
<1>3. P!Lifecycle!Init => Lifecycle!Init
  BY <1>2 DEF P!Lifecycle!Init, Lifecycle!Init
<1>4. [P!Lifecycle!PatientSweep \/ P!Lifecycle!UseChanges]_(P!Lifecycle!vars)
        => [Lifecycle!PatientSweep \/ Lifecycle!UseChanges]_(Lifecycle!vars)
  BY <1>2 DEF P!Lifecycle!PatientSweep, P!Lifecycle!UseChanges, P!Lifecycle!vars,
              P!Lifecycle!Outcome, Lifecycle!PatientSweep, Lifecycle!UseChanges,
              Lifecycle!vars, Lifecycle!Outcome
<1> QED
  BY <1>1, <1>3, <1>4, SystemIsCollector, PTL
     DEF P!ImplementsPatientLifecycle, P!Lifecycle!PatientSpec,
         SweepsLikeLifecycle, Lifecycle!PatientSpec

-----------------------------------------------------------------------------
(* The last run of a domain and its imports. *)

\* The policy keeps a root of each kind of report at least, and slugs have an order.
KeepsReports ==
    /\ KSuccess \in Nat \ {0}
    /\ KTriaged \in Nat \ {0}
    /\ SlugOrder \in [Problems -> Nat]

\* p was reported last in its domain.
LastReported(p) ==
    /\ p \in DOMAIN problem
    /\ problem[p].status \in ReportStatuses
    /\ \A q \in DOMAIN problem \ {p} :
          problem[q].domain = problem[p].domain => MoreRecent(problem, p, q)

\* Of two problems one at most is the more recent, and none is so than itself.
LEMMA RecencyIsStrict ==
    ASSUME KeepsReports, StatesTypeOK, NEW p \in DOMAIN problem, NEW q \in DOMAIN problem
    PROVE  /\ MoreRecent(problem, p, q) => ~MoreRecent(problem, q, p)
           /\ ~MoreRecent(problem, p, p)
<1>1. /\ problem[p].lastRun \in Nat /\ problem[q].lastRun \in Nat
      /\ problem[p].attempts \in Nat /\ problem[q].attempts \in Nat
  BY DEF StatesTypeOK, ProblemState
<1>2. SlugOrder[p] \in Nat /\ SlugOrder[q] \in Nat
  BY DEF StatesTypeOK, KeepsReports
<1> QED
  BY <1>1, <1>2 DEF MoreRecent

\* The entry points of the last problem reported are roots.
LEMMA LastIsSelected ==
    ASSUME KeepsReports, StatesTypeOK, NEW p, LastReported(p)
    PROVE  p \in Selected(problem)
<1> DEFINE Before == {q \in DOMAIN problem :
                         /\ problem[q].domain = problem[p].domain
                         /\ problem[q].status = problem[p].status
                         /\ MoreRecent(problem, q, p)}
<1>1. Before = {}
  BY RecencyIsStrict DEF LastReported
<1>2. Cardinality(Before) = 0
  BY <1>1, FS_EmptySet
<1>3. RootsKept(problem[p].status) \in {KSuccess, KTriaged}
  <2>1. CASE problem[p].status = "SUCCESS"
    <3>1. RootsKept("SUCCESS") = KSuccess
      BY Zenon DEF RootsKept
    <3> QED
      BY <2>1, <3>1
  <2>2. CASE problem[p].status = "TRIAGED"
    <3>1. RootsKept("TRIAGED") = KTriaged
      BY Zenon DEF RootsKept
    <3> QED
      BY <2>2, <3>1
  <2> QED
    BY <2>1, <2>2 DEF LastReported, ReportStatuses
<1>4. Cardinality(Before) < RootsKept(problem[p].status)
  BY <1>2, <1>3 DEF KeepsReports
<1> QED
  BY <1>4 DEF Selected, LastReported

\* A round keeps an active seed that is in use where it is.
LEMMA RoundKeepsUsed ==
    ASSUME NEW r, NEW clk, NEW v, Collector!Used(v), r.state = "active"
    PROVE  Collector!Round(r, clk, v).state = "active"
<1>1. Collector!Decide(r, clk, v) \in {"activate", "meta"}
  <2>1. /\ ~Collector!FirstStage(r, clk, v)
        /\ ~Collector!StaleActive(r, clk, v)
        /\ ~Collector!StaleQuarantined(r, clk, v)
    BY DEF Collector!FirstStage, Collector!StagedRevival, Collector!StaleActive,
           Collector!StaleQuarantined, Collector!Collectable
  <2> QED
    BY <2>1, Zenon DEF Collector!Decide
<1>2. Collector!Round(r, clk, v).state
        = Collector!NewState(r.state, Collector!Decide(r, clk, v))
  BY DEF Collector!Round, Collector!ApplyEntry, Collector!Entry
<1>3. Collector!NewState("active", "activate") = "active"
  BY Zenon DEF Collector!NewState
<1>4. Collector!NewState("active", "meta") = "active"
  BY Zenon DEF Collector!NewState
<1> QED
  BY <1>1, <1>2, <1>3, <1>4

\* What the last problem reported in a domain imports, however indirectly, is not
\* moved down by a round, for any problems, imports, thresholds and numbers of
\* roots kept, whatever happens to the other State.json in between.
THEOREM LastRunNotCollected ==
    ASSUME KeepsReports
    PROVE  Spec => LastRunIsSafe
<1>1. StatesTypeOK /\ [Next]_vars
        => [\A p \in DOMAIN problem, s \in Seeds :
              /\ problem[p].status \in ReportStatuses
              /\ \A q \in DOMAIN problem \ {p} :
                    problem[q].domain = problem[p].domain => MoreRecent(problem, p, q)
              /\ s \in ReachableFrom(imports[p])
              /\ gc[s].state = "active"
              => gc'[s].state = "active"]_vars
  <2> SUFFICES ASSUME StatesTypeOK, [Next]_vars, NEW p \in DOMAIN problem, NEW s \in Seeds,
                      LastReported(p), s \in ReachableFrom(imports[p]),
                      gc[s].state = "active"
               PROVE  gc'[s].state = "active"
    BY DEF LastReported
  <2>1. CASE Collect
    <3>1. p \in Hits(s)
      BY LastIsSelected DEF Hits
    <3>2. Collector!Used(Views[s])
      BY <3>1 DEF Views, Collector!Used
    <3>3. gc'[s] = Collector!Round(gc[s], Collector!Clk(s), Views[s])
      BY <2>1 DEF Collect, Collector!AfterRound
    <3> QED
      BY <3>2, <3>3, RoundKeepsUsed
  <2>2. CASE gc' = gc
    BY <2>2
  <2> QED
    BY <2>1, <2>2 DEF Next, StatesChange, EditImports, EditPins, vars
<1> QED
  BY <1>1, SpecHasTypes, PTL DEF Spec, LastRunIsSafe
=============================================================================
