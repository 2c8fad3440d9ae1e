-------------------------- MODULE SharedCacheProofs --------------------------
(* Theorems of SharedCache, for any number of runners, packages and donors.  *)
EXTENDS SharedCache, TLAPS

\* As the runners are configured: each has a workspace of its own, apart from
\* the shared tree, and there are required packages.
OwnWorkspaces ==
    /\ \A q, r \in Runners : WorkspaceOf[q] = WorkspaceOf[r] => q = r
    /\ "shared" \notin Workspaces
    /\ Required # {}

Donating == {"clear_again", "link_shared", "linking_shared", "copy_shared", "copying_shared"}

\* From the look at the workspace to the end of its removal.
Refilling == {"clear_shared", "donor", "recheck", "clear_workspace"} \union Donating

Labels == {"idle", "reset", "look", "seed", "seeding", "mark"} \union Refilling

\* What holds of one runner: it tries a donor of the list, marks a workspace
\* that is there, and refills one that was not seeded.
RunnerInv(r) ==
    /\ pc[r] \in Labels
    /\ pc[r] \in Donating => donor[r] \in 1..Len(Donors)
    /\ pc[r] = "mark" => Root \in tree[WorkspaceOf[r]]
    /\ pc[r] \in Refilling => ~Seeded(WorkspaceOf[r])

IInv ==
    /\ TypeOK
    /\ pc \in [Runners -> Labels]
    /\ \A r \in Runners : RunnerInv(r)

-----------------------------------------------------------------------------
(* What directories hold. *)

LEMMA Places ==
    /\ "shared" \in Locations
    /\ \A r \in Runners : WorkspaceOf[r] \in Locations
    /\ \A i \in 1..Len(Donors) : Donors[i] \in Locations
    /\ Len(Donors) \in Nat
BY DonorsAssumption DEF Locations, Workspaces

\* The four kinds of things, and which of them are files.
LEMMA Kinds ==
    ASSUME NEW x \in Things
    PROVE  /\ x = Root \/ x = Marker \/ x \in Dirs
                \/ \E p \in Packages, o \in Locations : \E f \in Files[p] : x = <<p, f, o>>
           /\ IsFile(x) <=> \E p \in Packages, o \in Locations :
                               \E f \in Files[p] : x = <<p, f, o>>
<1>1. x = Root \/ x = Marker \/ x \in Dirs
        \/ \E p \in Packages, o \in Locations : \E f \in Files[p] : x = <<p, f, o>>
  BY DEF Things, Filled, FilesOf
<1>2. ASSUME NEW p \in Packages, NEW o \in Locations, NEW f \in Files[p], x = <<p, f, o>>
      PROVE  IsFile(x)
  BY <1>2 DEF IsFile
<1>3. CASE x = Root \/ x = Marker \/ x \in Dirs
  BY <1>3 DEF IsFile, Root, Marker, Dirs
<1> QED
  BY <1>1, <1>2, <1>3

\* A file that is copied to a place is a thing in the same package's directory.
LEMMA CopiedFile ==
    ASSUME NEW x \in Things, IsFile(x), NEW dst \in Locations
    PROVE  /\ <<x[1], x[2], dst>> \in Things
           /\ IsFile(<<x[1], x[2], dst>>)
           /\ <<x[1], x[2], dst>>[1] = x[1]
<1>1. PICK p \in Packages, o \in Locations : \E f \in Files[p] : x = <<p, f, o>>
  BY Kinds
<1>2. PICK f \in Files[p] : x = <<p, f, o>>
  BY <1>1
<1>3. x[1] = p /\ x[2] = f
  BY <1>2
<1>4. <<p, f, dst>> \in Things
  BY DEF Things, Filled, FilesOf
<1> QED
  BY <1>3, <1>4 DEF IsFile

LEMMA Fixtures ==
    /\ Root \in Things /\ Marker \in Things
    /\ ~IsFile(Root) /\ ~IsFile(Marker) /\ \A d \in Dirs : ~IsFile(d)
    /\ Root # Marker /\ Root \notin Dirs
<1>1. Root \in Things /\ Marker \in Things
  BY Places DEF Things, Filled
<1> QED
  BY <1>1 DEF IsFile, Root, Marker, Dirs

-----------------------------------------------------------------------------
(* What the steps on trees keep. *)

TreesOK ==
    /\ tree \in [Locations -> SUBSET Things]
    /\ \A l \in Locations : Rooted(tree[l])
    /\ todo \in [Runners -> SUBSET Things]

LEMMA RemoveKeepsTrees ==
    ASSUME TreesOK, NEW r \in Runners, NEW loc \in Locations, NEW x \in Things,
           RemoveOne(r, loc, x)
    PROVE  TreesOK'
<1>1. tree' \in [Locations -> SUBSET Things] /\ todo' \in [Runners -> SUBSET Things]
  BY DEF TreesOK, RemoveOne
<1>2. ASSUME Below(x, tree[loc]) = {}, NEW t, t = tree[loc] \ {x}
      PROVE  Rooted(t)
  <2>1. Rooted(tree[loc]) /\ tree[loc] \subseteq Things
    BY DEF TreesOK
  <2>2. CASE x = Root
    BY <1>2, <2>2 DEF Below, Rooted
  <2>3. CASE x # Root
    <3>1. t # {} => Root \in t
      BY <1>2, <2>1, <2>3 DEF Rooted
    <3>2. ASSUME NEW y \in t, IsFile(y), <<y[1]>> \notin t
          PROVE  FALSE
      <4>1. y \in tree[loc] /\ <<y[1]>> \in tree[loc] /\ x = <<y[1]>>
        BY <1>2, <2>1, <3>2 DEF Rooted
      <4>2. PICK p \in Packages, o \in Locations : \E f \in Files[p] : y = <<p, f, o>>
        BY <2>1, <3>2, <4>1, Kinds
      <4>3. y[1] = p
        BY <4>2
      <4>4. x \in Dirs /\ x[1] = y[1]
        BY <4>1, <4>3 DEF Dirs
      <4> QED
        BY <1>2, <2>3, <3>2, <4>1, <4>4 DEF Below
    <3> QED
      BY <3>1, <3>2 DEF Rooted
  <2> QED
    BY <2>2, <2>3
<1>3. \A l \in Locations : Rooted(tree'[l])
  BY <1>2 DEF TreesOK, RemoveOne
<1> QED
  BY <1>1, <1>3 DEF TreesOK

LEMMA StartCopyKeepsTrees ==
    ASSUME TreesOK, NEW r \in Runners, NEW src \in Locations, NEW dst \in Locations,
           NEW label, StartCopy(r, src, dst, label)
    PROVE  TreesOK'
<1>1. /\ tree' = [tree EXCEPT ![dst] = @ \union {Root}]
      /\ todo' = [todo EXCEPT ![r] = {x \in tree[src] : Len(x) = 1}]
  BY DEF StartCopy
<1>2. Rooted(tree[dst] \union {Root})
  BY Fixtures DEF TreesOK, Rooted
<1>3. tree[dst] \union {Root} \subseteq Things /\ {x \in tree[src] : Len(x) = 1} \subseteq Things
  BY Fixtures DEF TreesOK
<1> QED
  BY <1>1, <1>2, <1>3 DEF TreesOK

LEMMA CopyKeepsTrees ==
    ASSUME TreesOK, NEW r \in Runners, NEW src \in Locations, NEW dst \in Locations,
           NEW method, NEW x, CopyOne(r, src, dst, method, x)
    PROVE  TreesOK'
<1> DEFINE present == IsFile(x) /\ Holds(tree[dst], x[1], x[2])
           copied == IF ~IsFile(x) \/ method # "copy" THEN {x}
                     ELSE IF present THEN {} ELSE {<<x[1], x[2], dst>>}
           works == /\ x \in tree[src]
                    /\ x \notin tree[dst]
                    /\ IsFile(x) => <<x[1]>> \in tree[dst] /\ (present => method = "copy")
                    /\ method = "fails" => x \in Dirs
           files == IF works THEN {y \in Below(x, tree[src]) : IsFile(y)} ELSE {}
<1>1. /\ x \in todo[r]
      /\ todo' = [todo EXCEPT ![r] = (@ \ {x}) \union files]
      /\ tree' = IF works THEN [tree EXCEPT ![dst] = @ \union copied \union {Root}] ELSE tree
  BY DEF CopyOne
<1>2. x \in Things
  BY <1>1 DEF TreesOK
<1>3. files \subseteq Things
  BY DEF TreesOK, Below
<1>4. \A y \in copied : y \in Things /\ (IsFile(y) => IsFile(x) /\ y[1] = x[1])
  BY <1>2, CopiedFile
<1>5. works => \A y \in copied : IsFile(y) => <<y[1]>> \in tree[dst]
  BY <1>4
<1> HIDE DEF present, copied, works, files
<1>6. works => Rooted(tree[dst] \union copied \union {Root})
  BY <1>5, Fixtures DEF TreesOK, Rooted
<1>7. tree' \in [Locations -> SUBSET Things] /\ todo' \in [Runners -> SUBSET Things]
  BY <1>1, <1>3, <1>4, Fixtures DEF TreesOK
<1>8. \A l \in Locations : Rooted(tree'[l])
  BY <1>1, <1>6 DEF TreesOK
<1> QED
  BY <1>7, <1>8 DEF TreesOK

LEMMA MarkKeepsTrees ==
    ASSUME TreesOK, NEW loc \in Locations, Root \in tree[loc],
           tree' = [tree EXCEPT ![loc] = @ \union {Marker}],
           todo' \in [Runners -> SUBSET Things]
    PROVE  TreesOK'
<1>1. Rooted(tree[loc] \union {Marker})
  BY Fixtures DEF TreesOK, Rooted
<1> QED
  BY <1>1, Fixtures DEF TreesOK

-----------------------------------------------------------------------------
(* The steps of a runner. *)

LEMMA InitIInv == ASSUME OwnWorkspaces, Init PROVE IInv
<1>1. tree \in [Locations -> SUBSET Things]
  <2>1. \A o \in Locations : Filled(o) \subseteq Things
    BY DEF Things
  <2>2. \A p \in Required : Outdated(p) \subseteq Things
    BY <2>1, Places DEF Outdated
  <2> QED
    BY <2>1, <2>2 DEF Init
<1>2. \A o \in Locations : Rooted(Filled(o))
  <2> SUFFICES ASSUME NEW o \in Locations PROVE Rooted(Filled(o))
    OBVIOUS
  <2>1. Root \in Filled(o)
    BY DEF Filled
  <2>2. ASSUME NEW x \in Filled(o), IsFile(x) PROVE <<x[1]>> \in Filled(o)
    <3>1. x \in UNION {FilesOf(p, o) : p \in Packages}
      BY <2>2, Fixtures DEF Filled
    <3>2. PICK p \in Packages : \E f \in Files[p] : x = <<p, f, o>>
      BY <3>1 DEF FilesOf
    <3>3. x[1] = p
      BY <3>2
    <3> QED
      BY <3>3 DEF Filled, Dirs
  <2> QED
    BY <2>1, <2>2 DEF Rooted
<1>3. \A p \in Required : Rooted(Outdated(p))
  <2> SUFFICES ASSUME NEW p \in Required PROVE Rooted(Outdated(p))
    OBVIOUS
  <2>1. Root \in Outdated(p)
    BY Places DEF Outdated, Filled
  <2>2. ASSUME NEW x \in Outdated(p), IsFile(x) PROVE <<x[1]>> \in Outdated(p)
    <3>1. x \in Filled("shared") /\ x # Root /\ x[1] # p
      BY <2>2, Fixtures DEF Outdated
    <3>2. <<x[1]>> \in Filled("shared")
      BY <1>2, <2>2, <3>1, Places DEF Rooted
    <3>3. <<x[1]>>[1] = x[1]
      OBVIOUS
    <3> QED
      BY <3>1, <3>2, <3>3 DEF Outdated
  <2> QED
    BY <2>1, <2>2 DEF Rooted
<1>4. \A l \in Locations : Rooted(tree[l])
  <2>1. Rooted({})
    BY DEF Rooted
  <2> QED
    BY <1>2, <1>3, <2>1 DEF Init
<1>5. TypeOK
  <2>1. overlapped \in BOOLEAN
    <3>1. overlapped = FALSE
      BY Zenon DEF Init
    <3> QED
      BY <3>1
  <2>2. donor \in [Runners -> 1 .. Len(Donors) + 1]
    BY Places DEF Init
  <2> QED
    BY <1>1, <1>4, <2>1, <2>2 DEF Init, TypeOK
<1>6. pc \in [Runners -> Labels] /\ \A r \in Runners : pc[r] = "idle"
  BY DEF Init, Labels
<1> QED
  BY <1>5, <1>6 DEF IInv, RunnerInv, Labels, Refilling, Donating

\* A runner only moves itself, and changes no trees but the shared one and its own.
LEMMA StepIsOwn ==
    ASSUME IInv, NEW r \in Runners, Step(r) \/ Crash(r)
    PROVE  /\ \A q \in Runners : q # r => pc'[q] = pc[q] /\ donor'[q] = donor[q]
           /\ \A l \in Locations : l # "shared" /\ l # WorkspaceOf[r] => tree'[l] = tree[l]
           /\ DOMAIN tree' = Locations
           /\ pc' = [pc EXCEPT ![r] = pc'[r]]
<1> USE DEF IInv, TypeOK, Goto, Return
<1>1. CASE Crash(r) \/ Begin(r) \/ Reset(r) \/ AlreadyPresent(r) \/ LookAtShared(r)
  BY <1>1 DEF Crash, Begin, Reset, AlreadyPresent, LookAtShared, StartRemove, RemoveOne
<1>2. CASE ClearShared(r) \/ TryDonor(r) \/ ClearAgain(r) \/ LinkShared(r) \/ LinkingShared(r)
  BY <1>2 DEF ClearShared, TryDonor, ClearAgain, LinkShared, LinkingShared, StartRemove,
              RemoveOne, StartCopy, CopyOne
<1>3. CASE CopyShared(r) \/ CopyingShared(r) \/ Recheck(r) \/ ClearWorkspace(r)
  BY <1>3 DEF CopyShared, CopyingShared, Recheck, ClearWorkspace, StartRemove, RemoveOne,
              StartCopy, CopyOne
<1>4. CASE Seed(r) \/ Seeding(r) \/ Mark(r)
  BY <1>4 DEF Seed, Seeding, Mark, StartCopy, CopyOne
<1> QED
  BY <1>1, <1>2, <1>3, <1>4 DEF Step

\* The trees keep their shape.
LEMMA StepKeepsTrees ==
    ASSUME OwnWorkspaces, IInv, NEW r \in Runners, Step(r) \/ Crash(r)
    PROVE  TreesOK'
<1> DEFINE w == WorkspaceOf[r]
           d == Donors[donor[r]]
<1>1. /\ TreesOK /\ w \in Locations /\ "shared" \in Locations
      /\ pc[r] \in Donating => d \in Locations
  BY Places DEF IInv, TypeOK, TreesOK, RunnerInv
<1>2. \A loc \in Locations : \A x, label :
         RemoveOne(r, loc, x) \/ StartRemove(r, loc, label) => TreesOK'
  <2>1. ASSUME NEW loc \in Locations, NEW x, RemoveOne(r, loc, x) PROVE TreesOK'
    <3>1. x \in Things
      BY <1>1, <2>1 DEF RemoveOne, Removable, TreesOK
    <3> QED
      BY <1>1, <2>1, <3>1, RemoveKeepsTrees
  <2>2. ASSUME NEW loc \in Locations, NEW label, StartRemove(r, loc, label) PROVE TreesOK'
    BY <1>1, <2>2 DEF StartRemove, TreesOK
  <2> QED
    BY <2>1, <2>2
<1>3. (UNCHANGED tree /\ \E res : Return(r, res)) => TreesOK'
  BY <1>1 DEF Return, TreesOK
<1>4. UNCHANGED <<tree, todo>> => TreesOK'
  BY <1>1 DEF TreesOK
<1>5. \A src, dst \in Locations : \A label : StartCopy(r, src, dst, label) => TreesOK'
  BY <1>1, StartCopyKeepsTrees
<1>6. \A src, dst \in Locations : \A method, x : CopyOne(r, src, dst, method, x) => TreesOK'
  BY <1>1, CopyKeepsTrees
<1>7. Root \in tree[w] /\ Return(r, "ok")
         /\ tree' = [tree EXCEPT ![w] = @ \union {Marker}] => TreesOK'
  BY <1>1, MarkKeepsTrees DEF Return, TreesOK
<1>8. HasRequired(w) => Root \in tree[w]
  BY <1>1 DEF HasRequired, TreesOK, Rooted, OwnWorkspaces
<1> HIDE DEF w, d
<1>9. CASE Crash(r) \/ Begin(r) \/ Reset(r)
  BY <1>1, <1>2, <1>3, <1>4, <1>9 DEF Crash, Begin, Reset, w
<1>10. CASE AlreadyPresent(r) \/ Mark(r)
  <2>1. CASE AlreadyPresent(r)
    BY <1>3, <1>7, <1>8, <2>1 DEF AlreadyPresent, LinkedToShared, w
  <2>2. CASE Mark(r)
    BY <1>7, <2>2 DEF Mark, IInv, RunnerInv, w
  <2> QED
    BY <1>10, <2>1, <2>2
<1>11. CASE LookAtShared(r) \/ ClearShared(r) \/ TryDonor(r) \/ ClearAgain(r) \/ Recheck(r)
            \/ ClearWorkspace(r)
  BY <1>1, <1>2, <1>3, <1>4, <1>11
     DEF LookAtShared, ClearShared, TryDonor, ClearAgain, Recheck, ClearWorkspace, w
<1>12. CASE LinkShared(r) \/ CopyShared(r)
  <2>1. d \in Locations
    BY <1>1, <1>12 DEF LinkShared, CopyShared, Donating
  <2> QED
    BY <1>1, <1>3, <1>4, <1>5, <1>12, <2>1 DEF LinkShared, CopyShared, d
<1>13. CASE LinkingShared(r) \/ CopyingShared(r)
  <2>1. d \in Locations
    BY <1>1, <1>13 DEF LinkingShared, CopyingShared, Donating
  <2> QED
    BY <1>1, <1>3, <1>4, <1>6, <1>13, <2>1 DEF LinkingShared, CopyingShared, d
<1>14. CASE Seed(r) \/ Seeding(r)
  BY <1>1, <1>3, <1>4, <1>5, <1>6, <1>14 DEF Seed, Seeding, w
<1> QED
  BY <1>9, <1>10, <1>11, <1>12, <1>13, <1>14 DEF Step

LEMMA StepKeepsRunnerInv ==
    ASSUME OwnWorkspaces, IInv, NEW r \in Runners, Step(r) \/ Crash(r)
    PROVE  RunnerInv(r)'
<1> DEFINE w == WorkspaceOf[r]
<1>1. /\ w \in Locations /\ "shared" \in Locations /\ w # "shared"
      /\ pc \in [Runners -> Labels] /\ tree \in [Locations -> SUBSET Things]
      /\ donor \in [Runners -> 1 .. Len(Donors) + 1]
      /\ RunnerInv(r)
      /\ Len(Donors) \in Nat
  BY Places DEF IInv, TypeOK, OwnWorkspaces, Workspaces
<1>2. HasRequired(w)' => Root \in tree'[w]
  BY <1>1, StepKeepsTrees DEF HasRequired, TreesOK, Rooted, OwnWorkspaces
<1>3. tree'[w] \subseteq tree[w] /\ ~Seeded(w) => ~Seeded(w)'
  BY DEF Seeded, HasRequired
<1>4. \A label : Goto(r, label) => pc'[r] = label
  BY <1>1 DEF Goto
<1>5. \A res : Return(r, res) => pc'[r] = "idle"
  BY <1>1 DEF Return
<1>6. \A loc \in Locations : \A x :
         RemoveOne(r, loc, x) => tree'[w] \subseteq tree[w] /\ UNCHANGED <<pc, donor>>
  BY <1>1 DEF RemoveOne
<1>7. \A loc, label :
         StartRemove(r, loc, label) => UNCHANGED <<tree, donor>> /\ pc'[r] = label
  BY <1>4 DEF StartRemove
<1>8. \A src, label :
         StartCopy(r, src, "shared", label) =>
            tree'[w] = tree[w] /\ UNCHANGED donor /\ pc'[r] = label
  BY <1>1, <1>4 DEF StartCopy
<1>9. \A src, method, x :
         CopyOne(r, src, "shared", method, x) =>
            tree'[w] = tree[w] /\ UNCHANGED <<pc, donor>>
  BY <1>1 DEF CopyOne
<1> USE DEF RunnerInv, Labels, Refilling, Donating
<1> HIDE DEF w
<1>10. CASE Crash(r) \/ Begin(r) \/ Reset(r) \/ AlreadyPresent(r) \/ Mark(r)
  <2>1. CASE Crash(r) \/ AlreadyPresent(r) \/ Mark(r)
    BY <1>5, <2>1 DEF Crash, AlreadyPresent, Mark
  <2>2. CASE Begin(r)
    BY <1>1, <1>4, <1>7, <2>2 DEF Begin
  <2>3. CASE Reset(r)
    BY <1>1, <1>4, <1>6, <2>3 DEF Reset, w
  <2> QED
    BY <1>10, <2>1, <2>2, <2>3
<1>11. CASE LookAtShared(r)
  <2>1. UNCHANGED <<tree, donor>> /\ ~Seeded(w) /\ pc'[r] \in {"recheck", "clear_shared"}
    BY <1>4, <1>7, <1>11 DEF LookAtShared, w
  <2> QED
    BY <1>3, <2>1 DEF w
<1>12. CASE ClearShared(r) \/ ClearAgain(r)
  <2>1. /\ tree'[w] \subseteq tree[w] /\ UNCHANGED donor
        /\ pc'[r] \in {pc[r], IF pc[r] = "clear_shared" THEN "donor" ELSE "link_shared"}
        /\ pc[r] \in {"clear_shared", "clear_again"}
    BY <1>1, <1>4, <1>6, <1>12 DEF ClearShared, ClearAgain
  <2> QED
    BY <1>1, <1>3, <2>1 DEF w
<1>13. CASE TryDonor(r)
  <2>1. UNCHANGED tree /\ pc[r] = "donor"
    BY <1>7, <1>13 DEF TryDonor
  <2>2. ~Seeded(w)'
    BY <1>1, <1>3, <2>1 DEF w
  <2>3. \/ pc'[r] \in {"recheck", "donor"}
        \/ pc'[r] = "clear_again" /\ donor'[r] \in 1..Len(Donors)
    BY <1>1, <1>4, <1>7, <1>13 DEF TryDonor
  <2> QED
    BY <2>2, <2>3 DEF w
<1>14. CASE LinkShared(r) \/ CopyShared(r) \/ LinkingShared(r) \/ CopyingShared(r)
  <2>1. pc[r] \in Donating
    BY <1>14 DEF LinkShared, CopyShared, LinkingShared, CopyingShared
  <2>2. CASE \E res : Return(r, res)
    BY <1>5, <2>2
  <2>3. CASE ~\E res : Return(r, res)
    <3>1. /\ tree'[w] = tree[w] /\ UNCHANGED donor
          /\ pc'[r] \in Donating \union {"recheck"}
      BY <1>1, <1>4, <1>8, <1>9, <1>14, <2>1, <2>3
         DEF LinkShared, CopyShared, LinkingShared, CopyingShared
    <3> QED
      BY <1>1, <1>3, <2>1, <3>1 DEF w
  <2> QED
    BY <2>2, <2>3
<1>15. CASE Recheck(r)
  <2>1. pc'[r] = "idle" \/ (UNCHANGED tree /\ pc'[r] = "clear_workspace" /\ pc[r] = "recheck")
    BY <1>5, <1>7, <1>15 DEF Recheck
  <2> QED
    BY <1>1, <1>3, <2>1 DEF w
<1>16. CASE ClearWorkspace(r)
  <2>1. /\ tree'[w] \subseteq tree[w] /\ pc[r] = "clear_workspace"
        /\ pc'[r] \in {"clear_workspace", "seed"}
    BY <1>1, <1>4, <1>6, <1>16 DEF ClearWorkspace, w
  <2> QED
    BY <1>1, <1>3, <2>1 DEF w
<1>17. CASE Seed(r)
  <2>1. pc'[r] \in {"idle", "seeding"}
    BY <1>4, <1>5, <1>17 DEF Seed, StartCopy
  <2> QED
    BY <2>1
<1>18. CASE Seeding(r)
  <2>1. \/ pc'[r] \in {"idle", "seeding"}
        \/ pc'[r] = "mark" /\ UNCHANGED tree /\ HasRequired(w)
    BY <1>4, <1>5, <1>18 DEF Seeding, CopyOne, w
  <2>2. UNCHANGED tree /\ HasRequired(w) => Root \in tree'[w]
    BY <1>2 DEF HasRequired
  <2> QED
    BY <2>1, <2>2 DEF w
<1> QED
  BY <1>10, <1>11, <1>12, <1>13, <1>14, <1>15, <1>16, <1>17, <1>18 DEF Step

\* The variables of the runner itself keep their types.
LEMMA StepKeepsLocalTypes ==
    ASSUME IInv, NEW r \in Runners, Step(r) \/ Crash(r)
    PROVE  /\ failed' \in [Runners -> BOOLEAN]
           /\ donor' \in [Runners -> 1 .. Len(Donors) + 1]
           /\ result' \in [Runners -> {"none", "ok", "missing", "error", "raised"}]
<1>1. /\ failed \in [Runners -> BOOLEAN]
      /\ donor \in [Runners -> 1 .. Len(Donors) + 1]
      /\ result \in [Runners -> {"none", "ok", "missing", "error", "raised"}]
      /\ Len(Donors) \in Nat
  BY Places DEF IInv, TypeOK
<1>2. ASSUME NEW res \in {"none", "ok", "missing", "error", "raised"}, Return(r, res)
      PROVE  /\ failed' \in [Runners -> BOOLEAN]
             /\ donor' \in [Runners -> 1 .. Len(Donors) + 1]
             /\ result' \in [Runners -> {"none", "ok", "missing", "error", "raised"}]
  BY <1>1, <1>2 DEF Return
<1>3. CASE Crash(r) \/ AlreadyPresent(r) \/ Mark(r)
  BY <1>2, <1>3 DEF Crash, AlreadyPresent, Mark
<1>4. CASE Begin(r) \/ Reset(r) \/ LookAtShared(r) \/ ClearShared(r) \/ ClearAgain(r)
  BY <1>1, <1>4 DEF Begin, Reset, LookAtShared, ClearShared, ClearAgain, StartRemove, RemoveOne
<1>5. CASE TryDonor(r)
  BY <1>1, <1>5 DEF TryDonor, StartRemove
<1>6. CASE LinkShared(r) \/ CopyShared(r)
  BY <1>1, <1>2, <1>6 DEF LinkShared, CopyShared, StartCopy
<1>7. CASE LinkingShared(r) \/ CopyingShared(r)
  BY <1>1, <1>2, <1>7 DEF LinkingShared, CopyingShared, CopyOne
<1>8. CASE Recheck(r) \/ ClearWorkspace(r)
  BY <1>1, <1>2, <1>8 DEF Recheck, ClearWorkspace, StartRemove, RemoveOne
<1>9. CASE Seed(r) \/ Seeding(r)
  BY <1>1, <1>2, <1>9 DEF Seed, Seeding, StartCopy, CopyOne
<1> QED
  BY <1>3, <1>4, <1>5, <1>6, <1>7, <1>8, <1>9 DEF Step

LEMMA NextIInv == ASSUME OwnWorkspaces, IInv, [Next]_vars PROVE IInv'
<1>1. CASE UNCHANGED vars
  BY <1>1 DEF vars, local, IInv, TypeOK, RunnerInv, Seeded, HasRequired
<1>2. ASSUME NEW r \in Runners, Step(r) \/ Crash(r), overlapped' \in BOOLEAN
      PROVE  IInv'
  <2>1. TypeOK'
    BY <1>2, StepKeepsTrees, StepKeepsLocalTypes DEF TreesOK, TypeOK, IInv
  <2>2. RunnerInv(r)'
    BY <1>2, StepKeepsRunnerInv
  <2>3. pc' \in [Runners -> Labels]
    BY <1>2, <2>2, StepIsOwn DEF IInv, RunnerInv
  <2>4. ASSUME NEW q \in Runners, q # r PROVE RunnerInv(q)'
    <3>1. /\ WorkspaceOf[q] \in Locations /\ WorkspaceOf[q] # "shared"
          /\ WorkspaceOf[q] # WorkspaceOf[r]
      BY <2>4, Places DEF OwnWorkspaces, Workspaces
    <3>2. /\ pc'[q] = pc[q] /\ donor'[q] = donor[q]
          /\ tree'[WorkspaceOf[q]] = tree[WorkspaceOf[q]]
      BY <1>2, <2>4, <3>1, StepIsOwn
    <3>3. RunnerInv(q)
      BY DEF IInv
    <3> QED
      BY <3>2, <3>3 DEF RunnerInv, Seeded, HasRequired
  <2> QED
    BY <2>1, <2>2, <2>3, <2>4 DEF IInv
<1>3. CASE Next
  <2>1. PICK r \in Runners :
           \/ Step(r) /\ overlapped' = (overlapped \/ \E q \in Runners \ {r} : pc[q] # "idle")
           \/ Crash(r) /\ overlapped' = TRUE
    BY <1>3 DEF Next
  <2>2. overlapped' \in BOOLEAN
    BY <2>1 DEF IInv, TypeOK
  <2> QED
    BY <1>2, <2>1, <2>2
<1> QED
  BY <1>1, <1>3

LEMMA CacheInvariant == ASSUME OwnWorkspaces PROVE Spec => []IInv
BY InitIInv, NextIInv, PTL DEF Spec

-----------------------------------------------------------------------------

\* The variables keep their types, and whatever is half copied or half removed,
\* every file lies in a directory that is there: no removal takes a directory
\* before what is in it, whoever fills it meanwhile.
THEOREM CacheTypes == ASSUME OwnWorkspaces PROVE Spec => []TypeOK
<1>1. IInv => TypeOK
  BY DEF IInv
<1> QED
  BY <1>1, CacheInvariant, PTL

\* A runner that refills its workspace had found it unseeded, so that a seeded
\* and whole workspace only loses something to its own runner's cold start.
THEOREM SeededWorkspacesStay == ASSUME OwnWorkspaces PROVE Spec => SeededStays
<1> DEFINE Stays ==
      \A r \in Runners :
         LET w == WorkspaceOf[r] IN
         Seeded(w) /\ Whole(tree[w]) /\ pc[r] # "reset" => tree[w] \subseteq tree'[w]
<1>1. ASSUME IInv, [Next]_vars PROVE [Stays]_vars
  <2> SUFFICES ASSUME NEW q \in Runners, Seeded(WorkspaceOf[q]), pc[q] # "reset",
                      ~ UNCHANGED vars
               PROVE  tree[WorkspaceOf[q]] \subseteq tree'[WorkspaceOf[q]]
    OBVIOUS
  <2> DEFINE w == WorkspaceOf[q]
  <2>1. /\ w \in Locations /\ w # "shared"
        /\ tree \in [Locations -> SUBSET Things]
        /\ pc[q] \notin Refilling
    BY <1>1, Places DEF OwnWorkspaces, Workspaces, IInv, TypeOK, RunnerInv
  <2>2. PICK r \in Runners : Step(r) \/ Crash(r)
    BY <1>1 DEF Next
  <2>3. CASE r # q
    BY <1>1, <2>1, <2>2, <2>3, StepIsOwn DEF OwnWorkspaces
  <2>4. CASE r = q
    <3> HIDE DEF w
    <3>1. CASE Crash(q) \/ Begin(q) \/ AlreadyPresent(q)
      BY <2>1, <3>1 DEF Crash, Begin, AlreadyPresent, StartRemove, w
    <3>2. CASE Seed(q) \/ Seeding(q) \/ Mark(q)
      <4>1. ASSUME NEW src, NEW method, NEW x, CopyOne(q, src, w, method, x)
            PROVE  tree[w] \subseteq tree'[w]
        BY <2>1, <4>1 DEF CopyOne
      <4>2. ASSUME NEW src, NEW label, StartCopy(q, src, w, label)
            PROVE  tree[w] \subseteq tree'[w]
        BY <2>1, <4>2 DEF StartCopy
      <4>3. CASE Mark(q)
        BY <2>1, <4>3 DEF Mark, w
      <4>4. CASE Seed(q) \/ Seeding(q)
        BY <4>1, <4>2, <4>4 DEF Seed, Seeding, w
      <4> QED
        BY <3>2, <4>3, <4>4 DEF w
    <3>3. CASE Reset(q) \/ LookAtShared(q)
      BY <2>1, <3>3 DEF Reset, LookAtShared, w
    <3>4. CASE ClearShared(q) \/ TryDonor(q) \/ ClearAgain(q) \/ LinkShared(q)
                 \/ LinkingShared(q) \/ CopyShared(q) \/ CopyingShared(q) \/ Recheck(q)
                 \/ ClearWorkspace(q)
      BY <2>1, <3>4 DEF ClearShared, TryDonor, ClearAgain, LinkShared, LinkingShared,
           CopyShared, CopyingShared, Recheck, ClearWorkspace, Refilling, Donating
    <3> QED
      BY <2>2, <2>4, <3>1, <3>2, <3>3, <3>4 DEF Step, w
  <2> QED
    BY <2>3, <2>4
<1> QED
  BY <1>1, CacheInvariant, PTL DEF Spec, SeededStays

-----------------------------------------------------------------------------
(* Calls one after the other, on one file system: what is in the caches is  *)
(* whole.                                                                    *)

OneFileSystem == OwnWorkspaces /\ Runners # {} /\ CrossDevice = {}

\* One file of a name.
Sole(t) ==
    \A x, y \in t : IsFile(x) /\ IsFile(y) /\ x[1] = y[1] /\ x[2] = y[2] => x = y

Complete(t) == Root \in t /\ Whole(t) /\ Sole(t)

\* A tree that is there as a whole or not at all.
Ready(loc) == tree[loc] = {} \/ Complete(tree[loc])

\* The copy has all of the source but what it has still to do.
Copying(r, src, dst) ==
    /\ Complete(tree[src])
    /\ Root \in tree[dst] /\ tree[dst] \subseteq tree[src]
    /\ todo[r] \subseteq tree[src] \ tree[dst]
    /\ \A x \in tree[src] : \/ x \in tree[dst] \/ x \in todo[r]
                            \/ IsFile(x) /\ <<x[1]>> \in todo[r]
    /\ \A x \in todo[r] : IsFile(x) => <<x[1]>> \in tree[dst]

\* What holds of the trees at each place of the runner.
Stage(r) ==
    LET w == WorkspaceOf[r]
        d == Donors[donor[r]]
    IN /\ ~failed[r]
       /\ pc[r] \notin {"reset", "clear_workspace", "seed", "seeding"} => Ready(w)
       /\ pc[r] \notin {"clear_shared", "clear_again", "donor", "link_shared", "linking_shared"}
             => (HasRequired("shared") => Complete(tree["shared"]))
       /\ pc[r] \in {"donor", "link_shared"} => tree["shared"] = {}
       /\ pc[r] \in {"clear_shared", "clear_again"} => todo[r] = tree["shared"]
       /\ pc[r] \in {"reset", "clear_workspace"} => todo[r] = tree[w]
       /\ pc[r] \in {"clear_workspace", "seed", "seeding", "mark"} => Complete(tree["shared"])
       /\ pc[r] = "seed" => tree[w] = {}
       /\ pc[r] \in {"clear_again", "link_shared", "linking_shared"} => Complete(tree[d])
       /\ pc[r] = "linking_shared" => Copying(r, d, "shared")
       /\ pc[r] = "seeding" => Copying(r, "shared", w)
       /\ pc[r] = "mark" => Complete(tree[w])
       /\ pc[r] \notin {"copy_shared", "copying_shared"}
       /\ pc[r] = "idle" /\ result[r] = "ok" => Complete(tree[w])

\* The others are between calls, and what is not r's to fill is whole or missing.
Rest(r) ==
    /\ \A q \in Runners \ {r} :
          /\ pc[q] = "idle" /\ ~failed[q]
          /\ result[q] = "ok" => Complete(tree[WorkspaceOf[q]])
    /\ \A l \in Locations \ {"shared", WorkspaceOf[r]} : Ready(l)

InTurn == overlapped \/ \E r \in Runners : Stage(r) /\ Rest(r)

\* What is whole has the required packages, and what has them is there.
LEMMA CompleteIs ==
    ASSUME OwnWorkspaces, IInv, NEW loc \in Locations
    PROVE  /\ Complete(tree[loc]) => HasRequired(loc) /\ tree[loc] # {}
           /\ Ready(loc) /\ HasRequired(loc) => Complete(tree[loc])
BY PackagesAssumption DEF OwnWorkspaces, Complete, Whole, HasRequired, Ready

\* A file lies in the directory of a package.
LEMMA FileIs ==
    ASSUME NEW x \in Things
    PROVE  /\ IsFile(x) => <<x[1]>> \in Dirs
           /\ ~IsFile(x) => x = Root \/ Len(x) = 1
           /\ x \in Dirs => x = <<x[1]>> /\ ~IsFile(x)
<1>1. ASSUME IsFile(x)
      PROVE  <<x[1]>> \in Dirs
  <2>1. PICK p \in Packages, o \in Locations : \E f \in Files[p] : x = <<p, f, o>>
    BY <1>1, Kinds
  <2>2. x[1] = p
    BY <2>1
  <2> QED
    BY <2>2 DEF Dirs
<1>2. ~IsFile(x) => x = Root \/ Len(x) = 1
  BY Kinds DEF Marker, Dirs
<1>3. x \in Dirs => x = <<x[1]>> /\ ~IsFile(x)
  BY DEF Dirs, IsFile
<1> QED
  BY <1>1, <1>2, <1>3

LEMMA RemoveTogether ==
    ASSUME IInv, NEW r \in Runners, NEW loc \in Locations, NEW x,
           todo[r] = tree[loc], RemoveOne(r, loc, x)
    PROVE  /\ todo'[r] = tree'[loc]
           /\ \A l \in Locations : l # loc => tree'[l] = tree[l]
           /\ UNCHANGED <<pc, failed, donor, result>>
BY DEF RemoveOne, IInv, TypeOK

LEMMA CopyStarts ==
    ASSUME IInv, NEW r \in Runners, NEW src \in Locations, NEW dst \in Locations, src # dst,
           NEW label, Complete(tree[src]), tree[dst] = {}, StartCopy(r, src, dst, label)
    PROVE  /\ Copying(r, src, dst)' /\ pc'[r] = label
           /\ \A l \in Locations : l # dst => tree'[l] = tree[l]
           /\ UNCHANGED <<failed, donor, result>>
<1>1. /\ tree' = [tree EXCEPT ![dst] = {Root}]
      /\ todo' = [todo EXCEPT ![r] = {x \in tree[src] : Len(x) = 1}]
      /\ pc' = [pc EXCEPT ![r] = label]
      /\ UNCHANGED <<failed, donor, result>>
  BY DEF StartCopy, Goto
<1>2. /\ tree'[dst] = {Root} /\ tree'[src] = tree[src]
      /\ todo'[r] = {x \in tree[src] : Len(x) = 1} /\ pc'[r] = label
      /\ \A l \in Locations : l # dst => tree'[l] = tree[l]
  BY <1>1 DEF IInv, TypeOK
<1>3. tree[src] \subseteq Things /\ Rooted(tree[src]) /\ Root \in tree[src]
  BY DEF IInv, TypeOK, Complete
<1>4. ASSUME NEW x \in tree[src], Len(x) = 1
      PROVE  x # Root /\ ~IsFile(x)
  BY <1>4 DEF Root, IsFile
<1>5. ASSUME NEW x \in tree[src]
      PROVE  x = Root \/ Len(x) = 1 \/ (IsFile(x) /\ <<x[1]>> \in tree[src] /\ Len(<<x[1]>>) = 1)
  BY <1>3, FileIs DEF Rooted
<1> QED
  BY <1>1, <1>2, <1>3, <1>4, <1>5 DEF Copying

LEMMA CopyGoesOn ==
    ASSUME IInv, NEW r \in Runners, NEW src \in Locations, NEW dst \in Locations, src # dst,
           ~failed[r], Copying(r, src, dst), NEW x, CopyOne(r, src, dst, "link", x)
    PROVE  /\ Copying(r, src, dst)' /\ ~failed'[r]
           /\ \A l \in Locations : l # dst => tree'[l] = tree[l]
           /\ UNCHANGED <<pc, donor, result>>
<1> DEFINE works == /\ x \in tree[src]
                    /\ x \notin tree[dst]
                    /\ IsFile(x) => <<x[1]>> \in tree[dst] /\ ~Holds(tree[dst], x[1], x[2])
           files == {y \in Below(x, tree[src]) : IsFile(y)}
<1>1. /\ x \in todo[r] /\ x \in tree[src] /\ x \notin tree[dst] /\ x \in Things
      /\ tree[src] \subseteq Things /\ Rooted(tree[dst]) /\ Rooted(tree[src])
      /\ tree[dst] \subseteq tree[src] /\ Sole(tree[src])
  BY DEF CopyOne, Copying, IInv, TypeOK, Complete
<1>2. ASSUME IsFile(x)
      PROVE  <<x[1]>> \in tree[dst] /\ ~Holds(tree[dst], x[1], x[2])
  <2>1. <<x[1]>> \in tree[dst]
    BY <1>1, <1>2 DEF Copying
  <2>2. ASSUME NEW o \in Locations, <<x[1], x[2], o>> \in tree[dst]
        PROVE  FALSE
    <3> DEFINE y == <<x[1], x[2], o>>
    <3>1. IsFile(y) /\ y[1] = x[1] /\ y[2] = x[2] /\ y \in tree[src]
      BY <1>1, <2>2 DEF IsFile
    <3>2. x = y
      BY <1>1, <1>2, <3>1 DEF Sole
    <3> QED
      BY <1>1, <2>2, <3>2
  <2> QED
    BY <2>1, <2>2 DEF Holds
<1>3. works
  BY <1>1, <1>2
<1>4. /\ todo' = [todo EXCEPT ![r] = (@ \ {x}) \union files]
      /\ tree' = [tree EXCEPT ![dst] = @ \union {x, Root}]
      /\ failed' = [failed EXCEPT ![r] = @ \/ FALSE]
      /\ UNCHANGED <<pc, donor, result>>
  <2>1. "link" # "copy" /\ "link" # "fails"
    OBVIOUS
  <2> QED
    BY <1>3, <2>1 DEF CopyOne
<1>5. files = IF x \in Dirs THEN {y \in tree[src] : IsFile(y) /\ y[1] = x[1]} ELSE {}
  <2>1. x # Root
    BY <1>1 DEF Copying
  <2> QED
    BY <2>1 DEF Below
<1> HIDE DEF works, files
<1>6. /\ todo'[r] = (todo[r] \ {x}) \union files
      /\ tree'[dst] = tree[dst] \union {x} /\ tree'[src] = tree[src]
      /\ \A l \in Locations : l # dst => tree'[l] = tree[l]
      /\ ~failed'[r]
  BY <1>4 DEF Copying, IInv, TypeOK
<1>7. \A y \in files : y \in tree[src] /\ IsFile(y) /\ x = <<y[1]>> /\ y # x /\ y \notin tree[dst]
  <2> SUFFICES ASSUME NEW y \in files
               PROVE  /\ y \in tree[src] /\ IsFile(y) /\ x = <<y[1]>> /\ y # x
                      /\ y \notin tree[dst]
    OBVIOUS
  <2>1. x \in Dirs /\ y \in tree[src] /\ IsFile(y) /\ y[1] = x[1]
    BY <1>5
  <2>2. x = <<x[1]>> /\ ~IsFile(x)
    BY <1>1, <2>1, FileIs
  <2> QED
    BY <1>1, <2>1, <2>2 DEF Rooted
<1>8. ASSUME NEW z \in tree[src], IsFile(z), <<z[1]>> = x
      PROVE  z \in files
  <2>1. x \in Dirs /\ x[1] = z[1]
    BY <1>1, <1>8, FileIs
  <2> QED
    BY <1>5, <1>8, <2>1
<1>9. ASSUME NEW z \in tree[src]
      PROVE  \/ z \in tree'[dst] \/ z \in todo'[r]
             \/ IsFile(z) /\ <<z[1]>> \in todo'[r]
  BY <1>6, <1>8 DEF Copying
<1>10. todo'[r] \subseteq tree'[src] \ tree'[dst]
  BY <1>1, <1>6, <1>7 DEF Copying
<1>11. \A z \in todo'[r] : IsFile(z) => <<z[1]>> \in tree'[dst]
  BY <1>6, <1>7 DEF Copying
<1> QED
  BY <1>1, <1>4, <1>6, <1>9, <1>10, <1>11 DEF Copying

LEMMA CopyEnds ==
    ASSUME NEW r, NEW src, NEW dst, Copying(r, src, dst), todo[r] = {}
    PROVE  tree[dst] = tree[src] /\ Complete(tree[dst])
BY DEF Copying

LEMMA StageKept ==
    ASSUME OneFileSystem, NEW r \in Runners, IInv, IInv', Stage(r), Rest(r), Step(r)
    PROVE  Stage(r)'
<1> DEFINE w == WorkspaceOf[r]
           d == Donors[donor[r]]
<1>1. /\ r \in Runners /\ w \in Locations /\ w # "shared"
      /\ "shared" \in Locations
      /\ \A i \in 1..Len(Donors) : Donors[i] \in Locations \ {"shared"}
      /\ \A l \in Locations \ {"shared", w} : Ready(l)
      /\ DOMAIN pc = Runners /\ DOMAIN result = Runners /\ DOMAIN failed = Runners
      /\ DOMAIN donor = Runners /\ DOMAIN todo = Runners
  BY Places, DonorsAssumption
     DEF OneFileSystem, OwnWorkspaces, Workspaces, Rest, IInv, TypeOK
<1>2. pc[r] \in Donating => d \in Locations /\ d # "shared"
  BY <1>1 DEF IInv, RunnerInv
<1>3. \A l \in Locations : /\ Complete(tree[l]) => HasRequired(l) /\ tree[l] # {}
                           /\ Ready(l) /\ HasRequired(l) => Complete(tree[l])
  BY CompleteIs DEF OneFileSystem
<1>5. CASE Begin(r)
  BY <1>1, <1>5 DEF Begin, StartRemove, Goto, Stage, Ready, HasRequired
<1>6. CASE Reset(r)
  <2>1. ASSUME NEW x, RemoveOne(r, w, x)
        PROVE  Stage(r)'
    BY <1>1, <1>6, <2>1, RemoveTogether DEF Reset, Stage, Ready, HasRequired
  <2>2. CASE todo[r] = {} /\ Goto(r, "look") /\ UNCHANGED <<tree, todo, failed, donor, result>>
    BY <1>1, <1>6, <2>2 DEF Reset, Goto, Stage, Ready, HasRequired
  <2> QED
    BY <1>6, <2>1, <2>2 DEF Reset
<1>7. CASE AlreadyPresent(r)
  <2>1. HasRequired(w) /\ Complete(tree[w])
    BY <1>1, <1>3, <1>7 DEF AlreadyPresent, Seeded, LinkedToShared, Stage
  <2>2. Complete(tree[w] \union {Marker})
    BY <2>1, Fixtures DEF Complete, Whole, Holds, Sole
  <2>3. /\ tree'[w] \in {tree[w], tree[w] \union {Marker}}
        /\ \A l \in Locations : l # w => tree'[l] = tree[l]
    BY <1>1, <1>7 DEF AlreadyPresent, IInv, TypeOK
  <2>4. Complete(tree'[w])
    BY <2>1, <2>2, <2>3
  <2> QED
    BY <1>1, <1>7, <2>3, <2>4 DEF AlreadyPresent, Return, Stage, Ready, HasRequired
<1>8. CASE LookAtShared(r)
  BY <1>1, <1>8 DEF LookAtShared, StartRemove, Goto, Stage, Ready, HasRequired
<1>9. CASE ClearShared(r)
  <2>1. ASSUME NEW x, RemoveOne(r, "shared", x)
        PROVE  Stage(r)'
    BY <1>1, <1>9, <2>1, RemoveTogether DEF ClearShared, Stage, Ready, HasRequired
  <2>2. CASE todo[r] = {} /\ Goto(r, "donor") /\ UNCHANGED <<tree, todo, failed, donor, result>>
    BY <1>1, <1>9, <2>2 DEF ClearShared, Goto, Stage, Ready, HasRequired
  <2> QED
    BY <1>9, <2>1, <2>2 DEF ClearShared
<1>10. CASE TryDonor(r)
  <2>1. CASE donor[r] > Len(Donors)
    <3>1. ~HasRequired("shared") /\ tree' = tree
      BY <1>1, <1>10, <2>1, <1>3 DEF TryDonor, Stage, HasRequired, OneFileSystem, OwnWorkspaces
    <3> QED
      BY <1>1, <1>10, <2>1, <3>1 DEF TryDonor, Goto, Stage, Ready, HasRequired
  <2>2. CASE donor[r] \in 1..Len(Donors) /\ HasRequired(d)
    <3>1. Complete(tree[d])
      BY <1>1, <1>3, <1>10, <2>2 DEF Stage, TryDonor
    <3> QED
      BY <1>1, <1>10, <2>2, <3>1 DEF TryDonor, StartRemove, Goto, Stage, Ready, HasRequired
  <2>3. CASE donor[r] \in 1..Len(Donors) /\ ~HasRequired(d)
    BY <1>1, <1>10, <2>3 DEF TryDonor, Stage, Ready, HasRequired
  <2>4. donor[r] \in 1..Len(Donors)+1 /\ Len(Donors) \in Nat
    BY <1>1, Places DEF IInv, TypeOK
  <2> QED
    BY <2>1, <2>2, <2>3, <2>4
<1>11. CASE ClearAgain(r)
  <2>1. ASSUME NEW x, RemoveOne(r, "shared", x)
        PROVE  Stage(r)'
    BY <1>1, <1>2, <1>11, <2>1, RemoveTogether DEF ClearAgain, Stage, Ready, HasRequired, Donating
  <2>2. CASE todo[r] = {} /\ Goto(r, "link_shared")
             /\ UNCHANGED <<tree, todo, failed, donor, result>>
    BY <1>1, <1>11, <2>2 DEF ClearAgain, Goto, Stage, Ready, HasRequired
  <2> QED
    BY <1>11, <2>1, <2>2 DEF ClearAgain
<1>12. CASE LinkShared(r)
  <2>1. Complete(tree[d]) /\ tree["shared"] = {} /\ d \in Locations /\ d # "shared"
    BY <1>2, <1>12 DEF LinkShared, Stage, Donating
  <2>2. CanStartCopy(d, "shared")
    BY <2>1 DEF CanStartCopy, Complete
  <2>3. StartCopy(r, d, "shared", "linking_shared")
    BY <1>12, <2>2 DEF LinkShared
  <2>4. /\ Copying(r, d, "shared")' /\ pc'[r] = "linking_shared"
        /\ \A l \in Locations : l # "shared" => tree'[l] = tree[l]
        /\ UNCHANGED <<failed, donor, result>>
    BY <1>1, <2>1, <2>3, CopyStarts
  <2> QED
    BY <1>1, <1>12, <2>1, <2>4 DEF LinkShared, Stage, Ready, HasRequired
<1>13. CASE LinkingShared(r)
  <2>1. /\ Copying(r, d, "shared") /\ d \in Locations /\ d # "shared" /\ ~failed[r]
        /\ pc[r] = "linking_shared" /\ Ready(w)
    BY <1>1, <1>2, <1>13 DEF LinkingShared, Stage, Donating, IInv, RunnerInv
  <2>2. ASSUME NEW x, CopyOne(r, d, "shared", "link", x)
        PROVE  Stage(r)'
    <3>1. /\ Copying(r, d, "shared")' /\ ~failed'[r]
          /\ \A l \in Locations : l # "shared" => tree'[l] = tree[l]
          /\ UNCHANGED <<pc, donor, result>>
      BY <1>1, <2>1, <2>2, CopyGoesOn
    <3>2. Complete(tree[d])
      BY <2>1 DEF Copying
    <3> QED
      BY <1>1, <2>1, <3>1, <3>2 DEF Stage, Ready
  <2>3. ASSUME todo[r] = {}, Goto(r, IF failed[r] THEN "copy_shared" ELSE "recheck"),
               failed' = [failed EXCEPT ![r] = FALSE],
               UNCHANGED <<tree, todo, donor, result>>
        PROVE  Stage(r)'
    <3>1. Complete(tree["shared"])
      BY <2>1, <2>3, CopyEnds
    <3>2. pc'[r] = "recheck" /\ ~failed'[r]
      BY <1>1, <2>1, <2>3 DEF Goto
    <3> QED
      BY <2>1, <2>3, <3>1, <3>2 DEF Stage, Ready, HasRequired
  <2>4. d \notin CrossDevice
    BY DEF OneFileSystem
  <2> QED
    BY <1>13, <2>2, <2>3, <2>4 DEF LinkingShared
<1>14. CASE CopyShared(r) \/ CopyingShared(r)
  BY <1>14 DEF CopyShared, CopyingShared, Stage
<1>15. CASE Recheck(r)
  <2>1. CASE HasRequired("shared")
    BY <1>1, <1>15, <2>1 DEF Recheck, StartRemove, Goto, Stage, Ready, HasRequired
  <2>2. CASE ~HasRequired("shared")
    BY <1>1, <1>15, <2>2 DEF Recheck, Return, Stage, Ready, HasRequired
  <2> QED
    BY <2>1, <2>2
<1>16. CASE ClearWorkspace(r)
  <2>1. ASSUME NEW x, RemoveOne(r, w, x)
        PROVE  Stage(r)'
    BY <1>1, <1>16, <2>1, RemoveTogether DEF ClearWorkspace, Stage, Ready, HasRequired
  <2>2. CASE todo[r] = {} /\ Goto(r, "seed") /\ UNCHANGED <<tree, todo, failed, donor, result>>
    BY <1>1, <1>16, <2>2 DEF ClearWorkspace, Goto, Stage, Ready, HasRequired
  <2> QED
    BY <1>16, <2>1, <2>2 DEF ClearWorkspace
<1>17. CASE Seed(r)
  <2>1. Complete(tree["shared"]) /\ tree[w] = {} /\ pc[r] = "seed" /\ ~failed[r]
    BY <1>17 DEF Seed, Stage
  <2>2. CanStartCopy("shared", w)
    BY <2>1 DEF CanStartCopy, Complete
  <2>3. StartCopy(r, "shared", w, "seeding")
    BY <1>17, <2>2 DEF Seed
  <2>4. /\ Copying(r, "shared", w)' /\ pc'[r] = "seeding"
        /\ \A l \in Locations : l # w => tree'[l] = tree[l]
        /\ UNCHANGED <<failed, donor, result>>
    BY <1>1, <2>1, <2>3, CopyStarts
  <2> QED
    BY <1>1, <2>1, <2>4 DEF Stage, Ready, HasRequired
<1>18. CASE Seeding(r)
  <2>1. /\ Copying(r, "shared", w) /\ ~failed[r] /\ pc[r] = "seeding"
        /\ Complete(tree["shared"])
    BY <1>18 DEF Seeding, Stage
  <2>2. ASSUME NEW x, CopyOne(r, "shared", w, "link", x)
        PROVE  Stage(r)'
    <3>1. /\ Copying(r, "shared", w)' /\ ~failed'[r]
          /\ \A l \in Locations : l # w => tree'[l] = tree[l]
          /\ UNCHANGED <<pc, donor, result>>
      BY <1>1, <2>1, <2>2, CopyGoesOn
    <3> QED
      BY <1>1, <2>1, <3>1 DEF Stage, Ready
  <2>3. ASSUME todo[r] = {}
        PROVE  Complete(tree[w]) /\ HasRequired(w)
    BY <1>1, <1>3, <2>1, <2>3, CopyEnds
  <2>4. ASSUME todo[r] = {}, Goto(r, "mark"), UNCHANGED <<tree, todo, failed, donor, result>>
        PROVE  Stage(r)'
    BY <1>1, <2>1, <2>3, <2>4 DEF Goto, Stage, Ready, HasRequired
  <2> QED
    BY <1>18, <2>1, <2>2, <2>3, <2>4 DEF Seeding
<1>19. CASE Mark(r)
  <2>1. Complete(tree[w]) /\ Complete(tree["shared"])
    BY <1>19 DEF Mark, Stage
  <2>2. Complete(tree[w] \union {Marker})
    BY <2>1, Fixtures DEF Complete, Whole, Holds, Sole
  <2>3. /\ tree'[w] = tree[w] \union {Marker}
        /\ \A l \in Locations : l # w => tree'[l] = tree[l]
    BY <1>1, <1>19 DEF Mark, IInv, TypeOK
  <2> QED
    BY <1>1, <1>19, <2>1, <2>2, <2>3 DEF Mark, Return, Stage, Ready, HasRequired
<1> QED
  BY <1>5, <1>6, <1>7, <1>8, <1>9, <1>10, <1>11, <1>12, <1>13, <1>14, <1>15, <1>16, <1>17,
     <1>18, <1>19 DEF Step

\* A runner's own step leaves what is at rest alone.
LEMMA RestKept ==
    ASSUME OneFileSystem, NEW r \in Runners, IInv, Rest(r), Step(r)
    PROVE  Rest(r)'
<1>1. \A q \in Runners : q # r => failed'[q] = failed[q] /\ result'[q] = result[q]
  <2> USE DEF IInv, TypeOK, Goto, Return
  <2>1. CASE Begin(r) \/ Reset(r) \/ AlreadyPresent(r) \/ LookAtShared(r)
    BY <2>1 DEF Begin, Reset, AlreadyPresent, LookAtShared, StartRemove, RemoveOne
  <2>2. CASE ClearShared(r) \/ TryDonor(r) \/ ClearAgain(r) \/ LinkShared(r) \/ LinkingShared(r)
    BY <2>2 DEF ClearShared, TryDonor, ClearAgain, LinkShared, LinkingShared, StartRemove,
                RemoveOne, StartCopy, CopyOne
  <2>3. CASE CopyShared(r) \/ CopyingShared(r) \/ Recheck(r) \/ ClearWorkspace(r)
    BY <2>3 DEF CopyShared, CopyingShared, Recheck, ClearWorkspace, StartRemove, RemoveOne,
                StartCopy, CopyOne
  <2>4. CASE Seed(r) \/ Seeding(r) \/ Mark(r)
    BY <2>4 DEF Seed, Seeding, Mark, StartCopy, CopyOne
  <2> QED
    BY <2>1, <2>2, <2>3, <2>4 DEF Step
<1>2. \A q \in Runners : q # r => pc'[q] = pc[q] /\ tree'[WorkspaceOf[q]] = tree[WorkspaceOf[q]]
  BY StepIsOwn, Places DEF OneFileSystem, OwnWorkspaces, Workspaces
<1>3. \A l \in Locations \ {"shared", WorkspaceOf[r]} : tree'[l] = tree[l]
  BY StepIsOwn
<1> QED
  BY <1>1, <1>2, <1>3 DEF Rest, Ready

\* Between calls, any runner may be the next one.
LEMMA TurnPasses ==
    ASSUME OneFileSystem, IInv, NEW r \in Runners, NEW q \in Runners,
           Stage(r), Rest(r), pc[r] = "idle"
    PROVE  Stage(q) /\ Rest(q)
<1>1. \A l \in Locations \ {"shared"} : Ready(l)
  BY DEF Stage, Rest
<1>2. /\ \A p \in Runners : /\ pc[p] = "idle" /\ ~failed[p]
                            /\ result[p] = "ok" => Complete(tree[WorkspaceOf[p]])
      /\ HasRequired("shared") => Complete(tree["shared"])
  BY DEF Stage, Rest
<1>3. WorkspaceOf[q] \in Locations \ {"shared"}
  BY Places DEF OneFileSystem, OwnWorkspaces, Workspaces
<1> QED
  BY <1>1, <1>2, <1>3 DEF Stage, Rest

LEMMA InTurnAtInit == ASSUME OneFileSystem, Init PROVE InTurn
<1>1. PICK r \in Runners : TRUE
  BY DEF OneFileSystem
<1>2. WorkspaceOf[r] \in Locations \ {"shared"}
  BY Places DEF OneFileSystem, OwnWorkspaces, Workspaces
<1>3. ASSUME NEW l \in Locations \ {"shared"}
      PROVE  Ready(l)
  <2>1. Complete(Filled(l))
    <3>1. Root \in Filled(l) /\ Whole(Filled(l))
      BY DEF Filled, Whole, Holds, Dirs, FilesOf
    <3>2. ASSUME NEW x \in Filled(l), IsFile(x)
          PROVE  \E p \in Packages : \E f \in Files[p] : x = <<p, f, l>>
      BY <3>2 DEF Filled, FilesOf, IsFile, Root, Dirs
    <3>3. Sole(Filled(l))
      BY <3>2 DEF Sole
    <3> QED
      BY <3>1, <3>3 DEF Complete
  <2> QED
    BY <2>1 DEF Init, Ready
<1>4. ~HasRequired("shared")
  <2>1. tree["shared"] = {} \/ \E p \in Required : tree["shared"] = Outdated(p)
    BY DEF Init
  <2>2. \A p \in Required : <<p>> \notin Outdated(p)
    BY DEF Outdated, Root
  <2> QED
    BY <2>1, <2>2 DEF HasRequired, OneFileSystem, OwnWorkspaces
<1>5. Stage(r) /\ Rest(r)
  BY <1>2, <1>3, <1>4 DEF Init, Stage, Rest
<1> QED
  BY <1>5 DEF InTurn

LEMMA InTurnKept ==
    ASSUME OneFileSystem, IInv, IInv', InTurn, [Next]_vars
    PROVE  InTurn'
<1>1. CASE UNCHANGED vars
  BY <1>1 DEF vars, local, InTurn, Stage, Rest, Ready, HasRequired, Copying
<1>2. ASSUME NEW r \in Runners, Stage(r), Rest(r), NEW q \in Runners, Step(q),
             \A p \in Runners \ {q} : pc[p] = "idle"
      PROVE  InTurn'
  <2>1. Stage(q) /\ Rest(q)
    BY <1>2, TurnPasses
  <2>2. Stage(q)' /\ Rest(q)'
    BY <1>2, <2>1, StageKept, RestKept
  <2> QED
    BY <2>2 DEF InTurn
<1>3. CASE Next /\ ~overlapped'
  <2>1. PICK q \in Runners : Step(q) /\ ~overlapped /\ \A p \in Runners \ {q} : pc[p] = "idle"
    BY <1>3 DEF Next
  <2>2. PICK r \in Runners : Stage(r) /\ Rest(r)
    BY <2>1 DEF InTurn
  <2> QED
    BY <1>2, <2>1, <2>2
<1> QED
  BY <1>1, <1>3 DEF InTurn

LEMMA InTurnAlways == ASSUME OneFileSystem PROVE Spec => []InTurn
<1>1. Init => InTurn
  BY InTurnAtInit
<1>2. InTurn /\ IInv /\ IInv' /\ [Next]_vars => InTurn'
  BY InTurnKept
<1>3. Spec => []IInv
  BY CacheInvariant DEF OneFileSystem
<1> QED
  BY <1>1, <1>2, <1>3, PTL DEF Spec

\* As long as the calls come one after the other and none is cut short, on one
\* file system, a call that returns ok leaves the whole of the packages in its
\* workspace, wherever they come from and whatever was left in the shared cache.
THEOREM OkIsHydrated == ASSUME OneFileSystem PROVE Spec => []OkMeansHydrated
<1>1. InTurn => OkMeansHydrated
  BY DEF InTurn, Stage, Rest, OkMeansHydrated, Idle, Complete
<1> QED
  BY <1>1, InTurnAlways, PTL

\* And a shared tree that passes for usable between such calls is whole.
THEOREM SharedTreeIsWhole == ASSUME OneFileSystem PROVE Spec => []SharedIsWhole
<1>1. InTurn => SharedIsWhole
  BY DEF InTurn, Stage, SharedIsWhole, Idle, Complete
<1> QED
  BY <1>1, InTurnAlways, PTL
=============================================================================
