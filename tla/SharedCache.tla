---------------------------- MODULE SharedCache -----------------------------
(***************************************************************************)
(* The shared cache of Lake packages (tools/workflow/shared_cache.py):     *)
(* every runner calls ensure_workspace_lake_packages to fill its           *)
(* workspace from one shared tree, which the first caller fills from a     *)
(* donor.  There is no lock.  Trees are copied and removed piece by piece, *)
(* so that other runners, and crashes, see them half done.                 *)
(***************************************************************************)
EXTENDS Integers, Sequences

CONSTANTS
    Runners,
    WorkspaceOf,    \* the workspace each runner works in
    Packages,
    Required,       \* required_packages
    Files,          \* the files of each package, "top" the one its sentinel is
    Donors,         \* candidate_seed_sources, in order: "repo" or workspaces
    CrossDevice,    \* donors on another file system: nothing can be hard-linked
    MayCrash        \* runners may be killed at any step

Workspaces == {WorkspaceOf[r] : r \in Runners}
Locations == {"shared", "repo"} \union Workspaces

ASSUME PackagesAssumption == Required \subseteq Packages
ASSUME DonorsAssumption == Donors \in Seq(Locations \ {"shared"})
ASSUME CrossDeviceAssumption == CrossDevice \subseteq {"repo"} /\ MayCrash \in BOOLEAN

\* What a packages directory may hold: itself, the seed marker, the directory
\* of a package <<p>> and its files <<p, f, o>>; o tells inodes apart: it is
\* where the file was first written, and a hard link keeps it.
Root == <<>>
Marker == <<"marker">>
Dirs == {<<p>> : p \in Packages}
FilesOf(p, o) == {<<p, f, o>> : f \in Files[p]}
Filled(o) == {Root} \union Dirs \union UNION {FilesOf(p, o) : p \in Packages}
Things == {Marker} \union UNION {Filled(o) : o \in Locations}

IsFile(x) == Len(x) = 3
Holds(t, p, f) == \E o \in Locations : <<p, f, o>> \in t

\* Every file of every package is there.
Whole(t) == \A p \in Packages : <<p>> \in t /\ \A f \in Files[p] : Holds(t, p, f)

\* Mutant: directories are removed with what is in them.
BelowNothing(x, t) == IF x = Root THEN t \ {Root} ELSE {}

\* What lies below x in a tree.
Below(x, t) ==
    IF x = Root THEN t \ {Root}
    ELSE IF x \in Dirs THEN {y \in t : IsFile(y) /\ y[1] = x[1]}
    ELSE {}

DonorSet == {Donors[i] : i \in 1..Len(Donors)}

VARIABLES
    tree,      \* what each location holds
    pc,        \* where each runner is
    todo,      \* what its copy or removal has still to do
    failed,    \* has its copy met an error (copytree reports them at its end)
    donor,     \* index of the donor it tries
    result,    \* what its last call returned
    overlapped \* history: has a call met another one, or been cut short

local == <<pc, todo, failed, donor, result>>
vars == <<tree, local, overlapped>>

\* A shared tree made when package p was not required yet.
Outdated(p) == {x \in Filled("shared") : x = Root \/ x[1] # p}

\* Donors are whole or missing; workspaces that are no donors start empty.
Init ==
    /\ tree \in [Locations -> {{}} \union {Filled(o) : o \in Locations}
                              \union {Outdated(p) : p \in Required}]
    /\ tree["shared"] \in {{}} \union {Outdated(p) : p \in Required}
    /\ \A l \in Locations \ {"shared"} :
          tree[l] = {} \/ (l \in DonorSet /\ tree[l] = Filled(l))
    /\ pc = [r \in Runners |-> "idle"]
    /\ todo = [r \in Runners |-> {}]
    /\ failed = [r \in Runners |-> FALSE]
    /\ donor = [r \in Runners |-> 1]
    /\ result = [r \in Runners |-> "none"]
    /\ overlapped = FALSE

-----------------------------------------------------------------------------
(* What a runner sees. *)

\* Mutant: a packages directory that exists is taken for one that is filled.
HasDirectory(loc) == Root \in tree[loc]

\* _has_required_packages only asks for the directories.
HasRequired(loc) == \A p \in Required : <<p>> \in tree[loc]

\* Mutant: the marker only counts while the shared tree is there.
SeededWhileShared(w) ==
    HasRequired(w) /\ Marker \in tree[w] /\ HasRequired("shared")

\* workspace_has_seeded_packages: the marker names the shared tree and all the
\* required packages, as every marker written here does.
Seeded(w) == HasRequired(w) /\ Marker \in tree[w]

\* workspace_links_to_shared: one file of each required package is the same
\* file as in the shared tree.
LinkedToShared(w) ==
    /\ HasRequired(w)
    /\ HasRequired("shared")
    /\ \A p \in Required :
         \E o \in Locations : <<p, "top", o>> \in tree[w] \intersect tree["shared"]

Goto(r, label) == pc' = [pc EXCEPT ![r] = label]

Return(r, res) ==
    /\ pc' = [pc EXCEPT ![r] = "idle"]
    /\ result' = [result EXCEPT ![r] = res]
    /\ todo' = [todo EXCEPT ![r] = {}]
    /\ failed' = [failed EXCEPT ![r] = FALSE]
    /\ donor' = [donor EXCEPT ![r] = 1]

-----------------------------------------------------------------------------
(* Removing and copying trees. *)

\* rmtree lists what is there and removes it, leaves first.  What is put into a
\* directory before rmtree comes to it goes as well; a directory that gets
\* something new later stays (ignore_errors).
StartRemove(r, loc, label) ==
    /\ todo' = [todo EXCEPT ![r] = tree[loc]]
    /\ Goto(r, label)
    /\ UNCHANGED <<tree, failed, donor, result>>

Removable(r, loc) == todo[r] \union {y \in tree[loc] : IsFile(y) /\ <<y[1]>> \in todo[r]}

RemoveOne(r, loc, x) ==
    /\ x \in Removable(r, loc)
    /\ Below(x, todo[r]) = {}
    /\ todo' = [todo EXCEPT ![r] = @ \ {x}]
    /\ tree' = IF Below(x, tree[loc]) = {}
                THEN [tree EXCEPT ![loc] = @ \ {x}] ELSE tree
    /\ UNCHANGED <<pc, failed, donor, result>>

\* copytree lists the source and makes the directory, which must be new.
CanStartCopy(src, dst) == Root \in tree[src] /\ Root \notin tree[dst]

StartCopy(r, src, dst, label) ==
    /\ CanStartCopy(src, dst)
    /\ tree' = [tree EXCEPT ![dst] = @ \union {Root}]
    /\ todo' = [todo EXCEPT ![r] = {x \in tree[src] : Len(x) = 1}]
    /\ Goto(r, label)
    /\ UNCHANGED <<failed, donor, result>>

\* Mutant: what the directories hold is left behind.
CopyOneShallow(r, src, dst, method, x) ==
    /\ x \in todo[r]
    /\ todo' = [todo EXCEPT ![r] = @ \ {x}]
    /\ tree' = IF x \in tree[src] THEN [tree EXCEPT ![dst] = @ \union {x, Root}] ELSE tree
    /\ UNCHANGED <<pc, failed, donor, result>>

\* One entry.  A package's directory brings in its files, which come next; a
\* file is linked, or its data copied, into a new file or over another one of
\* its name.  Entries that are gone from the source, that are the same file, or
\* that a link or a directory finds there already, are errors.
CopyOne(r, src, dst, method, x) ==
    LET present == IsFile(x) /\ Holds(tree[dst], x[1], x[2])
        copied == IF ~IsFile(x) \/ method # "copy" THEN {x}
                  ELSE IF present THEN {} ELSE {<<x[1], x[2], dst>>}
        works == /\ x \in tree[src]
                 /\ x \notin tree[dst]
                 /\ IsFile(x) => <<x[1]>> \in tree[dst] /\ (present => method = "copy")
                 /\ method = "fails" => x \in Dirs
        files == IF works THEN {y \in Below(x, tree[src]) : IsFile(y)} ELSE {}
    IN  /\ x \in todo[r]
        /\ (\E y \in todo[r] : IsFile(y)) => IsFile(x)
        /\ todo' = [todo EXCEPT ![r] = (@ \ {x}) \union files]
        /\ tree' = IF works THEN [tree EXCEPT ![dst] = @ \union copied \union {Root}] ELSE tree
        /\ failed' = [failed EXCEPT ![r] = @ \/ ~works]
        /\ UNCHANGED <<pc, donor, result>>

-----------------------------------------------------------------------------
(* ensure_workspace_lake_packages. *)

\* A run starts with a warm workspace, or first removes it (cold start).
Begin(r) ==
    /\ pc[r] = "idle"
    /\ \/ Goto(r, "look") /\ UNCHANGED <<tree, todo, failed, donor, result>>
       \/ StartRemove(r, WorkspaceOf[r], "reset")

Reset(r) ==
    /\ pc[r] = "reset"
    /\ \/ \E x \in Removable(r, WorkspaceOf[r]) : RemoveOne(r, WorkspaceOf[r], x)
       \/ todo[r] = {} /\ Goto(r, "look") /\ UNCHANGED <<tree, todo, failed, donor, result>>

\* The workspace is seeded already, or is linked and only lacks the marker.
AlreadyPresent(r) ==
    /\ pc[r] = "look"
    /\ \/ Seeded(WorkspaceOf[r]) /\ UNCHANGED tree
       \/ /\ ~Seeded(WorkspaceOf[r])
          /\ LinkedToShared(WorkspaceOf[r])
          /\ tree' = [tree EXCEPT ![WorkspaceOf[r]] = @ \union {Marker}]
    /\ Return(r, "ok")

\* Otherwise the shared tree is looked at, and removed if it lacks a package.
LookAtShared(r) ==
    /\ pc[r] = "look"
    /\ ~Seeded(WorkspaceOf[r])
    /\ ~LinkedToShared(WorkspaceOf[r])
    /\ IF HasRequired("shared")
         THEN Goto(r, "recheck") /\ UNCHANGED <<tree, todo, failed, donor, result>>
         ELSE StartRemove(r, "shared", "clear_shared")

ClearShared(r) ==
    /\ pc[r] = "clear_shared"
    /\ \/ \E x \in Removable(r, "shared") : RemoveOne(r, "shared", x)
       \/ todo[r] = {} /\ Goto(r, "donor") /\ UNCHANGED <<tree, todo, failed, donor, result>>

\* The next donor: skipped if it lacks a package; what another runner put into
\* the shared tree meanwhile is removed first.
TryDonor(r) ==
    /\ pc[r] = "donor"
    /\ IF donor[r] > Len(Donors)
         THEN Goto(r, "recheck") /\ UNCHANGED <<tree, todo, failed, donor, result>>
         ELSE IF HasRequired(Donors[donor[r]])
         THEN StartRemove(r, "shared", "clear_again")
         ELSE /\ donor' = [donor EXCEPT ![r] = @ + 1]
              /\ UNCHANGED <<tree, pc, todo, failed, result>>

ClearAgain(r) ==
    /\ pc[r] = "clear_again"
    /\ \/ \E x \in Removable(r, "shared") : RemoveOne(r, "shared", x)
       \/ todo[r] = {} /\ Goto(r, "link_shared") /\ UNCHANGED <<tree, todo, failed, donor, result>>

\* Hard links first; if that fails, the same directory is made again for a full
\* copy, which raises unless somebody removed it.
LinkShared(r) ==
    /\ pc[r] = "link_shared"
    /\ \/ StartCopy(r, Donors[donor[r]], "shared", "linking_shared")
       \/ /\ ~CanStartCopy(Donors[donor[r]], "shared")
          /\ Goto(r, "copy_shared")
          /\ UNCHANGED <<tree, todo, failed, donor, result>>

LinkingShared(r) ==
    /\ pc[r] = "linking_shared"
    /\ \/ \E x \in todo[r] :
            CopyOne(r, Donors[donor[r]], "shared",
                    IF Donors[donor[r]] \in CrossDevice THEN "fails" ELSE "link", x)
       \/ /\ todo[r] = {}
          /\ Goto(r, IF failed[r] THEN "copy_shared" ELSE "recheck")
          /\ failed' = [failed EXCEPT ![r] = FALSE]
          /\ UNCHANGED <<tree, todo, donor, result>>

CopyShared(r) ==
    /\ pc[r] = "copy_shared"
    /\ \/ StartCopy(r, Donors[donor[r]], "shared", "copying_shared")
       \/ ~CanStartCopy(Donors[donor[r]], "shared") /\ Return(r, "raised") /\ UNCHANGED tree

CopyingShared(r) ==
    /\ pc[r] = "copying_shared"
    /\ \/ \E x \in todo[r] : CopyOne(r, Donors[donor[r]], "shared", "copy", x)
       \/ /\ todo[r] = {}
          /\ ~failed[r]
          /\ Goto(r, "recheck")
          /\ UNCHANGED <<tree, todo, failed, donor, result>>
       \/ todo[r] = {} /\ failed[r] /\ Return(r, "raised") /\ UNCHANGED tree

\* With a shared tree that has the packages, the workspace's own is replaced.
Recheck(r) ==
    /\ pc[r] = "recheck"
    /\ IF HasRequired("shared")
         THEN StartRemove(r, WorkspaceOf[r], "clear_workspace")
         ELSE Return(r, "missing") /\ UNCHANGED tree

ClearWorkspace(r) ==
    /\ pc[r] = "clear_workspace"
    /\ \/ \E x \in Removable(r, WorkspaceOf[r]) : RemoveOne(r, WorkspaceOf[r], x)
       \/ todo[r] = {} /\ Goto(r, "seed") /\ UNCHANGED <<tree, todo, failed, donor, result>>

\* A full copy is refused, or fails on the directory the links left behind.
Seed(r) ==
    /\ pc[r] = "seed"
    /\ \/ StartCopy(r, "shared", WorkspaceOf[r], "seeding")
       \/ ~CanStartCopy("shared", WorkspaceOf[r]) /\ Return(r, "error") /\ UNCHANGED tree

Seeding(r) ==
    /\ pc[r] = "seeding"
    /\ \/ \E x \in todo[r] : CopyOne(r, "shared", WorkspaceOf[r], "link", x)
       \/ /\ todo[r] = {}
          /\ ~failed[r] /\ HasRequired(WorkspaceOf[r])
          /\ Goto(r, "mark")
          /\ UNCHANGED <<tree, todo, failed, donor, result>>
       \/ /\ todo[r] = {}
          /\ failed[r] \/ ~HasRequired(WorkspaceOf[r])
          /\ Return(r, "error")
          /\ UNCHANGED tree

Mark(r) ==
    /\ pc[r] = "mark"
    /\ tree' = [tree EXCEPT ![WorkspaceOf[r]] = @ \union {Marker}]
    /\ Return(r, "ok")

\* The runner is killed.
Crash(r) ==
    /\ MayCrash
    /\ pc[r] # "idle"
    /\ Return(r, "none")
    /\ UNCHANGED tree

Step(r) ==
    \/ Begin(r) \/ Reset(r) \/ AlreadyPresent(r)
    \/ LookAtShared(r) \/ ClearShared(r) \/ TryDonor(r) \/ ClearAgain(r)
    \/ LinkShared(r) \/ LinkingShared(r) \/ CopyShared(r) \/ CopyingShared(r)
    \/ Recheck(r) \/ ClearWorkspace(r) \/ Seed(r) \/ Seeding(r) \/ Mark(r)

\* A step taken while another runner is in its call, or a kill, is remembered.
Next ==
    \E r \in Runners :
        \/ /\ Step(r)
           /\ overlapped' = (overlapped \/ \E q \in Runners \ {r} : pc[q] # "idle")
        \/ Crash(r) /\ overlapped' = TRUE

Spec == Init /\ [][Next]_vars

-----------------------------------------------------------------------------
(* Correctness. *)

Idle(r) == pc[r] = "idle"

\* Everything but the marker lies in a directory that is there.
Rooted(t) ==
    /\ t # {} => Root \in t
    /\ \A x \in t : IsFile(x) => <<x[1]>> \in t

TypeOK ==
    /\ tree \in [Locations -> SUBSET Things]
    /\ \A l \in Locations : Rooted(tree[l])
    /\ todo \in [Runners -> SUBSET Things]
    /\ failed \in [Runners -> BOOLEAN]
    /\ donor \in [Runners -> 1 .. Len(Donors) + 1]
    /\ result \in [Runners -> {"none", "ok", "missing", "error", "raised"}]
    /\ overlapped \in BOOLEAN

\* "Every runner workspace must hydrate .lake/packages from that shared cache":
\* as long as the calls come one after the other, whoever's, a call that
\* returned ok left the whole of the packages in its workspace, and nothing that
\* was done since has taken any.
OkMeansHydrated ==
    ~overlapped =>
        \A r \in Runners : Idle(r) /\ result[r] = "ok" => Whole(tree[WorkspaceOf[r]])

\* And a shared tree that passes for usable between such calls is whole, from
\* whichever donor, another runner's workspace included, it was filled.
SharedIsWhole ==
    ~overlapped /\ (\A r \in Runners : Idle(r)) /\ HasRequired("shared") =>
        Whole(tree["shared"])

\* Once a workspace is seeded and whole, nothing is taken from it but by a
\* cold start of its own runner, whatever others do to the shared tree.
SeededStays ==
    [][\A r \in Runners :
         LET w == WorkspaceOf[r] IN
         Seeded(w) /\ Whole(tree[w]) /\ pc[r] # "reset" =>
            tree[w] \subseteq tree'[w]]_vars
=============================================================================
