-------------------------- MODULE GitWorkspaceProofs --------------------------
(***************************************************************************)
(* What a workspace is, for any worktree, pinned tree, overlay and set of  *)
(* restored paths: a sealed case is whole (SealedIsWhole), the patch is    *)
(* what the agent did (PatchIsAgentsWork) and the check state is exact     *)
(* (CheckStateExact). Restore and overlay are one algorithm over two       *)
(* plans: between two paths the worktree is what it started from with the  *)
(* paths already done laid over it.                                        *)
(***************************************************************************)
EXTENDS GitWorkspace, WellFoundedInduction, TLAPS

\* What the sealed repository holds at each step.
Inspected == {"inspected", "digested", "materialized"}
RepoAt(s) ==
  CASE s = "made" -> {}
    [] s = "initialized" -> {"logs"}
    [] s = "borrowed" -> {"logs", "alternates"}
    [] s \in Inspected -> {"logs", "alternates", "pointers"}
    [] s = "written" -> {"logs", "alternates", "contents"}
    [] s = "committed" -> {"logs", "alternates", "contents", "ref"}
    [] s = "repacked" -> {"logs", "alternates", "contents", "ref", "objects"}
    [] OTHER -> {"objects", "contents", "ref"}

Filled == (Sealing \ {"made", "initialized", "borrowed", "inspected", "digested"}) \cup Using

SealFits ==
  /\ stage \in Sealing \cup Using => repo = RepoAt(stage)
  /\ \A p \in Pointers : blobs[p] = "good" \/ (blobs[p] = "none" /\ stage \notin Filled)
  /\ stage \in {"populated", "sealed"} => worktree = Base
  /\ stage \in Waiting => repo = {}

\* Before the agent starts nobody has changed the index or the rules.
Untouched == index = {} /\ ignored = Ignoring
StartsUntouched ==
  /\ stage \in Waiting \cup {"sealed"} \cup Sealing => Untouched
  /\ stage = "set-up" => ignored = Ignoring

\* The tree the patch is taken against lacks of the worktree the agent was given at
\* most what the rules of the pinned tree match.
BaseFits ==
  \A p \in Paths :
    /\ base[p] \in {"absent", Seen(before, p)}
    /\ IsFile(before[p]) /\ p \notin Ignoring => base[p] = before[p]

PatchFits ==
  /\ stage \in {"sealed", "based", "worked", "captured"} => BaseFits
  /\ stage = "captured" =>
       \A p \in Paths :
         patch[p] = IF StageWorktree(base)[p] = base[p] THEN "unchanged" ELSE StageWorktree(base)[p]

-----------------------------------------------------------------------------
\* Restore and overlay lay entries over a tree: files, with the directories they need.
Leads(paths) == {d \in Paths : \E q \in paths : d \in Above(q)}
Laid(tree, content, files, dirs, gone) ==
  [p \in Paths |->
     IF p \in files THEN content[p]
     ELSE IF p \in dirs THEN "dir"
     ELSE IF p \in gone \/ \E d \in Above(p) : d \in files THEN "absent"
     ELSE tree[p]]

\* The plan of a phase: what it starts from, and the files and directories of the paths
\* of a set that it lays.
Content(phase) == IF phase = "restoring" THEN Base ELSE Overlay
Plan(phase) == IF phase = "restoring" THEN Matched ELSE Snapshot
Start(phase) == IF phase = "restoring" THEN found ELSE Restored(found)
FilesOf(phase, paths) == {p \in paths : IsFile(Content(phase)[p])}
DirsOf(phase, paths) == Leads(paths) \cup {p \in paths : ~IsFile(Content(phase)[p])}
Left(phase) == IF phase = "restoring" THEN todo.restore ELSE todo.overlay
Done(phase) == Plan(phase) \ Left(phase)
Gone(phase) == IF phase = "restoring" THEN Untracked(found) \ todo.delete ELSE {}
Between(phase) ==
  Laid(Start(phase), Content(phase), FilesOf(phase, Done(phase)), DirsOf(phase, Done(phase)), Gone(phase))

\* Where the current path stands: the leading directories behind it are real, and the
\* one at hand, or the path itself, may be cleared already.
Passed == {Segments[i] : i \in 1..(at - 1)}
AtEnd == at = Len(Segments) + 1
ClearedNow(p, entry) ==
  \/ at \in 1..Len(Segments) /\ p = Segments[at] /\ IsFile(entry)
  \/ AtEnd /\ p \in Below(Current) /\ worktree[Current] = "absent"
Entry(phase, p) ==
  IF at > 0 /\ p \in Passed THEN worktree[p] = "dir"
  ELSE \/ worktree[p] = Between(phase)[p]
       \/ at > 0 /\ worktree[p] = "absent" /\ ClearedNow(p, Between(phase)[p])

\* A file that is replaced by the one of its path is not a removed one.
Replaced(p) == at > 0 /\ AtEnd /\ ~IsDirectoryEntry /\ p = Current
RemovedIn(phase) == IF phase = "restoring" THEN record.removed ELSE record.overlayRemoved

Phase(phase) ==
  /\ \A p \in Paths : Entry(phase, p)
  /\ RemovedIn(phase) = {p \in Lost(Start(phase), worktree) : ~Replaced(p)}
  /\ todo.delete \subseteq Untracked(found) /\ Left(phase) \subseteq Plan(phase)
  /\ at > 0 => /\ todo.delete = {} /\ Left(phase) # {}
               /\ at <= Len(Segments) + 1

RestoreFits ==
  stage = "restoring" =>
    /\ Phase("restoring")
    /\ todo.overlay = {} /\ (todo.delete # {} => todo.restore = Matched)
    /\ record.restored = {p \in Done("restoring") : found[p] # Base[p]}
    /\ at > 0 => found[Current] # Base[Current]
    /\ record.overlayRemoved = {} /\ record.files = {}

RestoredFits ==
  /\ record.restored = {p \in Matched : found[p] # Base[p]}
  /\ record.removed = Lost(found, Restored(found))

OverlayFits ==
  stage = "overlaying" =>
    /\ Phase("overlaying") /\ RestoredFits
    /\ todo.delete = {} /\ todo.restore = {}
    /\ record.files = FilesOf("overlaying", Done("overlaying"))

CheckFits ==
  /\ ~outside
  /\ stage \notin Over \cup {"restoring", "overlaying", "checked"} => at = 0 /\ record = NoRecord
  /\ stage = "checked" =>
       /\ worktree = Overlaid(Restored(found)) /\ RestoredFits
       /\ record.overlayRemoved = Lost(Restored(found), worktree)
       /\ record.files = {p \in Paths : Overlay[p] = "overlay"}

CheckInv == RestoreFits /\ OverlayFits /\ CheckFits

WorkspaceInv == WorkspaceTypeOK /\ SealFits /\ StartsUntouched /\ PatchFits /\ CheckInv

-----------------------------------------------------------------------------
(* Paths, trees and the order.                                             *)

LEMMA AboveIs ==
  ASSUME NEW p \in Paths
  PROVE  /\ Above(p) \subseteq Paths /\ p \notin Above(p)
         /\ \A d \in Above(p) : Above(d) \subseteq Above(p)
<1>1. Leading[p] \in Seq(Paths)  BY WorkspaceAssumption
<1>2. Above(p) \subseteq Paths  BY <1>1 DEF Above
<1>3. ASSUME NEW d \in Above(p) PROVE Above(d) \subseteq Above(p)
  <2>1. PICK i \in DOMAIN Leading[p] : d = Leading[p][i]  BY <1>3 DEF Above
  <2>2. Above(d) = {Leading[p][j] : j \in 1..(i - 1)}  BY <2>1, WorkspaceAssumption
  <2>3. 1..(i - 1) \subseteq DOMAIN Leading[p]  BY <1>1, <2>1
  <2>. QED  BY <2>2, <2>3 DEF Above
<1>. QED  BY <1>2, <1>3, WorkspaceAssumption

LEMMA FirstIn ==
  ASSUME NEW paths \in SUBSET Paths, paths # {}
  PROVE  First(paths) \in paths
<1>. DEFINE places == {i \in DOMAIN Order : Order[i] \in paths}
            Least(i) == i \in DOMAIN Order /\ Order[i] \in paths /\ \A j \in 1..(i - 1) : Order[j] \notin paths
<1>1. places \subseteq Nat /\ places # {}  BY WorkspaceAssumption
<1>2. PICK i \in places : \A j \in places : ~ (<<j, i>> \in OpToRel(<, Nat))
  BY <1>1, NatLessThanWellFounded, WFMin, Zenon
<1>3. \A j \in places : ~ (j < i)  BY <1>1, <1>2 DEF OpToRel
<1>4. \A j \in 1..(i - 1) : j \in DOMAIN Order  BY WorkspaceAssumption
<1>5. Least(i)  BY <1>1, <1>3, <1>4
<1>6. First(paths) = Order[CHOOSE k \in DOMAIN Order : Least(k)]  BY DEF First
<1>7. Least(CHOOSE k \in DOMAIN Order : Least(k))  BY <1>5
<1>. QED  BY <1>6, <1>7

LEMMA TreeHas ==
  ASSUME NEW tree \in Trees
  PROVE  /\ tree \in [Paths -> Entries]
         /\ \A p \in Paths : tree[p] # "absent" => \A d \in Above(p) : tree[d] = "dir"
         /\ \A p, d \in Paths : d \in Above(p) /\ tree[d] # "dir" => tree[p] = "absent"
BY DEF Trees

LEMMA TreeFrom ==
  ASSUME NEW tree \in [Paths -> Entries],
         \A p, d \in Paths : d \in Above(p) /\ tree[p] # "absent" => tree[d] = "dir"
  PROVE  tree \in Trees
BY AboveIs DEF Trees

LEMMA EmptyTreeIs == EmptyTree \in Trees
BY DEF EmptyTree, Trees, Entries

\* A cleared tree is one.
LEMMA ClearedIs ==
  ASSUME worktree \in Trees, NEW p \in Paths
  PROVE  /\ Cleared(p) \in Trees
         /\ \A q \in Paths : Cleared(p)[q] = IF q = p \/ p \in Above(q) THEN "absent" ELSE worktree[q]
<1>1. \A q \in Paths : Cleared(p)[q] = IF q = p \/ p \in Above(q) THEN "absent" ELSE worktree[q]
  BY DEF Cleared, Below
<1>2. Cleared(p) \in [Paths -> Entries]  BY TreeHas DEF Cleared, Entries
<1>3. ASSUME NEW q \in Paths, NEW d \in Paths, d \in Above(q), Cleared(p)[q] # "absent"
      PROVE  Cleared(p)[d] = "dir"
  <2>1. q # p /\ p \notin Above(q) /\ worktree[q] # "absent"  BY <1>1, <1>3
  <2>2. d # p /\ p \notin Above(d)  BY <1>3, <2>1, AboveIs
  <2>3. worktree[d] = "dir"  BY <1>3, <2>1, TreeHas
  <2>. QED  BY <1>1, <2>2, <2>3
<1>. QED  BY <1>1, <1>2, <1>3, TreeFrom

\* An entry below real directories where nothing was.
LEMMA EntryAdded ==
  ASSUME worktree \in Trees, NEW p \in Paths, NEW e \in Entries \ {"absent"},
         worktree[p] = "absent", \A d \in Above(p) : worktree[d] = "dir"
  PROVE  [worktree EXCEPT ![p] = e] \in Trees
<1>1. worktree \in [Paths -> Entries]  BY TreeHas
<1>. DEFINE t == [worktree EXCEPT ![p] = e]
<1>2. t \in [Paths -> Entries] /\ \A q \in Paths : t[q] = IF q = p THEN e ELSE worktree[q]  BY <1>1
<1>3. ASSUME NEW q \in Paths, NEW d \in Paths, d \in Above(q), t[q] # "absent"
      PROVE  t[d] = "dir"
  <2>1. CASE q = p  BY <1>2, <1>3, <2>1, AboveIs
  <2>2. CASE q # p
    <3>1. worktree[d] = "dir"  BY <1>2, <1>3, <2>2, TreeHas
    <3>. QED  BY <1>2, <3>1
  <2>. QED  BY <2>1, <2>2
<1>. HIDE DEF t
<1>4. t \in Trees  BY <1>2, <1>3, TreeFrom
<1>. QED  BY <1>4 DEF t

-----------------------------------------------------------------------------
(* The steps of a case.                                                    *)

Steps == Waiting \cup Sealing \cup Using \cup Over
StageTypes == stage \in Steps

SealTypes ==
  /\ lfs \in [Pointers -> {"good", "corrupt", "absent"}]
  /\ repo \subseteq RepoParts
  /\ blobs \in [Pointers -> {"none", "good", "corrupt"}]
TreeTypes == worktree \in Trees /\ index \subseteq Paths /\ ignored \subseteq Paths
PatchTypes ==
  /\ before \in Trees
  /\ base \in [Paths -> Files \cup {"absent"}]
  /\ patch \in [Paths -> Files \cup {"absent", "unchanged"}]
CheckKinds ==
  /\ found \in Trees
  /\ todo \in [delete : SUBSET Paths, restore : SUBSET Paths, overlay : SUBSET Paths]
  /\ at \in Nat
  /\ record \in [restored : SUBSET Paths, removed : SUBSET Paths, files : SUBSET Paths,
                 overlayRemoved : SUBSET Paths]
  /\ outside \in BOOLEAN

LEMMA TypesFit ==
  /\ WorkspaceTypeOK <=> StageTypes /\ SealTypes /\ TreeTypes /\ PatchTypes /\ CheckKinds
  /\ WorkspaceTypeOK' <=> StageTypes' /\ SealTypes' /\ TreeTypes' /\ PatchTypes' /\ CheckKinds'
BY DEF WorkspaceTypeOK, StageTypes, SealTypes, TreeTypes, PatchTypes, CheckKinds, Steps

LEMMA Moves ==
  ASSUME NEW s \in Sealing \cup Using \cup Over, Goto(s)
  PROVE  StageTypes' /\ stage' = s
BY DEF Goto, StageTypes, Steps

-----------------------------------------------------------------------------
(* Steps that change nothing but how far the case is.                      *)

\* Everything but how far it is.
Rest == SealTypes /\ TreeTypes /\ PatchTypes /\ CheckKinds
        /\ SealFits /\ StartsUntouched /\ PatchFits /\ CheckInv

LEMMA InvIs ==
  /\ WorkspaceInv <=> StageTypes /\ Rest
  /\ WorkspaceInv' <=> StageTypes' /\ Rest'
BY TypesFit DEF WorkspaceInv, Rest

LEMMA PhaseAgrees ==
  ASSUME NEW phase, UNCHANGED <<worktree, found, todo, at, record>>
  PROVE  Phase(phase) <=> Phase(phase)'
<1>1. Doing' = Doing /\ Current' = Current  BY DEF Doing, Current
<1>2. IsDirectoryEntry' = IsDirectoryEntry /\ Segments' = Segments
  BY <1>1 DEF IsDirectoryEntry, Segments
<1>3. Left(phase)' = Left(phase) /\ Done(phase)' = Done(phase) /\ Start(phase)' = Start(phase)
      /\ Gone(phase)' = Gone(phase) /\ RemovedIn(phase)' = RemovedIn(phase)
  BY DEF Left, Done, Plan, Start, Gone, RemovedIn
<1>4. Between(phase)' = Between(phase)  BY <1>3 DEF Between
<1>5. \A p : (AtEnd <=> AtEnd') /\ (Replaced(p) <=> Replaced(p)')  BY <1>1, <1>2 DEF AtEnd, Replaced
<1>6. Passed' = Passed  BY <1>2 DEF Passed
<1>7. \A p, e : ClearedNow(p, e) <=> ClearedNow(p, e)'  BY <1>1, <1>2, <1>5 DEF ClearedNow
<1>8. \A p : Entry(phase, p) <=> Entry(phase, p)'  BY <1>4, <1>6, <1>7 DEF Entry
<1>9. {p \in Lost(Start(phase), worktree) : ~Replaced(p)}' = {p \in Lost(Start(phase), worktree) : ~Replaced(p)}
  BY <1>3, <1>5 DEF Lost
<1>. QED  BY <1>2, <1>3, <1>8, <1>9 DEF Phase

LEMMA SameStage ==
  ASSUME Rest, stage' = stage, UNCHANGED <<sealVars, treeVars, patchVars, checkVars>>
  PROVE  Rest'
<1>1. SealTypes' /\ TreeTypes' /\ PatchTypes' /\ CheckKinds'
  BY DEF Rest, SealTypes, TreeTypes, PatchTypes, CheckKinds, sealVars, treeVars, patchVars, checkVars
<1>2. SealFits' /\ StartsUntouched'
  BY DEF Rest, SealFits, StartsUntouched, Untouched, sealVars, treeVars
<1>3. PatchFits'
  BY DEF Rest, PatchFits, BaseFits, Seen, StageWorktree, treeVars, patchVars
<1>4. CheckInv'
  <2>1. UNCHANGED <<worktree, found, todo, at, record, outside>>  BY DEF treeVars, checkVars
  <2>2. (Phase("restoring") <=> Phase("restoring")') /\ (Phase("overlaying") <=> Phase("overlaying")')
    BY <2>1, PhaseAgrees
  <2>3. Done("restoring")' = Done("restoring") /\ Done("overlaying")' = Done("overlaying")
        /\ Current' = Current
    BY <2>1 DEF Done, Plan, Left, Current, Doing
  <2>4. FilesOf("overlaying", Done("overlaying"))' = FilesOf("overlaying", Done("overlaying"))
    BY <2>3 DEF FilesOf
  <2>5. RestoredFits <=> RestoredFits'  BY <2>1 DEF RestoredFits
  <2>6. RestoreFits'  BY <2>1, <2>2, <2>3 DEF Rest, CheckInv, RestoreFits
  <2>7. OverlayFits'  BY <2>1, <2>2, <2>3, <2>4, <2>5 DEF Rest, CheckInv, OverlayFits
  <2>8. CheckFits'  BY <2>1, <2>5 DEF Rest, CheckInv, CheckFits, Lost
  <2>. QED  BY <2>6, <2>7, <2>8 DEF CheckInv
<1>. QED  BY <1>1, <1>2, <1>3, <1>4 DEF Rest

LEMMA PlacesDiffer ==
  /\ \A s \in Over : s \notin Waiting \cup Sealing \cup Using
  /\ \A s \in Sealing : s \notin Waiting \cup {"sealed"} \cup Using \cup Over
  /\ \A s \in Waiting : s \notin Using
  /\ Filled \subseteq Sealing \cup Using
BY DEF Over, Sealing, Using, Filled, Waiting

\* The case is over and the directory stays.
LEMMA LeftBehind ==
  ASSUME Rest, stage' \in Over, UNCHANGED <<sealVars, treeVars, patchVars, checkVars>>
  PROVE  Rest'
<1>1. SealTypes' /\ TreeTypes' /\ PatchTypes' /\ CheckKinds'
  BY DEF Rest, SealTypes, TreeTypes, PatchTypes, CheckKinds, sealVars, treeVars, patchVars, checkVars
<1>2. SealFits'
  BY PlacesDiffer DEF Rest, SealFits, sealVars, Sealing, Using
<1>3. StartsUntouched' /\ PatchFits'
  BY PlacesDiffer DEF StartsUntouched, PatchFits, Sealing, Using
<1>4. CheckInv'
  BY PlacesDiffer DEF Rest, CheckInv, RestoreFits, OverlayFits, CheckFits, checkVars, Using
<1>. QED  BY <1>1, <1>2, <1>3, <1>4 DEF Rest

\* The directory is gone.
LEMMA LeftEmpty ==
  ASSUME Rest, stage' \in Over, Emptied, UNCHANGED <<lfs, outside>>
  PROVE  Rest'
<1>1. SealTypes' /\ TreeTypes' /\ PatchTypes' /\ CheckKinds'
  <2>1. SealTypes'  BY DEF Rest, SealTypes, Emptied, RepoParts
  <2>2. TreeTypes'  BY EmptyTreeIs, WorkspaceAssumption DEF TreeTypes, Emptied
  <2>3. PatchTypes'  BY EmptyTreeIs DEF PatchTypes, Emptied, EmptyTree, Unchanged
  <2>4. CheckKinds'  BY EmptyTreeIs DEF Rest, CheckKinds, Emptied, NoWork, NoRecord
  <2>. QED  BY <2>1, <2>2, <2>3, <2>4
<1>2. SealFits'  BY PlacesDiffer DEF SealFits, Sealing, Using, Emptied
<1>3. StartsUntouched'  BY DEF StartsUntouched, Untouched, Emptied
<1>4. PatchFits'  BY PlacesDiffer DEF PatchFits, Using
<1>5. CheckInv'
  BY PlacesDiffer DEF Using, Rest, CheckInv, RestoreFits, OverlayFits, CheckFits, Emptied
<1>. QED  BY <1>1, <1>2, <1>3, <1>4, <1>5 DEF Rest

-----------------------------------------------------------------------------
(* Sealing.                                                                *)

\* A step of sealing is none of the index, of the patch or of the check state.
LEMMA SealingKeeps ==
  ASSUME Rest, stage \in Waiting \cup Sealing, stage' \in Waiting \cup Sealing,
         UNCHANGED <<index, ignored, patchVars, checkVars>>,
         SealTypes', worktree' \in Trees, SealFits'
  PROVE  Rest'
<1>1. TreeTypes' /\ PatchTypes' /\ CheckKinds'
  BY DEF Rest, TreeTypes, PatchTypes, CheckKinds, patchVars, checkVars
<1>2. StartsUntouched'
  BY PlacesDiffer DEF Rest, StartsUntouched, Untouched, Sealing, Waiting
<1>3. PatchFits'
  BY DEF PatchFits, Sealing, Waiting
<1>4. CheckInv'
  <2>1. stage \notin Over \cup {"restoring", "overlaying", "checked"}  BY DEF Sealing, Waiting, Over
  <2>2. stage' \notin Over \cup {"restoring", "overlaying", "checked"}  BY DEF Sealing, Waiting, Over
  <2>. QED  BY <2>1, <2>2 DEF Rest, CheckInv, RestoreFits, OverlayFits, CheckFits, checkVars
<1>. QED  BY <1>1, <1>2, <1>3, <1>4 DEF Rest

\* A step of sealing in the directory that writes no object.
LEMMA RepoKeeps ==
  ASSUME WorkspaceInv, NEW s \in Sealing, stage \in Sealing, Goto(s),
         UNCHANGED <<lfs, blobs, treeVars, patchVars, checkVars>>,
         repo = RepoAt(stage) => repo' = RepoAt(s),
         s \in Filled => stage \in Filled \/ Pointers = {}, s # "populated"
  PROVE  WorkspaceInv'
<1>1. StageTypes /\ Rest  BY InvIs
<1>2. StageTypes' /\ stage' = s  BY <1>1, Moves
<1>3. repo' = RepoAt(s)  BY <1>1, <1>2 DEF Rest, SealFits
<1>4. UNCHANGED <<worktree, index, ignored>>  BY DEF treeVars
<1>5. SealTypes'  BY <1>1, <1>3 DEF Rest, SealTypes, RepoAt, RepoParts
<1>6. \A p \in Pointers : blobs[p] = "good" \/ (blobs[p] = "none" /\ s \notin Filled)
  BY <1>1, <1>2 DEF Rest, SealFits
<1>7. SealFits'  BY <1>2, <1>3, <1>4, <1>6, PlacesDiffer DEF SealFits
<1>. QED  BY <1>1, <1>2, <1>4, <1>5, <1>7, SealingKeeps, InvIs DEF Rest, TreeTypes

\* The case before it has a directory, and the directory when it is made.
LEMMA WaitingKeeps ==
  ASSUME WorkspaceInv, ValidateSource \/ RefuseCase \/ MakeCaseDirectory
  PROVE  WorkspaceInv'
<1>1. /\ stage \in Waiting /\ stage' \in {"validated", "refused", "made"}
      /\ UNCHANGED <<sealVars, treeVars, patchVars, checkVars>>
  BY DEF ValidateSource, RefuseCase, MakeCaseDirectory, Step, Goto, Waiting
<1>2. StageTypes' /\ Rest  BY <1>1, InvIs DEF StageTypes, Steps, Waiting, Over, Sealing
<1>3. CASE stage' = "refused"
  <2>1. "refused" \in Over  BY DEF Over
  <2>. QED  BY <1>1, <1>2, <1>3, <2>1, LeftBehind, InvIs
<1>4. CASE stage' \in {"validated", "made"}
  <2>1. /\ stage' \in Waiting \cup Sealing /\ stage' \notin Filled \cup Using \cup {"populated"}
        /\ stage' \in Sealing => stage' = "made" /\ RepoAt("made") = {}
        /\ stage \notin Filled
    BY <1>1, <1>4 DEF Waiting, Sealing, Filled, Using, RepoAt, Inspected
  <2>2. SealTypes'  BY <1>1, <1>2 DEF Rest, SealTypes, sealVars
  <2>3. SealFits'
    BY <1>1, <1>2, <2>1 DEF Rest, SealFits, sealVars, Using
  <2>. QED  BY <1>1, <1>2, <2>1, <2>2, <2>3, SealingKeeps, InvIs DEF Rest, TreeTypes, treeVars
<1>. QED  BY <1>1, <1>3, <1>4

LEMMA InitRepositoryKeeps ==
  ASSUME WorkspaceInv, InitRepository
  PROVE  WorkspaceInv'
<1>1. /\ stage = "made" /\ Goto("initialized") /\ repo' = repo \cup {"logs"}
      /\ UNCHANGED <<lfs, blobs, treeVars, patchVars, checkVars>>
  BY DEF InitRepository, Step
<1>2. repo = RepoAt(stage) => repo' = RepoAt("initialized")
  BY <1>1 DEF RepoAt, Inspected
<1>3. {"made", "initialized"} \subseteq Sealing /\ "initialized" \notin Filled
  BY DEF Sealing, Filled, Using
<1>. QED  BY <1>1, <1>2, <1>3, RepoKeeps

LEMMA BorrowObjectsKeeps ==
  ASSUME WorkspaceInv, BorrowObjects
  PROVE  WorkspaceInv'
<1>1. /\ stage = "initialized" /\ Goto("borrowed") /\ repo' = repo \cup {"alternates"}
      /\ UNCHANGED <<lfs, blobs, treeVars, patchVars, checkVars>>
  BY DEF BorrowObjects, Step
<1>2. repo = RepoAt(stage) => repo' = RepoAt("borrowed")
  BY <1>1 DEF RepoAt, Inspected
<1>3. {"initialized", "borrowed"} \subseteq Sealing /\ "borrowed" \notin Filled
  BY DEF Sealing, Filled, Using
<1>. QED  BY <1>1, <1>2, <1>3, RepoKeeps

LEMMA InspectSourceTreeKeeps ==
  ASSUME WorkspaceInv, InspectSourceTree
  PROVE  WorkspaceInv'
<1>. DEFINE s == IF Pointers = {} THEN "written" ELSE "inspected"
            tree == IF Pointers = {} THEN "contents" ELSE "pointers"
<1>1. /\ stage = "borrowed" /\ Goto(s) /\ repo' = repo \cup {tree}
      /\ UNCHANGED <<lfs, blobs, treeVars, patchVars, checkVars>>
  BY DEF InspectSourceTree, Step
<1>2. RepoAt("borrowed") \cup {tree} = RepoAt(s)  BY DEF RepoAt, Inspected
<1>3. repo = RepoAt(stage) => repo' = RepoAt(s)  BY <1>1, <1>2
<1>4. "borrowed" \in Sealing /\ s \in Sealing /\ s # "populated" /\ (s \in Filled => Pointers = {})
  BY DEF Sealing, Filled, Using
<1>. HIDE DEF s
<1>. QED  BY <1>1, <1>3, <1>4, RepoKeeps

LEMMA DigestObjectKeeps ==
  ASSUME WorkspaceInv, DigestObject
  PROVE  WorkspaceInv'
<1>1. /\ stage = "inspected" /\ Goto("digested") /\ repo' = repo
      /\ UNCHANGED <<lfs, blobs, treeVars, patchVars, checkVars>>
  BY DEF DigestObject, Step, sealVars
<1>2. RepoAt("inspected") = RepoAt("digested")
  BY DEF RepoAt, Inspected
<1>3. {"inspected", "digested"} \subseteq Sealing /\ "digested" \notin Filled
  BY DEF Sealing, Filled, Using
<1>. QED  BY <1>1, <1>2, <1>3, RepoKeeps

\* When the last object is written, all are.
LEMMA HashObjectKeeps ==
  ASSUME WorkspaceInv, HashObject
  PROVE  WorkspaceInv'
<1>. DEFINE s == IF Unwritten = {NextObject} THEN "materialized" ELSE "inspected"
<1>1. /\ stage = "digested" /\ Goto(s) /\ blobs' = [blobs EXCEPT ![NextObject] = "good"]
      /\ UNCHANGED <<lfs, repo, worktree, index, ignored, patchVars, checkVars>>
  BY DEF HashObject, treeVars
<1>2. StageTypes /\ Rest
  BY <1>1, InvIs DEF Sealing
<1>3. s \in Sealing /\ s # "populated" /\ (s \in Filled => Unwritten = {NextObject})
  BY DEF Sealing, Filled, Using
<1>4. RepoAt("digested") = RepoAt(s)  BY DEF RepoAt, Inspected
<1>. HIDE DEF s
<1>5. StageTypes' /\ stage = "digested" /\ stage' = s  BY <1>1, <1>2, <1>3, Moves
<1>6. "digested" \in Sealing  BY DEF Sealing
<1>7. repo' = RepoAt(s)  BY <1>1, <1>2, <1>4, <1>5, <1>6 DEF Rest, SealFits
<1>8. SealTypes'  BY <1>1, <1>2 DEF Rest, SealTypes
<1>9. ASSUME NEW p \in Pointers PROVE blobs'[p] = "good" \/ (blobs'[p] = "none" /\ s \notin Filled)
  <2>1. blobs[p] \in {"good", "none"} /\ blobs'[p] = IF p = NextObject THEN "good" ELSE blobs[p]
    BY <1>1, <1>2 DEF Rest, SealFits, SealTypes
  <2>2. blobs[p] = "none" => p \in Unwritten  BY DEF Unwritten
  <2>. QED  BY <1>3, <2>1, <2>2
<1>10. SealFits'  BY <1>3, <1>5, <1>7, <1>9, PlacesDiffer DEF SealFits
<1>11. Rest'  BY <1>1, <1>2, <1>3, <1>5, <1>6, <1>8, <1>10, SealingKeeps DEF Rest, TreeTypes
<1>. QED  BY <1>5, <1>11, InvIs

LEMMA WriteTreeWithEntriesKeeps ==
  ASSUME WorkspaceInv, WriteTreeWithEntries
  PROVE  WorkspaceInv'
<1>1. /\ stage = "materialized" /\ Goto("written") /\ repo' = (repo \ {"pointers"}) \cup {"contents"}
      /\ UNCHANGED <<lfs, blobs, treeVars, patchVars, checkVars>>
  BY DEF WriteTreeWithEntries, Step
<1>2. repo = RepoAt(stage) => repo' = RepoAt("written")
  BY <1>1 DEF RepoAt, Inspected
<1>3. {"materialized", "written"} \subseteq Sealing /\ "materialized" \in Filled
  BY DEF Sealing, Filled, Using
<1>. QED  BY <1>1, <1>2, <1>3, RepoKeeps

LEMMA CommitTreeKeeps ==
  ASSUME WorkspaceInv, CommitTree
  PROVE  WorkspaceInv'
<1>1. /\ stage = "written" /\ Goto("committed") /\ repo' = repo \cup {"ref"}
      /\ UNCHANGED <<lfs, blobs, treeVars, patchVars, checkVars>>
  BY DEF CommitTree, Step
<1>2. repo = RepoAt(stage) => repo' = RepoAt("committed")
  BY <1>1 DEF RepoAt, Inspected
<1>3. {"written", "committed"} \subseteq Sealing /\ "written" \in Filled
  BY DEF Sealing, Filled, Using
<1>. QED  BY <1>1, <1>2, <1>3, RepoKeeps

LEMMA RepackKeeps ==
  ASSUME WorkspaceInv, Repack
  PROVE  WorkspaceInv'
<1>1. /\ stage = "committed" /\ Goto("repacked") /\ repo' = repo \cup {"objects"}
      /\ UNCHANGED <<lfs, blobs, treeVars, patchVars, checkVars>>
  BY DEF Repack, Step
<1>2. repo = RepoAt(stage) => repo' = RepoAt("repacked")
  BY <1>1 DEF RepoAt, Inspected
<1>3. {"committed", "repacked"} \subseteq Sealing /\ "committed" \in Filled
  BY DEF Sealing, Filled, Using
<1>. QED  BY <1>1, <1>2, <1>3, RepoKeeps

LEMMA RemoveAlternatesKeeps ==
  ASSUME WorkspaceInv, RemoveAlternates
  PROVE  WorkspaceInv'
<1>1. /\ stage = "repacked" /\ Goto("unlinked") /\ repo' = repo \ {"alternates", "logs"}
      /\ UNCHANGED <<lfs, blobs, treeVars, patchVars, checkVars>>
  BY DEF RemoveAlternates, Step
<1>2. repo = RepoAt(stage) => repo' = RepoAt("unlinked")
  BY <1>1 DEF RepoAt, Inspected
<1>3. {"repacked", "unlinked"} \subseteq Sealing /\ "repacked" \in Filled
  BY DEF Sealing, Filled, Using
<1>. QED  BY <1>1, <1>2, <1>3, RepoKeeps

LEMMA PopulateWorktreeKeeps ==
  ASSUME WorkspaceInv, PopulateWorktree
  PROVE  WorkspaceInv'
<1>1. /\ stage = "unlinked" /\ Goto("populated") /\ worktree' = Base
      /\ UNCHANGED <<lfs, repo, blobs, index, ignored, patchVars, checkVars>>
  BY DEF PopulateWorktree, Step, sealVars
<1>2. {"unlinked", "populated"} \subseteq Sealing /\ "unlinked" \in Filled
  BY DEF Sealing, Filled
<1>3. StageTypes /\ Rest
  BY <1>1, <1>2, InvIs
<1>4. StageTypes' /\ stage = "unlinked" /\ stage' = "populated"
  BY <1>1, <1>2, <1>3, Moves
<1>5. RepoAt("unlinked") = RepoAt("populated")  BY DEF RepoAt, Inspected
<1>6. SealTypes' /\ SealFits'
  BY <1>1, <1>2, <1>3, <1>4, <1>5 DEF Waiting, Rest, SealTypes, SealFits
<1>7. Rest'  BY <1>1, <1>2, <1>3, <1>4, <1>6, SealingKeeps, WorkspaceAssumption
<1>. QED  BY <1>4, <1>7, InvIs

\* The agent, or setup, is given the pinned tree, and the patch is taken against it.
LEMMA CheckSealedTreeKeeps ==
  ASSUME WorkspaceInv, CheckSealedTree
  PROVE  WorkspaceInv'
<1>1. /\ stage = "populated" /\ Goto("sealed") /\ before' = worktree
      /\ base' = [p \in Paths |-> IF worktree[p] \in Files THEN worktree[p] ELSE "absent"]
      /\ UNCHANGED <<lfs, repo, blobs, worktree, index, ignored, patch, checkVars>>
  BY DEF CheckSealedTree, Step, sealVars, treeVars
<1>2. /\ "populated" \in Sealing /\ "sealed" \in Using /\ "populated" \in Filled
      /\ "populated" \notin Over \cup {"restoring", "overlaying", "checked"}
      /\ "sealed" \notin Over \cup {"restoring", "overlaying", "checked"}
  BY DEF Sealing, Using, Filled, Over
<1>3. StageTypes /\ Rest
  BY <1>1, <1>2, InvIs
<1>4. StageTypes' /\ stage = "populated" /\ stage' = "sealed"
  BY <1>1, <1>2, <1>3, Moves
<1>5. RepoAt("populated") = RepoAt("sealed")  BY DEF RepoAt, Inspected
<1>6. SealTypes' /\ SealFits'
  BY <1>1, <1>2, <1>3, <1>4, <1>5 DEF Waiting, Rest, SealTypes, SealFits
<1>7. TreeTypes' /\ PatchTypes' /\ CheckKinds'
  BY <1>1, <1>3 DEF Rest, TreeTypes, PatchTypes, CheckKinds, checkVars
<1>8. StartsUntouched'
  BY <1>1, <1>2, <1>3, <1>4 DEF Rest, StartsUntouched, Untouched
<1>9. PatchFits'
  BY <1>1, <1>4 DEF PatchFits, BaseFits, Seen, IsFile
<1>10. CheckInv'
  BY <1>1, <1>2, <1>3, <1>4 DEF Rest, CheckInv, RestoreFits, OverlayFits, CheckFits, checkVars
<1>11. Rest'  BY <1>6, <1>7, <1>8, <1>9, <1>10 DEF Rest
<1>. QED  BY <1>4, <1>11, InvIs

\* A seal that fails removes what it made, or cannot.
LEMMA FailSealKeeps ==
  ASSUME WorkspaceInv, FailSeal
  PROVE  WorkspaceInv'
<1>1. StageTypes /\ Rest /\ Goto("failed") /\ "failed" \in Over
  BY InvIs DEF FailSeal, Over
<1>2. CASE Emptied /\ UNCHANGED <<lfs, outside>>
  <2>1. StageTypes' /\ stage' = "failed"  BY <1>1, Moves
  <2>. QED  BY <1>1, <1>2, <2>1, LeftEmpty, InvIs
<1>3. CASE UNCHANGED <<sealVars, treeVars, patchVars, checkVars>>
  <2>1. StageTypes' /\ stage' = "failed"  BY <1>1, Moves
  <2>. QED  BY <1>1, <1>3, <2>1, LeftBehind, InvIs
<1>. QED  BY <1>2, <1>3 DEF FailSeal

\* The storage is none of the directory's.
LEMMA StorageChangesKeeps ==
  ASSUME WorkspaceInv, NEW p \in Pointers, StorageChanges(p)
  PROVE  WorkspaceInv'
<1>1. /\ lfs' \in [Pointers -> {"good", "corrupt", "absent"}]
      /\ stage \in Waiting \cup {"made", "initialized", "borrowed", "inspected", "digested"}
      /\ UNCHANGED <<stage, repo, blobs, treeVars, patchVars, checkVars>>
  BY InvIs DEF StorageChanges, Rest, SealTypes
<1>2. StageTypes /\ Rest  BY InvIs
<1>3. stage' = stage /\ StageTypes'
  BY <1>1, <1>2 DEF StageTypes
<1>4. SealTypes' /\ SealFits'
  BY <1>1, <1>2, <1>3 DEF Rest, SealTypes, SealFits, treeVars
<1>5. TreeTypes' /\ PatchTypes' /\ CheckKinds'
  BY <1>1, <1>2 DEF Rest, TreeTypes, PatchTypes, CheckKinds, treeVars, patchVars, checkVars
<1>6. StartsUntouched'  BY <1>1, <1>2, <1>3 DEF Rest, StartsUntouched, Untouched, treeVars
<1>7. PatchFits'  BY <1>1, <1>3 DEF PatchFits, Waiting
<1>8. CheckInv'
  BY <1>1, <1>2, <1>3 DEF Waiting, Over, Rest, CheckInv, RestoreFits, OverlayFits, CheckFits, checkVars
<1>9. Rest'  BY <1>4, <1>5, <1>6, <1>7, <1>8 DEF Rest
<1>. QED  BY <1>3, <1>9, InvIs

-----------------------------------------------------------------------------
(* The patch.                                                              *)

Patching == {"sealed", "set-up", "based", "worked", "captured"}

\* A step between the seal and the check state is none of the seal or of the check state.
LEMMA PatchingKeeps ==
  ASSUME WorkspaceInv, stage \in Patching,
         NEW s \in Patching \ {"sealed"}, Goto(s), UNCHANGED <<sealVars, checkVars>>,
         TreeTypes', PatchTypes',
         s = "set-up" => ignored' = Ignoring,
         s \in {"based", "worked", "captured"} => BaseFits',
         s = "captured" => \A p \in Paths :
           patch'[p] = IF StageWorktree(base)'[p] = base'[p] THEN "unchanged" ELSE StageWorktree(base)'[p]
  PROVE  WorkspaceInv'
<1>1. /\ Patching \subseteq Using /\ Patching \subseteq Filled
      /\ Patching \cap (Over \cup Sealing \cup Waiting \cup {"restoring", "overlaying", "checked"}) = {}
  BY DEF Patching, Waiting, Using, Filled, Over, Sealing
<1>2. StageTypes /\ Rest
  BY <1>1, InvIs DEF sealVars
<1>3. StageTypes' /\ stage' = s
  BY <1>1, <1>2, Moves
<1>4. \A t \in Patching : RepoAt(t) = {"objects", "contents", "ref"}
  BY DEF RepoAt, Patching, Inspected
<1>5. SealTypes' /\ SealFits'
  BY <1>1, <1>2, <1>3, <1>4 DEF Rest, SealTypes, SealFits, sealVars, Sealing
<1>6. CheckKinds' /\ CheckInv'
  BY <1>1, <1>2, <1>3 DEF Rest, CheckKinds, CheckInv, RestoreFits, OverlayFits, CheckFits, checkVars
<1>7. StartsUntouched' /\ PatchFits'
  BY <1>1, <1>3 DEF StartsUntouched, PatchFits
<1>8. Rest'  BY <1>5, <1>6, <1>7 DEF Rest
<1>. QED  BY <1>3, <1>8, InvIs

\* What a step of the patch finds.
LEMMA PatchingHas ==
  ASSUME WorkspaceInv, stage \in Patching
  PROVE  /\ TreeTypes /\ PatchTypes
         /\ stage = "sealed" => Untouched
         /\ stage = "set-up" => ignored = Ignoring
         /\ stage # "set-up" => BaseFits
<1>1. Patching \subseteq Using  BY DEF Patching, Using
<1>2. StageTypes /\ Rest  BY <1>1, InvIs
<1>. QED  BY <1>2 DEF Rest, StartsUntouched, PatchFits, Patching

LEMMA ChangesAreTrees ==
  ASSUME NEW by PROVE Changes(by) \subseteq Trees
BY DEF Changes

LEMMA RunSetupKeeps ==
  ASSUME WorkspaceInv, RunSetup
  PROVE  WorkspaceInv'
<1>1. /\ stage = "sealed" /\ Goto("set-up") /\ worktree' \in Trees
      /\ index' \in {{}, {p \in Ignoring : worktree'[p] \in Files}}
      /\ UNCHANGED <<sealVars, ignored, patchVars, checkVars>>
  BY ChangesAreTrees DEF RunSetup, Step
<1>2. TreeTypes /\ PatchTypes /\ ignored = Ignoring
  BY <1>1, PatchingHas DEF Patching, Untouched
<1>3. TreeTypes' /\ PatchTypes' /\ ignored' = Ignoring
  BY <1>1, <1>2, WorkspaceAssumption DEF TreeTypes, PatchTypes, patchVars
<1>. QED  BY <1>1, <1>3, PatchingKeeps DEF Patching

\* The staged tree.
LEMMA StagedIs ==
  ASSUME TreeTypes, NEW tree \in [Paths -> Files \cup {"absent"}]
  PROVE  /\ StageWorktree(tree) \in [Paths -> Files \cup {"absent"}]
         /\ \A p \in Paths : StageWorktree(tree)[p] =
              IF IsFile(worktree[p]) /\ (tree[p] # "absent" \/ p \in index \/ p \notin ignored)
              THEN worktree[p] ELSE "absent"
BY DEF StageWorktree, IsFile

LEMMA SnapshotPatchBaseKeeps ==
  ASSUME WorkspaceInv, SnapshotPatchBase
  PROVE  WorkspaceInv'
<1>1. /\ stage = "set-up" /\ Goto("based") /\ base' = StageWorktree(base)
      /\ before' = worktree /\ UNCHANGED <<sealVars, treeVars, patch, checkVars>>
  BY DEF SnapshotPatchBase, Step
<1>2. TreeTypes /\ PatchTypes /\ ignored = Ignoring  BY <1>1, PatchingHas DEF Patching
<1>3. base \in [Paths -> Files \cup {"absent"}]  BY <1>2 DEF PatchTypes
<1>4. /\ base' \in [Paths -> Files \cup {"absent"}]
      /\ \A p \in Paths : base'[p] =
              IF IsFile(worktree[p]) /\ (base[p] # "absent" \/ p \in index \/ p \notin ignored)
              THEN worktree[p] ELSE "absent"
  BY <1>1, <1>2, <1>3, StagedIs
<1>5. TreeTypes' /\ PatchTypes'
  BY <1>1, <1>2, <1>4 DEF TreeTypes, PatchTypes, treeVars
<1>6. BaseFits'  BY <1>1, <1>2, <1>4 DEF BaseFits, Seen
<1>. QED  BY <1>1, <1>5, <1>6, PatchingKeeps DEF Patching

LEMMA RunAgentKeeps ==
  ASSUME WorkspaceInv, RunAgent
  PROVE  WorkspaceInv'
<1>1. /\ stage \in {"sealed", "based"} /\ Goto("worked") /\ worktree' \in Trees
      /\ ignored' \in {Ignoring, {}}
      /\ index' \in {index, {p \in Ignoring : worktree'[p] \in Files}}
      /\ UNCHANGED <<sealVars, patchVars, checkVars>>
  BY ChangesAreTrees DEF RunAgent
<1>2. TreeTypes /\ PatchTypes /\ BaseFits  BY <1>1, PatchingHas DEF Patching
<1>3. TreeTypes'  BY <1>1, <1>2, WorkspaceAssumption DEF TreeTypes
<1>4. PatchTypes' /\ BaseFits'  BY <1>1, <1>2 DEF PatchTypes, BaseFits, Seen, patchVars
<1>. QED  BY <1>1, <1>3, <1>4, PatchingKeeps DEF Patching

LEMMA CapturePatchKeeps ==
  ASSUME WorkspaceInv, CapturePatch
  PROVE  WorkspaceInv'
<1>1. /\ stage = "worked" /\ Goto("captured")
      /\ patch' = [p \in Paths |-> IF StageWorktree(base)[p] = base[p] THEN "unchanged"
                                   ELSE StageWorktree(base)[p]]
      /\ UNCHANGED <<sealVars, treeVars, before, base, checkVars>>
  BY DEF CapturePatch, Step
<1>2. TreeTypes /\ PatchTypes /\ BaseFits  BY <1>1, PatchingHas DEF Patching
<1>3. StageWorktree(base) \in [Paths -> Files \cup {"absent"}]
  BY <1>2, StagedIs DEF PatchTypes
<1>4. StageWorktree(base)' = StageWorktree(base)  BY <1>1 DEF StageWorktree, treeVars
<1>5. TreeTypes' /\ PatchTypes' /\ BaseFits'
  BY <1>1, <1>2, <1>3 DEF TreeTypes, PatchTypes, BaseFits, Seen, treeVars
<1>6. \A p \in Paths :
        patch'[p] = IF StageWorktree(base)'[p] = base'[p] THEN "unchanged" ELSE StageWorktree(base)'[p]
  BY <1>1, <1>4
<1>. QED  BY <1>1, <1>5, <1>6, PatchingKeeps DEF Patching

-----------------------------------------------------------------------------
(* The end of a workspace.                                                 *)

LEMMA DisposeKeeps ==
  ASSUME WorkspaceInv, Dispose \/ Killed
  PROVE  WorkspaceInv'
<1>1. StageTypes /\ Rest /\ {"disposed", "retained", "killed"} \subseteq Over
  BY InvIs DEF Dispose, Killed, Over
<1>2. CASE Goto("disposed") /\ Emptied /\ UNCHANGED <<lfs, outside>>
  <2>1. StageTypes' /\ stage' = "disposed"  BY <1>1, <1>2, Moves
  <2>. QED  BY <1>1, <1>2, <2>1, LeftEmpty, InvIs
<1>3. ASSUME NEW s \in {"retained", "killed"}, Goto(s), UNCHANGED <<sealVars, treeVars, patchVars, checkVars>>
      PROVE  WorkspaceInv'
  <2>1. StageTypes' /\ stage' = s  BY <1>1, <1>3, Moves
  <2>. QED  BY <1>1, <1>3, <2>1, LeftBehind, InvIs
<1>. QED  BY <1>2, <1>3 DEF Dispose, Killed

-----------------------------------------------------------------------------
(* The check state: what the plans and the current path are.               *)

Phases == {"restoring", "overlaying"}

\* A plan's directories are above nothing but what it lays, and its files above nothing.
LEMMA PlanIs ==
  ASSUME NEW phase \in Phases
  PROVE  /\ Plan(phase) \subseteq Paths
         /\ Content(phase) \in [Paths -> Entries]
         /\ \A q \in Plan(phase) :
              /\ Content(phase)[q] # "absent"
              /\ ~IsFile(Content(phase)[q]) => Content(phase)[q] = "dir"
              /\ \A d \in Above(q) : d \in Paths /\ ~IsFile(Content(phase)[d])
<1>1. CASE phase = "restoring"
  <2>1. Plan(phase) = Matched /\ Content(phase) = Base  BY <1>1 DEF Plan, Content
  <2>2. Base \in Trees /\ Base \in [Paths -> Entries]  BY WorkspaceAssumption, TreeHas
  <2>3. Matched \subseteq Paths /\ \A q \in Matched : Base[q] = "base"  BY WorkspaceAssumption DEF Matched
  <2>4. \A q \in Matched : \A d \in Above(q) : d \in Paths /\ Base[d] = "dir"
    BY <2>2, <2>3, AboveIs, TreeHas
  <2>. QED  BY <2>1, <2>2, <2>3, <2>4 DEF IsFile, Files
<1>2. CASE phase = "overlaying"
  <2>1. Plan(phase) = Snapshot /\ Content(phase) = Overlay  BY <1>2 DEF Plan, Content
  <2>2. Overlay \in [Paths -> {"absent", "dir", "overlay"}]  BY WorkspaceAssumption
  <2>3. \A q \in Snapshot : \A d \in Above(q) : d \in Paths /\ Overlay[d] = "dir"
    BY WorkspaceAssumption, AboveIs DEF Snapshot
  <2>. QED  BY <2>1, <2>2, <2>3 DEF Snapshot, IsFile, Files, Entries
<1>. QED  BY <1>1, <1>2 DEF Phases

\* The worktree between two paths, spelled out.
LEMMA BetweenIs ==
  ASSUME NEW phase \in Phases, NEW p \in Paths
  PROVE  LET done == Done(phase)
             content == Content(phase)
         IN  Between(phase)[p] =
               IF p \in done /\ IsFile(content[p]) THEN content[p]
               ELSE IF p \in done \/ \E q \in done : p \in Above(q) THEN "dir"
               ELSE IF p \in Gone(phase) \/ \E d \in Above(p) : d \in done /\ IsFile(content[d])
                    THEN "absent"
               ELSE Start(phase)[p]
<1>1. Done(phase) \subseteq Paths  BY PlanIs DEF Done
<1>. QED  BY <1>1, Zenon DEF Between, Laid, FilesOf, DirsOf, Leads

\* What it becomes when one more path is done.
LEMMA BetweenNext ==
  ASSUME NEW phase \in Phases, NEW c \in Left(phase), Left(phase) \subseteq Plan(phase),
         Left(phase)' = Left(phase) \ {c}, found' = found, Gone(phase)' = Gone(phase),
         NEW p \in Paths
  PROVE  Between(phase)'[p] =
           IF p = c THEN IF IsFile(Content(phase)[c]) THEN Content(phase)[c] ELSE "dir"
           ELSE IF p \in Above(c) THEN "dir"
           ELSE IF c \in Above(p) /\ IsFile(Content(phase)[c]) THEN "absent"
           ELSE Between(phase)[p]
<1>. DEFINE done == Done(phase)
            content == Content(phase)
            start == Start(phase)
<1>1. Done(phase)' = done \cup {c} /\ Start(phase)' = start /\ c \notin done
  BY DEF Done, Plan, Start
<1>2. c \in Plan(phase) /\ done \subseteq Plan(phase) /\ Plan(phase) \subseteq Paths  BY PlanIs DEF Done
<1>3. \A q \in Plan(phase) : \A d \in Above(q) : ~IsFile(content[d])  BY PlanIs
<1>4. Between(phase)'[p] =
        IF p \in done \cup {c} /\ IsFile(content[p]) THEN content[p]
        ELSE IF p \in done \cup {c} \/ \E q \in done \cup {c} : p \in Above(q) THEN "dir"
        ELSE IF p \in Gone(phase) \/ \E d \in Above(p) : d \in done \cup {c} /\ IsFile(content[d])
             THEN "absent"
        ELSE start[p]
  <2>1. Between(phase)' = Laid(start, content, FilesOf(phase, done \cup {c}), DirsOf(phase, done \cup {c}), Gone(phase))
    BY <1>1, Zenon DEF Between, Content
  <2>2. done \cup {c} \subseteq Paths  BY <1>2
  <2>. QED  BY <2>1, <2>2 DEF Laid, FilesOf, DirsOf, Leads
<1>5. Between(phase)[p] =
        IF p \in done /\ IsFile(content[p]) THEN content[p]
        ELSE IF p \in done \/ \E q \in done : p \in Above(q) THEN "dir"
        ELSE IF p \in Gone(phase) \/ \E d \in Above(p) : d \in done /\ IsFile(content[d])
             THEN "absent"
        ELSE start[p]
  BY BetweenIs
<1>. HIDE DEF done, content, start
<1>6. CASE p = c  BY <1>4, <1>6 DEF content
<1>7. CASE p \in Above(c)
  <2>1. ~IsFile(content[p])  BY <1>2, <1>3, <1>7
  <2>2. p # c  BY <1>2, <1>7, AboveIs
  <2>. QED  BY <1>4, <1>7, <2>1, <2>2
<1>8. CASE p # c /\ p \notin Above(c) /\ c \in Above(p) /\ IsFile(content[c])
  <2>1. p \notin done  BY <1>2, <1>3, <1>8
  <2>2. ASSUME NEW q \in done, p \in Above(q) PROVE FALSE
    <3>1. c \in Above(q)  BY <1>2, <1>8, <2>2, AboveIs
    <3>. QED  BY <1>2, <1>3, <1>8, <3>1
  <2>. QED  BY <1>4, <1>8, <2>1, <2>2 DEF content
<1>9. CASE p # c /\ p \notin Above(c) /\ ~(c \in Above(p) /\ IsFile(content[c]))
  <2>1. (p \in done \cup {c}) <=> p \in done  BY <1>9
  <2>2. (\E q \in done \cup {c} : p \in Above(q)) <=> \E q \in done : p \in Above(q)  BY <1>9
  <2>3. (\E d \in Above(p) : d \in done \cup {c} /\ IsFile(content[d]))
        <=> \E d \in Above(p) : d \in done /\ IsFile(content[d])  BY <1>9
  <2>4. Between(phase)'[p] = Between(phase)[p]  BY <1>4, <1>5, <2>1, <2>2, <2>3
  <2>. QED  BY <1>9, <2>4 DEF content
<1>. QED  BY <1>6, <1>7, <1>8, <1>9 DEF content

\* A file that is not one of the plan's, or not yet, is one it started from.
LEMMA FoundThere ==
  ASSUME NEW phase \in Phases, NEW p \in Paths, IsFile(Between(phase)[p]),
         p \notin Done(phase) \/ ~IsFile(Content(phase)[p])
  PROVE  Start(phase)[p] = Between(phase)[p]
BY BetweenIs DEF IsFile, Files

\* A file of the plan that is not done yet is still what it started from.
LEMMA NotYetDone ==
  ASSUME NEW phase \in Phases, NEW c \in Left(phase), Left(phase) \subseteq Plan(phase),
         IsFile(Content(phase)[c])
  PROVE  Between(phase)[c] = Start(phase)[c]
<1>1. c \notin Done(phase) /\ c \in Plan(phase) /\ c \in Paths /\ Done(phase) \subseteq Plan(phase)
  BY PlanIs DEF Done
<1>2. ~ \E q \in Done(phase) : c \in Above(q)  BY <1>1, PlanIs
<1>3. ~ \E d \in Above(c) : d \in Done(phase) /\ IsFile(Content(phase)[d])  BY <1>1, PlanIs
<1>4. c \notin Gone(phase)  BY <1>1 DEF Gone, Untracked, Plan, Matched
<1>. QED  BY <1>1, <1>2, <1>3, <1>4, BetweenIs

\* The segments of a path: its leading directories, with itself when it is to be one.
LEMMA SegmentsAre ==
  ASSUME Current \in Paths
  PROVE  /\ Segments \in Seq(Paths)
         /\ \A i \in 1..Len(Segments) : Above(Segments[i]) = {Segments[j] : j \in 1..(i - 1)}
         /\ {Segments[i] : i \in 1..Len(Segments)} =
              Above(Current) \cup (IF IsDirectoryEntry THEN {Current} ELSE {})
<1>. DEFINE lead == Leading[Current]
<1>1. lead \in Seq(Paths) /\ Above(Current) = {lead[i] : i \in 1..Len(lead)}
  BY WorkspaceAssumption DEF Above
<1>2. \A i \in 1..Len(lead) : Above(lead[i]) = {lead[j] : j \in 1..(i - 1)}
  <2>1. \A i \in DOMAIN lead : Above(lead[i]) = {lead[j] : j \in 1..(i - 1)}  BY WorkspaceAssumption
  <2>2. DOMAIN lead = 1..Len(lead)  BY <1>1
  <2>. QED  BY <2>1, <2>2
<1>3. CASE ~IsDirectoryEntry  BY <1>1, <1>2, <1>3 DEF Segments
<1>4. CASE IsDirectoryEntry
  <2>1. Segments = Append(lead, Current)  BY <1>4 DEF Segments
  <2>. HIDE DEF lead
  <2>2. /\ Segments \in Seq(Paths) /\ Len(Segments) = Len(lead) + 1
        /\ Segments[Len(lead) + 1] = Current /\ \A i \in 1..Len(lead) : Segments[i] = lead[i]
    BY <1>1, <2>1
  <2>3. ASSUME NEW i \in 1..Len(Segments)
        PROVE  Above(Segments[i]) = {Segments[j] : j \in 1..(i - 1)}
    <3>1. CASE i \in 1..Len(lead)
      <4>1. \A j \in 1..(i - 1) : j \in 1..Len(lead)  BY <1>1, <3>1
      <4>2. {Segments[j] : j \in 1..(i - 1)} = {lead[j] : j \in 1..(i - 1)}  BY <2>2, <4>1
      <4>. QED  BY <1>2, <2>2, <3>1, <4>2
    <3>2. CASE i = Len(lead) + 1  BY <1>1, <2>2, <3>2
    <3>. QED  BY <2>2, <3>1, <3>2
  <2>4. {Segments[i] : i \in 1..Len(Segments)} = Above(Current) \cup {Current}
    BY <1>1, <2>2
  <2>. QED  BY <1>4, <2>2, <2>3, <2>4
<1>. QED  BY <1>3, <1>4

-----------------------------------------------------------------------------
(* The check state: what every step of a phase keeps.                      *)

\* What work on a path finds.
LEMMA BusyHas ==
  ASSUME WorkspaceInv, NEW phase, stage = phase, Busy
  PROVE  /\ StageTypes /\ Rest
         /\ phase \in Phases /\ Phase(phase) /\ Left(phase) \subseteq Plan(phase)
         /\ Doing = "delete" => phase = "restoring" /\ at = 0 /\ Current \in todo.delete
         /\ Doing # "delete" =>
              /\ todo.delete = {} /\ Current \in Left(phase) /\ Current \in Paths
              /\ Doing = IF phase = "restoring" THEN "restore" ELSE "overlay"
<1>1. phase \in Phases /\ todo # NoWork  BY DEF Busy, Phases
<1>2. StageTypes /\ Rest  BY <1>1, InvIs
<1>3. /\ Phase(phase) /\ CheckKinds
      /\ phase = "restoring" => todo.overlay = {}
      /\ phase = "overlaying" => todo.delete = {} /\ todo.restore = {}
  BY <1>1, <1>2 DEF Rest, CheckInv, RestoreFits, OverlayFits, Phases
<1>4. /\ Left(phase) \subseteq Plan(phase) /\ Plan(phase) \subseteq Paths /\ (at > 0 => todo.delete = {})
  BY <1>1, <1>3, PlanIs DEF Phase
<1>5. todo.delete # {} \/ todo.restore # {} \/ todo.overlay # {}
  BY <1>1, <1>3 DEF CheckKinds, NoWork
<1>6. ASSUME Doing = "delete" PROVE phase = "restoring" /\ at = 0 /\ Current \in todo.delete
  <2>1. todo.delete # {} /\ todo.delete \subseteq Paths  BY <1>3, <1>6 DEF Doing, CheckKinds
  <2>2. phase = "restoring"  BY <1>1, <1>3, <2>1 DEF Phases
  <2>3. at = 0  BY <1>3, <1>4, <2>1 DEF CheckKinds
  <2>4. Current \in todo.delete  BY <1>6, <2>1, FirstIn DEF Current
  <2>. QED  BY <2>2, <2>3, <2>4
<1>7. ASSUME Doing # "delete"
      PROVE  /\ todo.delete = {} /\ Current \in Left(phase) /\ Current \in Paths
             /\ Doing = IF phase = "restoring" THEN "restore" ELSE "overlay"
  <2>1. todo.delete = {}  BY <1>7 DEF Doing
  <2>2. CASE phase = "restoring"
    <3>1. Doing = "restore" /\ todo.restore # {} /\ Left(phase) = todo.restore
      BY <1>3, <1>5, <2>1, <2>2 DEF Doing, Left
    <3>2. Current \in Left(phase)  BY <1>4, <3>1, FirstIn DEF Current
    <3>. QED  BY <1>4, <2>1, <2>2, <3>1, <3>2
  <2>3. CASE phase = "overlaying"
    <3>1. Doing = "overlay" /\ todo.overlay # {} /\ Left(phase) = todo.overlay
      BY <1>3, <1>5, <2>1, <2>3 DEF Doing, Left
    <3>2. Current \in Left(phase)  BY <1>4, <3>1, FirstIn DEF Current
    <3>. QED  BY <1>4, <2>1, <2>3, <3>1, <3>2
  <2>. QED  BY <1>1, <2>2, <2>3 DEF Phases
<1>. QED  BY <1>1, <1>2, <1>3, <1>4, <1>6, <1>7

\* A step of the check state is none of the seal or of the patch.
LEMMA WorksKeeps ==
  ASSUME WorkspaceInv, NEW phase, stage = phase, Busy, InPlace,
         worktree' \in Trees, CheckKinds', ~outside', Phase(phase)',
         phase = "restoring" =>
           /\ todo'.overlay = {} /\ (todo'.delete # {} => todo'.restore = Matched)
           /\ record'.restored = {p \in Done("restoring")' : found[p] # Base[p]}
           /\ at' > 0 => found[Current'] # Base[Current']
           /\ record'.overlayRemoved = {} /\ record'.files = {},
         phase = "overlaying" =>
           /\ todo'.delete = {} /\ todo'.restore = {}
           /\ record'.restored = record.restored /\ record'.removed = record.removed
           /\ record'.files = FilesOf("overlaying", Done("overlaying"))'
  PROVE  WorkspaceInv'
<1>1. /\ StageTypes /\ Rest /\ phase \in Phases
  BY BusyHas
<1>2. UNCHANGED <<sealVars, index, ignored, stage, patchVars, found>> /\ UNCHANGED stage
  BY DEF InPlace, sealVars
<1>3. StageTypes' /\ stage' = phase  BY <1>1, <1>2 DEF StageTypes
<1>4. phase \notin Waiting \cup {"sealed", "populated", "set-up", "based", "worked", "captured", "checked"}
                       \cup Sealing \cup Over
  BY <1>1 DEF Waiting, Phases, Sealing, Over
<1>5. SealTypes' /\ SealFits'  BY <1>1, <1>2, <1>3, <1>4 DEF Rest, SealTypes, SealFits, sealVars
<1>6. TreeTypes' /\ PatchTypes'  BY <1>1, <1>2 DEF Rest, TreeTypes, PatchTypes, patchVars
<1>7. StartsUntouched' /\ PatchFits'  BY <1>3, <1>4 DEF StartsUntouched, PatchFits
<1>8. CheckFits'  BY <1>3, <1>1, <1>4 DEF CheckFits, Phases
<1>9. RestoreFits'  BY <1>2, <1>3 DEF RestoreFits
<1>10. OverlayFits'
  <2>1. CASE phase = "overlaying"
    <3>1. RestoredFits  BY <1>1, <2>1 DEF Rest, CheckInv, OverlayFits
    <3>2. RestoredFits'  BY <1>2, <2>1, <3>1 DEF RestoredFits
    <3>3. /\ Phase("overlaying")' /\ todo'.delete = {} /\ todo'.restore = {}
          /\ record'.files = FilesOf("overlaying", Done("overlaying"))'
      BY <2>1 DEF FilesOf, Content
    <3>. QED  BY <2>1, <3>2, <3>3 DEF OverlayFits
  <2>2. CASE phase # "overlaying"  BY <1>3, <2>2 DEF OverlayFits
  <2>. QED  BY <2>1, <2>2
<1>11. Rest'  BY <1>5, <1>6, <1>7, <1>8, <1>9, <1>10 DEF Rest, CheckInv
<1>. QED  BY <1>3, <1>11, InvIs

\* While nothing is done, the plan and the place in it stay.
LEMMA PlanStays ==
  ASSUME NEW phase \in Phases, UNCHANGED <<todo, found>>
  PROVE  /\ Doing' = Doing /\ Current' = Current /\ Segments' = Segments
         /\ IsDirectoryEntry' = IsDirectoryEntry
         /\ Left(phase)' = Left(phase) /\ Done(phase)' = Done(phase)
         /\ Start(phase)' = Start(phase) /\ Between(phase)' = Between(phase)
<1>1. Doing' = Doing /\ Current' = Current  BY DEF Doing, Current
<1>2. IsDirectoryEntry' = IsDirectoryEntry /\ Segments' = Segments
  BY <1>1 DEF IsDirectoryEntry, Segments
<1>3. Left(phase)' = Left(phase) /\ Done(phase)' = Done(phase) /\ Start(phase)' = Start(phase)
      /\ Gone(phase)' = Gone(phase)
  BY DEF Left, Done, Plan, Start, Gone
<1>. QED  BY <1>1, <1>2, <1>3 DEF Between

\* A path is taken off its list.
LEMMA PathDoneIs ==
  ASSUME WorkspaceInv, NEW phase, stage = phase, Busy, PathDone, UNCHANGED found
  PROVE  /\ todo' \in [delete : SUBSET Paths, restore : SUBSET Paths, overlay : SUBSET Paths]
         /\ Doing = "delete" =>
              /\ todo'.delete = todo.delete \ {Current}
              /\ todo'.restore = todo.restore /\ todo'.overlay = todo.overlay
         /\ Doing # "delete" =>
              /\ Left(phase)' = Left(phase) \ {Current} /\ Gone(phase)' = Gone(phase)
              /\ Done(phase)' = Done(phase) \cup {Current}
              /\ todo'.delete = {}
              /\ phase = "restoring" => todo'.overlay = todo.overlay
              /\ phase = "overlaying" => todo'.restore = todo.restore
<1>1. todo \in [delete : SUBSET Paths, restore : SUBSET Paths, overlay : SUBSET Paths]
  BY BusyHas DEF Rest, CheckKinds
<1>2. todo' = [todo EXCEPT ![Doing] = @ \ {Current}]  BY DEF PathDone
<1>3. CASE Doing = "delete"  BY <1>1, <1>2, <1>3
<1>4. CASE Doing # "delete"
  <2>1. /\ todo.delete = {} /\ Current \in Left(phase) /\ Left(phase) \subseteq Plan(phase)
        /\ phase \in Phases /\ Doing = IF phase = "restoring" THEN "restore" ELSE "overlay"
    BY <1>4, BusyHas
  <2>2. /\ todo' \in [delete : SUBSET Paths, restore : SUBSET Paths, overlay : SUBSET Paths]
        /\ todo'.delete = {} /\ Left(phase)' = Left(phase) \ {Current}
        /\ phase = "restoring" => todo'.overlay = todo.overlay
        /\ phase = "overlaying" => todo'.restore = todo.restore
    <3>1. CASE phase = "restoring"  BY <1>1, <1>2, <2>1, <3>1 DEF Left
    <3>2. CASE phase = "overlaying"  BY <1>1, <1>2, <2>1, <3>2 DEF Left
    <3>. QED  BY <2>1, <3>1, <3>2 DEF Phases
  <2>3. Done(phase)' = Done(phase) \cup {Current}  BY <2>1, <2>2 DEF Done, Plan
  <2>4. Gone(phase)' = Gone(phase)  BY <2>1, <2>2 DEF Gone
  <2>. QED  BY <1>4, <2>2, <2>3, <2>4
<1>. QED  BY <1>3, <1>4

\* Removals are recorded as those of the phase.
LEMMA RecordedIs ==
  ASSUME WorkspaceInv, NEW phase, stage = phase, Busy,
         NEW paths \in SUBSET Paths, Recorded(paths) \/ (paths = {} /\ UNCHANGED record)
  PROVE  /\ record' \in [restored : SUBSET Paths, removed : SUBSET Paths, files : SUBSET Paths,
                         overlayRemoved : SUBSET Paths]
         /\ RemovedIn(phase)' = RemovedIn(phase) \cup paths
         /\ record'.restored = record.restored /\ record'.files = record.files
         /\ phase = "restoring" => record'.overlayRemoved = record.overlayRemoved
         /\ phase = "overlaying" => record'.removed = record.removed
<1>1. /\ record \in [restored : SUBSET Paths, removed : SUBSET Paths, files : SUBSET Paths,
                     overlayRemoved : SUBSET Paths]
      /\ phase \in Phases
      /\ Doing = "overlay" <=> phase = "overlaying"
  BY BusyHas DEF Rest, CheckKinds, Phases
<1>2. CASE phase = "restoring"  BY <1>1, <1>2 DEF Recorded, RemovedIn
<1>3. CASE phase = "overlaying"  BY <1>1, <1>3 DEF Recorded, RemovedIn
<1>. QED  BY <1>1, <1>2, <1>3 DEF Phases

\* Where a path is started on, and between two paths: the worktree is the one between.
LEMMA AtRest ==
  ASSUME NEW phase \in Phases, at = 0
  PROVE  /\ \A p \in Paths : Entry(phase, p) <=> worktree[p] = Between(phase)[p]
         /\ \A p : ~Replaced(p)
BY DEF Entry, Replaced

\* What is so when a path is about to be looked at.
LEMMA BusyAtRest ==
  ASSUME WorkspaceInv, NEW phase, stage = phase, Busy, at = 0
  PROVE  /\ \A p \in Paths : worktree[p] = Between(phase)[p]
         /\ RemovedIn(phase) = Lost(Start(phase), worktree)
<1>1. phase \in Phases /\ Phase(phase)  BY BusyHas
<1>2. \A p \in Paths : worktree[p] = Between(phase)[p]  BY <1>1, AtRest DEF Phase
<1>3. RemovedIn(phase) = {p \in Lost(Start(phase), worktree) : ~Replaced(p)}  BY <1>1 DEF Phase
<1>4. {p \in Lost(Start(phase), worktree) : ~Replaced(p)} = Lost(Start(phase), worktree)
  BY <1>1, AtRest
<1>. QED  BY <1>2, <1>3, <1>4

LEMMA DeleteUntrackedKeeps ==
  ASSUME WorkspaceInv, NEW phase, stage = phase, DeleteUntracked
  PROVE  WorkspaceInv'
<1>. DEFINE c == Current
<1>1. /\ Busy /\ Doing = "delete" /\ worktree' = Cleared(c) /\ Recorded(FilesBelow(c)) /\ PathDone
      /\ outside' = (outside \/ Escapes(c)) /\ at' = at /\ InPlace /\ UNCHANGED found
  BY DEF DeleteUntracked, InPlace
<1>2. /\ Rest /\ stage = "restoring" /\ phase = "restoring" /\ at = 0 /\ c \in todo.delete
      /\ phase \in Phases /\ Phase(phase)
  BY <1>1, BusyHas
<1>3. /\ worktree \in Trees /\ found \in Trees /\ todo.delete \subseteq Paths
      /\ todo.delete \subseteq Untracked(found) /\ todo.restore = Matched /\ todo.overlay = {}
      /\ record.restored = {p \in Done("restoring") : found[p] # Base[p]}
      /\ record.overlayRemoved = {} /\ record.files = {} /\ ~outside
  BY <1>2 DEF Rest, TreeTypes, CheckKinds, CheckInv, RestoreFits, CheckFits, Phase
<1>4. /\ todo' \in [delete : SUBSET Paths, restore : SUBSET Paths, overlay : SUBSET Paths]
      /\ todo'.delete = todo.delete \ {c} /\ todo'.restore = todo.restore /\ todo'.overlay = {}
  BY <1>1, <1>3, PathDoneIs
<1>5. /\ Done(phase) = {} /\ Done(phase)' = {} /\ Start(phase) = found /\ Start(phase)' = found
      /\ Gone(phase) = Untracked(found) \ todo.delete /\ Gone(phase)' = Gone(phase) \cup {c}
      /\ Left(phase)' = Matched /\ Plan(phase) = Matched
  BY <1>1, <1>2, <1>3, <1>4 DEF Done, Plan, Left, Start, Gone
<1>6. \A p \in Paths : Between(phase)[p] = IF p \in Gone(phase) THEN "absent" ELSE found[p]
  BY <1>2, <1>5, BetweenIs
<1>7. \A p \in Paths : Between(phase)'[p] = IF p \in Gone(phase) \cup {c} THEN "absent" ELSE found[p]
  <2>1. Between(phase)' = Laid(found, Content(phase), {}, {}, Gone(phase) \cup {c})
    BY <1>5 DEF Between, FilesOf, DirsOf, Leads, Content
  <2>. QED  BY <2>1 DEF Laid
<1>8. /\ \A p \in Paths : worktree[p] = Between(phase)[p]
      /\ RemovedIn(phase) = Lost(found, worktree)
  BY <1>1, <1>2, <1>5, BusyAtRest
<1>9. c \in Paths /\ IsFile(worktree[c]) /\ IsFile(found[c])
  BY <1>2, <1>3, <1>5, <1>6, <1>8 DEF Untracked
<1>10. \A p \in Paths : c \in Above(p) => worktree[p] = "absent"
  BY <1>3, <1>9, TreeHas DEF IsFile, Files
<1>11. Cleared(c) \in Trees /\ \A p \in Paths : worktree'[p] = IF p = c THEN "absent" ELSE worktree[p]
  BY <1>1, <1>3, <1>9, <1>10, ClearedIs
<1>12. FilesBelow(c) = {c}  BY <1>9, <1>10 DEF FilesBelow, Below, IsFile, Files
<1>13. ~Escapes(c)  BY <1>3, <1>9, TreeHas DEF Escapes, IsFile, Files
<1>. HIDE DEF c
<1>14. /\ record' \in [restored : SUBSET Paths, removed : SUBSET Paths, files : SUBSET Paths,
                       overlayRemoved : SUBSET Paths]
       /\ RemovedIn(phase)' = RemovedIn(phase) \cup {c} /\ record'.restored = record.restored
       /\ record'.files = record.files /\ record'.overlayRemoved = record.overlayRemoved
  <2>1. Recorded({c})  BY <1>1, <1>12
  <2>. QED  BY <1>1, <1>2, <1>9, <2>1, RecordedIs
<1>15. Phase(phase)'
  <2>1. \A p \in Paths : Entry(phase, p)'
    BY <1>1, <1>2, <1>6, <1>7, <1>8, <1>11 DEF Entry
  <2>2. \A p : ~Replaced(p)'  BY <1>1, <1>2 DEF Replaced
  <2>3. Lost(found, worktree') = Lost(found, worktree) \cup {c}
    BY <1>9, <1>11 DEF Lost, IsFile, Files
  <2>4. RemovedIn(phase)' = {p \in Lost(found, worktree') : ~Replaced(p)'}
    BY <1>8, <1>14, <2>2, <2>3
  <2>5. Lost(Start(phase), worktree)' = Lost(found, worktree')  BY <1>5 DEF Lost
  <2>6. Untracked(found)' = Untracked(found)  BY <1>1 DEF Untracked
  <2>7. todo'.delete \subseteq Untracked(found)' /\ Left(phase)' \subseteq Plan(phase) /\ ~(at' > 0)
    BY <1>1, <1>2, <1>3, <1>4, <1>5, <2>6
  <2>. QED  BY <2>1, <2>4, <2>5, <2>7 DEF Phase, Plan
<1>16. CheckKinds'  BY <1>1, <1>2, <1>3, <1>4, <1>13, <1>14 DEF Rest, CheckKinds
<1>17. record'.restored = {p \in Done("restoring")' : found[p] # Base[p]}
  BY <1>2, <1>3, <1>5, <1>14
<1>18. /\ todo'.overlay = {} /\ todo'.restore = Matched /\ ~(at' > 0) /\ ~outside'
       /\ record'.overlayRemoved = {} /\ record'.files = {} /\ worktree' \in Trees
       /\ phase # "overlaying" /\ Busy /\ InPlace
  <2>1. ~outside'  BY <1>1, <1>3, <1>13, Zenon
  <2>2. ~(at' > 0)  BY <1>1, <1>2
  <2>. QED  BY <1>1, <1>2, <1>3, <1>4, <1>11, <1>14, <2>1, <2>2
<1>. QED  BY <1>15, <1>16, <1>17, <1>18, WorksKeeps

\* What is so at work on a path of the plan.
LEMMA PathHas ==
  ASSUME WorkspaceInv, NEW phase, stage = phase, Busy, Doing # "delete"
  PROVE  /\ phase \in Phases /\ Phase(phase) /\ todo.delete = {}
         /\ Current \in Left(phase) /\ Left(phase) \subseteq Plan(phase) /\ Current \in Paths
         /\ Current \in Plan(phase) /\ Current \notin Done(phase)
         /\ worktree \in Trees /\ found \in Trees /\ at \in Nat /\ ~outside
         /\ IsDirectoryEntry <=> ~IsFile(Content(phase)[Current])
         /\ IsDirectoryEntry => phase = "overlaying"
<1>1. /\ Rest /\ phase \in Phases /\ Phase(phase) /\ todo.delete = {}
      /\ Current \in Left(phase) /\ Left(phase) \subseteq Plan(phase) /\ Current \in Paths
      /\ Doing = IF phase = "restoring" THEN "restore" ELSE "overlay"
  BY BusyHas
<1>2. worktree \in Trees /\ found \in Trees /\ at \in Nat /\ ~outside
  BY <1>1 DEF Rest, TreeTypes, CheckKinds, CheckInv, CheckFits
<1>3. Current \in Plan(phase) /\ Current \notin Done(phase)  BY <1>1 DEF Done
<1>4. IsDirectoryEntry <=> ~IsFile(Content(phase)[Current])
  <2>1. CASE phase = "restoring"
    BY <1>1, <1>3, <2>1 DEF IsDirectoryEntry, Content, Plan, Matched, IsFile, Files
  <2>2. CASE phase = "overlaying"
    BY <1>1, <1>3, <2>2, WorkspaceAssumption DEF IsDirectoryEntry, Content, Plan, Snapshot, IsFile, Files
  <2>. QED  BY <1>1, <2>1, <2>2 DEF Phases
<1>. QED  BY <1>1, <1>2, <1>3, <1>4 DEF IsDirectoryEntry, Phases

\* A step that stays on its path.
LEMMA StaysKeeps ==
  ASSUME WorkspaceInv, NEW phase, stage = phase, Busy, Doing # "delete",
         InPlace, UNCHANGED todo, outside' \in BOOLEAN, ~outside', at' \in Nat,
         NEW paths \in SUBSET Paths, Recorded(paths) \/ (paths = {} /\ UNCHANGED record),
         worktree' \in Trees, Phase(phase)',
         phase = "restoring" => found[Current] # Base[Current]
  PROVE  WorkspaceInv'
<1>1. /\ record' \in [restored : SUBSET Paths, removed : SUBSET Paths, files : SUBSET Paths,
                       overlayRemoved : SUBSET Paths]
      /\ record'.restored = record.restored /\ record'.files = record.files
      /\ phase = "restoring" => record'.overlayRemoved = record.overlayRemoved
      /\ phase = "overlaying" => record'.removed = record.removed
  BY RecordedIs
<1>2. /\ Rest /\ phase \in Phases /\ todo.delete = {}  BY BusyHas
<1>3. UNCHANGED found  BY DEF InPlace
<1>4. Current' = Current /\ Done(phase)' = Done(phase)  BY <1>2, <1>3, PlanStays
<1>5. CheckKinds'  BY <1>1, <1>2, <1>3 DEF Rest, CheckKinds
<1>6. ASSUME phase = "restoring"
      PROVE  /\ todo'.overlay = {} /\ (todo'.delete # {} => todo'.restore = Matched)
             /\ record'.restored = {p \in Done("restoring")' : found[p] # Base[p]}
             /\ at' > 0 => found[Current'] # Base[Current']
             /\ record'.overlayRemoved = {} /\ record'.files = {}
  BY <1>1, <1>2, <1>4, <1>6 DEF Rest, CheckInv, RestoreFits
<1>7. ASSUME phase = "overlaying"
      PROVE  /\ todo'.delete = {} /\ todo'.restore = {}
             /\ record'.restored = record.restored /\ record'.removed = record.removed
             /\ record'.files = FilesOf("overlaying", Done("overlaying"))'
  BY <1>1, <1>2, <1>4, <1>7 DEF Rest, CheckInv, OverlayFits, FilesOf
<1>. QED  BY <1>5, <1>6, <1>7, WorksKeeps

\* A step that is done with its path.
LEMMA LeavesKeeps ==
  ASSUME WorkspaceInv, NEW phase, stage = phase, Busy, Doing # "delete",
         InPlace, PathDone, outside' \in BOOLEAN, ~outside', at' = 0,
         worktree' \in Trees, Phase(phase)',
         record' \in [restored : SUBSET Paths, removed : SUBSET Paths, files : SUBSET Paths,
                      overlayRemoved : SUBSET Paths],
         phase = "restoring" =>
           /\ record'.restored = record.restored \cup (IF found[Current] # Base[Current] THEN {Current} ELSE {})
           /\ record'.overlayRemoved = record.overlayRemoved /\ record'.files = record.files,
         phase = "overlaying" =>
           /\ record'.restored = record.restored /\ record'.removed = record.removed
           /\ record'.files = record.files \cup (IF IsFile(Overlay[Current]) THEN {Current} ELSE {})
  PROVE  WorkspaceInv'
<1>1. /\ Rest /\ phase \in Phases /\ todo.delete = {}  BY BusyHas
<1>2. UNCHANGED found  BY DEF InPlace
<1>3. /\ todo' \in [delete : SUBSET Paths, restore : SUBSET Paths, overlay : SUBSET Paths]
      /\ todo'.delete = {} /\ Done(phase)' = Done(phase) \cup {Current}
      /\ phase = "restoring" => todo'.overlay = todo.overlay
      /\ phase = "overlaying" => todo'.restore = todo.restore
  BY <1>2, PathDoneIs
<1>4. CheckKinds'  BY <1>1, <1>2, <1>3 DEF Rest, CheckKinds
<1>5. ASSUME phase = "restoring"
      PROVE  /\ todo'.overlay = {} /\ (todo'.delete # {} => todo'.restore = Matched)
             /\ record'.restored = {p \in Done("restoring")' : found[p] # Base[p]}
             /\ ~(at' > 0)
             /\ record'.overlayRemoved = {} /\ record'.files = {}
  BY <1>1, <1>3, <1>5 DEF Rest, CheckInv, RestoreFits
<1>6. ASSUME phase = "overlaying"
      PROVE  /\ todo'.delete = {} /\ todo'.restore = {}
             /\ record'.restored = record.restored /\ record'.removed = record.removed
             /\ record'.files = FilesOf("overlaying", Done("overlaying"))'
  <2>1. record.files = FilesOf("overlaying", Done("overlaying")) /\ todo.restore = {}
    BY <1>1, <1>6 DEF Rest, CheckInv, OverlayFits
  <2>2. FilesOf("overlaying", Done("overlaying"))' = FilesOf("overlaying", Done("overlaying") \cup {Current})
    BY <1>3, <1>6 DEF FilesOf, Content
  <2>. QED  BY <1>3, <1>6, <2>1, <2>2 DEF FilesOf, Content
<1>. QED  BY <1>4, <1>5, <1>6, WorksKeeps

LEMMA ComparePathKeeps ==
  ASSUME WorkspaceInv, NEW phase, stage = phase, ComparePath
  PROVE  WorkspaceInv'
<1>. DEFINE c == Current
<1>1. /\ Busy /\ Doing # "delete" /\ at = 0 /\ InPlace /\ UNCHANGED <<worktree, record, outside, found>>
      /\ IF SameEntry THEN PathDone /\ at' = 0 ELSE todo' = todo /\ at' = 1
  BY DEF ComparePath, InPlace
<1>2. /\ phase \in Phases /\ Phase(phase) /\ todo.delete = {}
      /\ c \in Left(phase) /\ Left(phase) \subseteq Plan(phase) /\ c \in Paths
      /\ c \in Plan(phase) /\ c \notin Done(phase)
      /\ worktree \in Trees /\ found \in Trees /\ at \in Nat /\ ~outside
      /\ IsDirectoryEntry <=> ~IsFile(Content(phase)[c])
  BY <1>1, PathHas
<1>3. /\ \A p \in Paths : worktree[p] = Between(phase)[p]
      /\ RemovedIn(phase) = Lost(Start(phase), worktree)
      /\ Rest /\ Doing = IF phase = "restoring" THEN "restore" ELSE "overlay"
  BY <1>1, BusyAtRest, BusyHas
<1>4. outside' \in BOOLEAN /\ ~outside' /\ worktree' \in Trees
      /\ record \in [restored : SUBSET Paths, removed : SUBSET Paths, files : SUBSET Paths,
                      overlayRemoved : SUBSET Paths]
  BY <1>1, <1>2, <1>3 DEF Rest, CheckKinds
<1>5. IsFile(Content(phase)[c]) => worktree[c] = Start(phase)[c]
  BY <1>2, <1>3, NotYetDone
<1>. HIDE DEF c
<1>6. CASE SameEntry
  <2>1. /\ phase = "restoring" /\ worktree[c] = "base" /\ Base[c] = "base" /\ found[c] = "base"
        /\ \A d \in Above(c) : worktree[d] = "dir"
    BY <1>2, <1>3, <1>5, <1>6 DEF SameEntry, Plan, Matched, Content, Start, IsFile, Files, Phases, c
  <2>2. /\ Left(phase)' = Left(phase) \ {c} /\ Gone(phase)' = Gone(phase) /\ todo'.delete = {}
    BY <1>1, <1>6, PathDoneIs DEF c
  <2>3. \A p \in Paths : Between(phase)'[p] = worktree[p]
    <3>1. \A p \in Paths : c \in Above(p) => worktree[p] = "absent"  BY <1>2, <2>1, TreeHas
    <3>2. IsFile(Content(phase)[c]) /\ Content(phase)[c] = "base"  BY <2>1 DEF Content, IsFile, Files
    <3>. QED  BY <1>1, <1>2, <1>3, <2>1, <2>2, <3>1, <3>2, BetweenNext
  <2>4. Start(phase)' = Start(phase) /\ RemovedIn(phase)' = RemovedIn(phase)
    BY <1>1 DEF Start, RemovedIn
  <2>5. Phase(phase)'
    <3>1. \A p \in Paths : Entry(phase, p)'  BY <1>1, <1>6, <2>3 DEF Entry
    <3>2. \A p : ~Replaced(p)'  BY <1>1, <1>6 DEF Replaced
    <3>3. RemovedIn(phase)' = {p \in Lost(Start(phase), worktree)' : ~Replaced(p)'}
      <4>1. Lost(Start(phase), worktree)' = Lost(Start(phase), worktree)  BY <1>1, <2>4 DEF Lost
      <4>. QED  BY <1>3, <2>4, <3>2, <4>1
    <3>. QED  BY <1>1, <1>2, <1>6, <2>2, <3>1, <3>3 DEF Phase, Plan
  <2>. QED  BY <1>1, <1>4, <1>6, <2>1, <2>5, LeavesKeeps DEF c
<1>7. CASE ~SameEntry
  <2>1. /\ Left(phase)' = Left(phase) /\ Current' = c /\ Segments' = Segments
        /\ IsDirectoryEntry' = IsDirectoryEntry /\ Between(phase)' = Between(phase)
        /\ Start(phase)' = Start(phase)
    BY <1>1, <1>2, <1>7, PlanStays DEF c
  <2>2. Segments \in Seq(Paths)  BY <1>2, SegmentsAre DEF c
  <2>3. Passed' = {}  BY <1>1, <1>7 DEF Passed
  <2>4. \A p \in Paths : Entry(phase, p)'  BY <1>1, <1>3, <2>1, <2>3 DEF Entry
  <2>5. ASSUME NEW p \in Lost(Start(phase), worktree) PROVE ~Replaced(p)'
    BY <1>2, <1>5, <2>1, <2>5 DEF Replaced, Lost
  <2>6. RemovedIn(phase)' = {p \in Lost(Start(phase), worktree)' : ~Replaced(p)'}
    <3>1. Lost(Start(phase), worktree)' = Lost(Start(phase), worktree)  BY <1>1, <2>1 DEF Lost
    <3>2. RemovedIn(phase)' = RemovedIn(phase)  BY <1>1 DEF RemovedIn
    <3>. QED  BY <1>3, <2>5, <3>1, <3>2
  <2>7. at' <= Len(Segments') + 1  BY <1>1, <1>7, <2>1, <2>2
  <2>8. Phase(phase)'  BY <1>1, <1>2, <1>7, <2>1, <2>4, <2>6, <2>7 DEF Phase, Plan
  <2>9. ASSUME phase = "restoring", found[c] = Base[c] PROVE FALSE
    <3>1. worktree[c] = "base" /\ Base[c] = "base"
      BY <1>2, <1>5, <2>9 DEF Plan, Matched, Content, Start, IsFile, Files
    <3>2. \A d \in Above(c) : worktree[d] = "dir"  BY <1>2, <3>1, TreeHas
    <3>. QED  BY <1>3, <1>7, <2>9, <3>1, <3>2 DEF SameEntry, c
  <2>10. at' \in Nat /\ UNCHANGED <<todo, record>> /\ {} \in SUBSET Paths  BY <1>1, <1>7
  <2>11. phase = "restoring" => found[Current] # Base[Current]  BY <2>9 DEF c
  <2>. QED  BY <1>1, <1>4, <2>8, <2>10, <2>11, StaysKeeps
<1>. QED  BY <1>6, <1>7

\* What is so on the way to a path.
LEMMA OnPath ==
  ASSUME WorkspaceInv, NEW phase, stage = phase, Busy, at > 0
  PROVE  /\ Doing # "delete" /\ at \in Nat
         /\ Segments \in Seq(Paths) /\ at <= Len(Segments) + 1
         /\ Passed \subseteq Above(Current) \cup (IF IsDirectoryEntry THEN {Current} ELSE {})
         /\ \A p \in Passed : p \in Paths /\ worktree[p] = "dir"
         /\ \A p \in Paths : p \notin Passed =>
              worktree[p] = Between(phase)[p]
                \/ (worktree[p] = "absent" /\ ClearedNow(p, Between(phase)[p]))
         /\ RemovedIn(phase) = {p \in Lost(Start(phase), worktree) : ~Replaced(p)}
         /\ phase = "restoring" => found[Current] # Base[Current]
<1>1. /\ Rest /\ phase \in Phases /\ Phase(phase) /\ (Doing = "delete" => at = 0)
  BY BusyHas
<1>2. Doing # "delete" /\ at \in Nat  BY <1>1 DEF Rest, CheckKinds
<1>3. Current \in Paths  BY <1>2, PathHas
<1>4. /\ Segments \in Seq(Paths)
      /\ {Segments[i] : i \in 1..Len(Segments)} = Above(Current) \cup (IF IsDirectoryEntry THEN {Current} ELSE {})
  BY <1>3, SegmentsAre
<1>5. at <= Len(Segments) + 1  BY <1>1 DEF Phase
<1>6. Passed \subseteq {Segments[i] : i \in 1..Len(Segments)}
  <2>1. \A i \in 1..(at - 1) : i \in 1..Len(Segments)  BY <1>2, <1>4, <1>5
  <2>. QED  BY <2>1 DEF Passed
<1>7. Passed \subseteq Paths  BY <1>4, <1>6
<1>8. \A p \in Paths : Entry(phase, p)  BY <1>1 DEF Phase
<1>9. \A p \in Passed : worktree[p] = "dir"  BY <1>7, <1>8 DEF Entry
<1>10. \A p \in Paths : p \notin Passed =>
         worktree[p] = Between(phase)[p] \/ (worktree[p] = "absent" /\ ClearedNow(p, Between(phase)[p]))
  BY <1>8 DEF Entry
<1>11. RemovedIn(phase) = {p \in Lost(Start(phase), worktree) : ~Replaced(p)}  BY <1>1 DEF Phase
<1>12. phase = "restoring" => found[Current] # Base[Current]
  BY <1>1 DEF Rest, CheckInv, RestoreFits
<1>. QED  BY <1>2, <1>4, <1>5, <1>6, <1>7, <1>9, <1>10, <1>11, <1>12

LEMMA EnsureDirectoryKeeps ==
  ASSUME WorkspaceInv, NEW phase, stage = phase, EnsureDirectory
  PROVE  WorkspaceInv'
<1>. DEFINE c == Current
            d == Segments[at]
<1>1. /\ Busy /\ at \in 1..Len(Segments) /\ InPlace /\ UNCHANGED <<todo, outside, found>>
      /\ \/ /\ worktree[d] = "absent" /\ worktree' = [worktree EXCEPT ![d] = "dir"] /\ at' = at + 1
            /\ UNCHANGED record
         \/ worktree[d] = "dir" /\ at' = at + 1 /\ UNCHANGED <<worktree, record>>
         \/ IsFile(worktree[d]) /\ worktree' = Cleared(d) /\ Recorded({d}) /\ at' = at
  BY DEF EnsureDirectory, InPlace
<1>2. /\ Doing # "delete" /\ at \in Nat /\ at > 0 /\ Segments \in Seq(Paths)
      /\ Passed \subseteq Above(c) \cup (IF IsDirectoryEntry THEN {c} ELSE {})
      /\ \A p \in Passed : p \in Paths /\ worktree[p] = "dir"
      /\ \A p \in Paths : p \notin Passed =>
              worktree[p] = Between(phase)[p]
                \/ (worktree[p] = "absent" /\ ClearedNow(p, Between(phase)[p]))
      /\ RemovedIn(phase) = {p \in Lost(Start(phase), worktree) : ~Replaced(p)}
      /\ phase = "restoring" => found[c] # Base[c]
  BY <1>1, OnPath
<1>3. /\ phase \in Phases /\ Phase(phase) /\ todo.delete = {}
      /\ c \in Left(phase) /\ Left(phase) \subseteq Plan(phase) /\ c \in Paths
      /\ c \in Plan(phase) /\ c \notin Done(phase)
      /\ worktree \in Trees /\ found \in Trees /\ ~outside
      /\ IsDirectoryEntry <=> ~IsFile(Content(phase)[c])
  BY <1>1, <1>2, PathHas
<1>4. /\ Left(phase)' = Left(phase) /\ Current' = c /\ Segments' = Segments
      /\ IsDirectoryEntry' = IsDirectoryEntry /\ Between(phase)' = Between(phase)
      /\ Start(phase)' = Start(phase)
  BY <1>1, <1>3, PlanStays DEF c
<1>5. outside' \in BOOLEAN /\ ~outside'  BY <1>1, <1>3, BusyHas DEF Rest, CheckKinds
<1>6. /\ d \in Paths /\ Above(d) = Passed /\ d \in Above(c) \cup (IF IsDirectoryEntry THEN {c} ELSE {})
  <2>1. Above(d) = {Segments[j] : j \in 1..(at - 1)}  BY <1>1, <1>3, SegmentsAre DEF c
  <2>2. d \in {Segments[i] : i \in 1..Len(Segments)}  BY <1>1
  <2>3. d \in Paths  BY <1>1, <1>2
  <2>. QED  BY <1>3, <2>1, <2>2, <2>3, SegmentsAre DEF Passed, c
<1>7. ~AtEnd /\ \A p : ~Replaced(p)  BY <1>1, <1>2 DEF AtEnd, Replaced
<1>8. \A p \in Paths : p \notin Passed /\ p # d => worktree[p] = Between(phase)[p]
  BY <1>2, <1>7 DEF ClearedNow, d
<1>9. RemovedIn(phase) = Lost(Start(phase), worktree)  BY <1>2, <1>7
<1>10. d \notin Passed  BY <1>6, AboveIs
<1>11. worktree[d] # "absent" => worktree[d] = Between(phase)[d]  BY <1>2, <1>6, <1>10
<1>12. ~IsFile(Content(phase)[d])
  <2>1. CASE d = c /\ IsDirectoryEntry  BY <1>3, <2>1
  <2>2. CASE d \in Above(c)  BY <1>3, <2>2, PlanIs
  <2>. QED  BY <1>6, <2>1, <2>2
<1>. HIDE DEF c, d
<1>13. CASE \/ worktree[d] = "absent" /\ worktree' = [worktree EXCEPT ![d] = "dir"] /\ at' = at + 1
            \/ worktree[d] = "dir" /\ worktree' = worktree /\ at' = at + 1
  <2>1. UNCHANGED record /\ at' = at + 1 /\ worktree[d] \in {"absent", "dir"}
    BY <1>1, <1>13 DEF IsFile, Files
  <2>2. worktree' \in Trees
    <3>1. "dir" \in Entries \ {"absent"}  BY DEF Entries
    <3>. QED  BY <1>2, <1>3, <1>6, <1>13, <3>1, EntryAdded
  <2>3. \A p \in Paths : worktree'[p] = IF p = d THEN "dir" ELSE worktree[p]
    <3>1. worktree \in [Paths -> Entries]  BY <1>3, TreeHas
    <3>. QED  BY <1>6, <1>13, <3>1
  <2>4. Passed' = Passed \cup {d}
    <3>1. 1..(at' - 1) = 1..(at - 1) \cup {at}  BY <1>2, <2>1
    <3>. QED  BY <1>4, <3>1 DEF Passed, d
  <2>5. \A p \in Paths : Entry(phase, p)'
    <3>1. \A p \in Passed' : worktree'[p] = "dir"  BY <1>2, <1>6, <2>3, <2>4
    <3>2. \A p \in Paths : p \notin Passed' => worktree'[p] = Between(phase)'[p]
      BY <1>4, <1>8, <2>3, <2>4
    <3>3. at' > 0  BY <1>2, <2>1
    <3>. QED  BY <3>1, <3>2, <3>3 DEF Entry
  <2>6. ASSUME NEW p \in Lost(Start(phase), worktree) PROVE ~Replaced(p)'
    <3>1. ASSUME p = c, ~IsDirectoryEntry PROVE FALSE
      <4>1. Between(phase)[c] = Start(phase)[c]  BY <1>3, <3>1, NotYetDone
      <4>2. c \notin Passed /\ c # d  BY <1>2, <1>3, <1>6, <3>1, AboveIs
      <4>. QED  BY <1>3, <1>8, <2>6, <3>1, <4>1, <4>2 DEF Lost
    <3>. QED  BY <1>4, <3>1 DEF Replaced
  <2>7. Lost(Start(phase), worktree)' = Lost(Start(phase), worktree)
    <3>1. \A p \in Paths : IsFile(worktree'[p]) <=> IsFile(worktree[p])
      BY <2>1, <2>3 DEF IsFile, Files
    <3>. QED  BY <1>4, <3>1 DEF Lost
  <2>8. RemovedIn(phase)' = {p \in Lost(Start(phase), worktree)' : ~Replaced(p)'}
    <3>1. RemovedIn(phase)' = RemovedIn(phase)  BY <2>1 DEF RemovedIn
    <3>. QED  BY <1>9, <2>6, <2>7, <3>1
  <2>9. at' \in Nat /\ at' <= Len(Segments') + 1  BY <1>1, <1>2, <1>4, <2>1
  <2>10. Phase(phase)'  BY <1>1, <1>3, <1>4, <2>5, <2>8, <2>9 DEF Phase, Plan
  <2>11. UNCHANGED <<todo, record>> /\ {} \in SUBSET Paths  BY <1>1, <2>1
  <2>12. phase = "restoring" => found[Current] # Base[Current]  BY <1>2 DEF c
  <2>. QED  BY <1>1, <1>2, <1>5, <2>2, <2>9, <2>10, <2>11, <2>12, StaysKeeps
<1>14. CASE IsFile(worktree[d]) /\ worktree' = Cleared(d) /\ Recorded({d}) /\ at' = at
  <2>1. \A p \in Paths : d \in Above(p) => worktree[p] = "absent"
    BY <1>3, <1>6, <1>14, TreeHas DEF IsFile, Files
  <2>2. worktree' \in Trees /\ \A p \in Paths : worktree'[p] = IF p = d THEN "absent" ELSE worktree[p]
    BY <1>3, <1>6, <1>14, <2>1, ClearedIs
  <2>3. Passed' = Passed  BY <1>4, <1>14 DEF Passed
  <2>4. IsFile(Between(phase)[d])  BY <1>11, <1>14 DEF IsFile, Files
  <2>5. \A p \in Paths : Entry(phase, p)'
    <3>1. \A p \in Passed' : worktree'[p] = "dir"  BY <1>2, <1>10, <2>2, <2>3
    <3>2. \A p \in Paths : p \notin Passed' /\ p # d => worktree'[p] = Between(phase)'[p]
      BY <1>4, <1>8, <2>2, <2>3
    <3>3. ASSUME NEW p \in Paths, p = d
          PROVE  p \notin Passed' /\ worktree'[p] = "absent" /\ ClearedNow(p, Between(phase)[p])'
      BY <1>1, <1>4, <1>10, <1>14, <2>2, <2>3, <2>4, <3>3 DEF ClearedNow, d
    <3>4. at' > 0  BY <1>2, <1>14
    <3>. QED  BY <3>1, <3>2, <3>3, <3>4 DEF Entry
  <2>6. IsFile(Start(phase)[d])  BY <1>3, <1>6, <1>12, <2>4, FoundThere
  <2>7. Lost(Start(phase), worktree)' = Lost(Start(phase), worktree) \cup {d}
    <3>1. Lost(Start(phase), worktree)' = Lost(Start(phase), worktree')  BY <1>4 DEF Lost
    <3>. QED  BY <1>6, <2>2, <2>6, <3>1 DEF Lost, IsFile, Files
  <2>8. RemovedIn(phase)' = RemovedIn(phase) \cup {d}
    <3>1. {d} \in SUBSET Paths  BY <1>6
    <3>. QED  BY <1>1, <1>14, <3>1, RecordedIs
  <2>9. \A p : ~Replaced(p)'  BY <1>1, <1>2, <1>4, <1>14 DEF AtEnd, Replaced
  <2>10. RemovedIn(phase)' = {p \in Lost(Start(phase), worktree)' : ~Replaced(p)'}
    BY <1>9, <2>7, <2>8, <2>9
  <2>11. at' \in Nat /\ at' <= Len(Segments') + 1  BY <1>1, <1>2, <1>4, <1>14
  <2>12. Phase(phase)'  BY <1>1, <1>3, <1>4, <2>5, <2>10, <2>11 DEF Phase, Plan
  <2>13. UNCHANGED todo /\ {d} \in SUBSET Paths /\ Recorded({d})  BY <1>1, <1>6, <1>14
  <2>14. phase = "restoring" => found[Current] # Base[Current]  BY <1>2 DEF c
  <2>. QED  BY <1>1, <1>2, <1>5, <2>2, <2>11, <2>12, <2>13, <2>14, StaysKeeps
<1>. QED  BY <1>1, <1>13, <1>14

\* What is so when the directories of the path are made.
LEMMA AtPath ==
  ASSUME WorkspaceInv, NEW phase, stage = phase, Busy, at = Len(Segments) + 1
  PROVE  /\ Doing # "delete" /\ at > 0 /\ AtEnd
         /\ \A p \in Above(Current) : worktree[p] = "dir"
         /\ IsDirectoryEntry => worktree[Current] = "dir"
         /\ Passed = Above(Current) \cup (IF IsDirectoryEntry THEN {Current} ELSE {})
         /\ \A p \in Paths : p \notin Passed =>
              worktree[p] = Between(phase)[p]
                \/ (worktree[p] = "absent" /\ p \in Below(Current) /\ worktree[Current] = "absent")
<1>1. /\ Rest /\ phase \in Phases /\ Phase(phase) /\ (Doing = "delete" => at = 0)
  BY BusyHas
<1>2. at \in Nat  BY <1>1 DEF Rest, CheckKinds
<1>3. at > 0
  <2>1. CASE Doing = "delete"
    <3>1. Segments = Leading[Current]  BY <2>1 DEF Segments, IsDirectoryEntry
    <3>2. todo.delete \subseteq Paths /\ Current \in todo.delete  BY <1>1, <2>1, BusyHas DEF Rest, CheckKinds
    <3>3. Segments \in Seq(Paths)  BY <3>1, <3>2, WorkspaceAssumption
    <3>. QED  BY <1>2, <3>3
  <2>2. CASE Doing # "delete"
    <3>1. Current \in Paths  BY <2>2, PathHas
    <3>2. Segments \in Seq(Paths)  BY <3>1, SegmentsAre
    <3>. QED  BY <1>2, <3>2
  <2>. QED  BY <2>1, <2>2
<1>4. /\ Doing # "delete" /\ Segments \in Seq(Paths)
      /\ \A p \in Passed : p \in Paths /\ worktree[p] = "dir"
      /\ \A p \in Paths : p \notin Passed =>
              worktree[p] = Between(phase)[p]
                \/ (worktree[p] = "absent" /\ ClearedNow(p, Between(phase)[p]))
  BY <1>3, OnPath
<1>5. Current \in Paths  BY <1>4, PathHas
<1>6. Passed = {Segments[i] : i \in 1..Len(Segments)}  BY <1>2, <1>4 DEF Passed
<1>7. Passed = Above(Current) \cup (IF IsDirectoryEntry THEN {Current} ELSE {})
  BY <1>5, <1>6, SegmentsAre
<1>8. at \notin 1..Len(Segments)  BY <1>4
<1>. QED  BY <1>3, <1>4, <1>7, <1>8 DEF ClearedNow, AtEnd

LEMMA FinishDirectoryKeeps ==
  ASSUME WorkspaceInv, NEW phase, stage = phase, FinishDirectory
  PROVE  WorkspaceInv'
<1>. DEFINE c == Current
<1>1. /\ Busy /\ at = Len(Segments) + 1 /\ IsDirectoryEntry /\ PathDone /\ at' = 0 /\ InPlace
      /\ UNCHANGED <<worktree, record, outside, found>>
  BY DEF FinishDirectory, InPlace
<1>2. /\ Doing # "delete" /\ at > 0
      /\ \A p \in Above(c) : worktree[p] = "dir"
      /\ worktree[c] = "dir" /\ Passed = Above(c) \cup {c}
      /\ \A p \in Paths : p \notin Passed => worktree[p] = Between(phase)[p]
  BY <1>1, AtPath
<1>3. /\ phase \in Phases /\ Phase(phase) /\ todo.delete = {}
      /\ c \in Left(phase) /\ Left(phase) \subseteq Plan(phase) /\ c \in Paths
      /\ worktree \in Trees /\ ~outside /\ ~IsFile(Content(phase)[c]) /\ phase = "overlaying"
  BY <1>1, <1>2, PathHas
<1>4. RemovedIn(phase) = {p \in Lost(Start(phase), worktree) : ~Replaced(p)}  BY <1>3 DEF Phase
<1>5. outside' \in BOOLEAN /\ ~outside' /\ worktree' \in Trees
      /\ record' \in [restored : SUBSET Paths, removed : SUBSET Paths, files : SUBSET Paths,
                      overlayRemoved : SUBSET Paths]
  BY <1>1, <1>3, BusyHas DEF Rest, CheckKinds
<1>6. Left(phase)' = Left(phase) \ {c} /\ Gone(phase)' = Gone(phase) /\ todo'.delete = {}
  BY <1>1, <1>2, PathDoneIs
<1>. HIDE DEF c
<1>7. \A p \in Paths : Between(phase)'[p] = worktree[p]
  BY <1>1, <1>2, <1>3, <1>6, BetweenNext
<1>8. Start(phase)' = Start(phase) /\ RemovedIn(phase)' = RemovedIn(phase)
  BY <1>1 DEF Start, RemovedIn
<1>9. Phase(phase)'
  <2>1. \A p \in Paths : Entry(phase, p)'  BY <1>1, <1>7 DEF Entry
  <2>2. \A p : ~Replaced(p)' /\ ~Replaced(p)  BY <1>1 DEF Replaced
  <2>3. Lost(Start(phase), worktree)' = Lost(Start(phase), worktree)  BY <1>1, <1>8 DEF Lost
  <2>4. RemovedIn(phase)' = {p \in Lost(Start(phase), worktree)' : ~Replaced(p)'}
    BY <1>4, <1>8, <2>2, <2>3
  <2>. QED  BY <1>1, <1>3, <1>6, <2>1, <2>4 DEF Phase, Plan
<1>10. /\ record'.restored = record.restored /\ record'.removed = record.removed
       /\ record'.files = record.files \cup (IF IsFile(Overlay[Current]) THEN {Current} ELSE {})
       /\ phase # "restoring"
  BY <1>1, <1>3 DEF Content, c
<1>. QED  BY <1>1, <1>2, <1>5, <1>9, <1>10, LeavesKeeps

\* A path is cleared or written below real directories.
LEMMA PlacingHas ==
  ASSUME WorkspaceInv, NEW phase, stage = phase, Placing
  PROVE  /\ IsFile(Content(phase)[Current]) /\ ~Escapes(Current)
         /\ Passed = Above(Current) /\ Current \notin Passed
         /\ RemovedIn(phase) = {p \in Lost(Start(phase), worktree) : p # Current}
         /\ \A p : Replaced(p) <=> p = Current
<1>1. Busy /\ at = Len(Segments) + 1 /\ ~IsDirectoryEntry  BY DEF Placing
<1>2. /\ Doing # "delete" /\ at > 0 /\ AtEnd /\ Passed = Above(Current)
      /\ \A p \in Above(Current) : worktree[p] = "dir"
  BY <1>1, AtPath
<1>3. Current \in Paths /\ IsFile(Content(phase)[Current]) /\ Phase(phase)  BY <1>1, <1>2, PathHas
<1>4. \A p : Replaced(p) <=> p = Current  BY <1>1, <1>2 DEF Replaced
<1>5. RemovedIn(phase) = {p \in Lost(Start(phase), worktree) : p # Current}  BY <1>3, <1>4 DEF Phase
<1>6. ~Escapes(Current)  BY <1>2 DEF Escapes
<1>. QED  BY <1>2, <1>3, <1>4, <1>5, <1>6, AboveIs

LEMMA ClearPathKeeps ==
  ASSUME WorkspaceInv, NEW phase, stage = phase, ClearPath
  PROVE  WorkspaceInv'
<1>. DEFINE c == Current
            paths == IF worktree[c] = "dir" THEN FilesBelow(c) ELSE {}
<1>1. /\ Placing /\ Busy /\ at = Len(Segments) + 1 /\ ~IsDirectoryEntry /\ InPlace
      /\ worktree[c] # "absent" /\ worktree' = Cleared(c)
      /\ IF worktree[c] = "dir" THEN Recorded(FilesBelow(c)) ELSE UNCHANGED record
      /\ outside' = (outside \/ Escapes(c)) /\ UNCHANGED <<todo, at, found>>
  BY DEF ClearPath, InPlace, Placing
<1>2. /\ Doing # "delete" /\ at > 0 /\ AtEnd
      /\ \A p \in Above(c) : worktree[p] = "dir"
      /\ \A p \in Paths : p \notin Passed => worktree[p] = Between(phase)[p]
  BY <1>1, AtPath
<1>3. /\ phase \in Phases /\ Phase(phase) /\ todo.delete = {}
      /\ c \in Left(phase) /\ Left(phase) \subseteq Plan(phase) /\ c \in Paths
      /\ worktree \in Trees /\ ~outside /\ at \in Nat
  BY <1>1, <1>2, PathHas
<1>4. /\ IsFile(Content(phase)[c]) /\ ~Escapes(c)
      /\ Passed = Above(c) /\ c \notin Passed
      /\ RemovedIn(phase) = {p \in Lost(Start(phase), worktree) : p # c}
  BY <1>1, PlacingHas
<1>5. /\ Left(phase)' = Left(phase) /\ Current' = c /\ Segments' = Segments
      /\ IsDirectoryEntry' = IsDirectoryEntry /\ Between(phase)' = Between(phase)
      /\ Start(phase)' = Start(phase)
  BY <1>1, <1>3, PlanStays
<1>6. outside' \in BOOLEAN /\ ~outside'  BY <1>1, <1>3, <1>4, Zenon
<1>7. /\ worktree' \in Trees
      /\ \A p \in Paths : worktree'[p] = IF p = c \/ c \in Above(p) THEN "absent" ELSE worktree[p]
  BY <1>1, <1>3, ClearedIs
<1>8. phase = "restoring" => found[Current] # Base[Current]  BY <1>1, <1>2, OnPath
<1>. HIDE DEF c
<1>9. \A p \in Passed : p \in Paths /\ p # c /\ c \notin Above(p) /\ worktree[p] = "dir"
  BY <1>2, <1>3, <1>4, AboveIs
<1>10. \A p \in Paths : Entry(phase, p)'
  <2>1. Passed' = Passed  BY <1>1, <1>5 DEF Passed
  <2>2. \A p \in Passed' : worktree'[p] = "dir"  BY <1>7, <1>9, <2>1
  <2>3. \A p \in Paths : p \notin Passed' /\ p # c /\ c \notin Above(p) => worktree'[p] = Between(phase)'[p]
    BY <1>2, <1>5, <1>7, <2>1
  <2>4. AtEnd' /\ worktree'[Current'] = "absent"  BY <1>1, <1>3, <1>5, <1>7 DEF AtEnd
  <2>5. ASSUME NEW p \in Paths, p = c \/ c \in Above(p)
        PROVE  worktree'[p] = "absent" /\ ClearedNow(p, Between(phase)[p])'
    BY <1>5, <1>7, <2>4, <2>5 DEF ClearedNow, Below
  <2>6. at' > 0  BY <1>1, <1>2
  <2>. QED  BY <2>2, <2>3, <2>5, <2>6 DEF Entry
<1>11. ASSUME NEW p \in Paths, p # c
       PROVE  p \in paths <=> c \in Above(p) /\ IsFile(worktree[p])
  <2>1. CASE worktree[c] = "dir"  BY <1>11, <2>1 DEF FilesBelow, Below
  <2>2. CASE worktree[c] # "dir"
    <3>1. c \in Above(p) => worktree[p] = "absent"  BY <1>3, <2>2, TreeHas
    <3>. QED  BY <2>2, <3>1 DEF IsFile, Files
  <2>. QED  BY <2>1, <2>2
<1>12. paths \subseteq Paths /\ c \notin paths
  BY <1>3 DEF FilesBelow, Below, IsFile, Files
<1>13. Recorded(paths) \/ (paths = {} /\ UNCHANGED record)  BY <1>1
<1>. HIDE DEF paths
<1>14. RemovedIn(phase)' = RemovedIn(phase) \cup paths  BY <1>1, <1>12, <1>13, RecordedIs
<1>15. ASSUME NEW p \in paths PROVE IsFile(Start(phase)[p])
  <2>1. p \in Paths /\ p # c /\ c \in Above(p) /\ IsFile(worktree[p])  BY <1>11, <1>12
  <2>2. p \notin Passed  BY <1>9, <2>1
  <2>3. IsFile(Between(phase)[p])  BY <1>2, <2>1, <2>2
  <2>4. p \notin Done(phase)  BY <1>3, <1>4, <2>1, PlanIs DEF Done
  <2>5. Start(phase)[p] = Between(phase)[p]  BY <1>3, <2>1, <2>3, <2>4, FoundThere
  <2>. QED  BY <2>3, <2>5
<1>16. \A p : Replaced(p)' <=> p = c
  BY <1>1, <1>2, <1>5 DEF Replaced, AtEnd
<1>17. ASSUME NEW p \in Paths, p # c
       PROVE  p \in Lost(Start(phase), worktree)' <=> p \in Lost(Start(phase), worktree) \cup paths
  BY <1>5, <1>7, <1>11, <1>15, <1>17 DEF Lost, IsFile, Files
<1>18. RemovedIn(phase)' = {p \in Lost(Start(phase), worktree)' : ~Replaced(p)'}
  <2>1. Lost(Start(phase), worktree) \subseteq Paths /\ Lost(Start(phase), worktree)' \subseteq Paths
    BY DEF Lost
  <2>. QED  BY <1>4, <1>12, <1>14, <1>16, <1>17, <2>1
<1>19. at' \in Nat /\ at' <= Len(Segments') + 1  BY <1>1, <1>3, <1>5
<1>20. Phase(phase)'  BY <1>1, <1>3, <1>5, <1>10, <1>18, <1>19 DEF Phase, Plan
<1>21. UNCHANGED todo /\ paths \in SUBSET Paths  BY <1>1, <1>12
<1>. QED  BY <1>1, <1>2, <1>6, <1>7, <1>8, <1>13, <1>19, <1>20, <1>21, StaysKeeps

LEMMA CreateFileKeeps ==
  ASSUME WorkspaceInv, NEW phase, stage = phase, CreateFile
  PROVE  WorkspaceInv'
<1>. DEFINE c == Current
            content == Content(phase)
<1>1. /\ Placing /\ Busy /\ at = Len(Segments) + 1 /\ ~IsDirectoryEntry /\ InPlace
      /\ worktree[c] = "absent" /\ outside' = (outside \/ Escapes(c))
      /\ worktree' = IF Escapes(c) THEN worktree
                     ELSE [worktree EXCEPT ![c] = IF Doing = "overlay" THEN Overlay[c] ELSE Base[c]]
      /\ record' = IF Doing = "overlay" THEN [record EXCEPT !.files = @ \cup {c}]
                   ELSE [record EXCEPT !.restored = @ \cup {c}]
      /\ PathDone /\ at' = 0 /\ UNCHANGED found
  BY DEF CreateFile, InPlace, Placing
<1>2. /\ Doing # "delete" /\ at > 0
      /\ \A p \in Above(c) : worktree[p] = "dir"
      /\ \A p \in Paths : p \notin Passed =>
           worktree[p] = Between(phase)[p] \/ (worktree[p] = "absent" /\ p \in Below(c))
  BY <1>1, AtPath
<1>3. /\ phase \in Phases /\ Phase(phase) /\ todo.delete = {}
      /\ c \in Left(phase) /\ Left(phase) \subseteq Plan(phase) /\ c \in Paths
      /\ worktree \in Trees /\ ~outside
  BY <1>1, <1>2, PathHas
<1>4. /\ IsFile(content[c]) /\ ~Escapes(c)
      /\ Passed = Above(c) /\ c \notin Passed
      /\ RemovedIn(phase) = {p \in Lost(Start(phase), worktree) : p # c}
  BY <1>1, PlacingHas
<1>5. Left(phase)' = Left(phase) \ {c} /\ Gone(phase)' = Gone(phase) /\ todo'.delete = {}
  BY <1>1, <1>2, PathDoneIs
<1>6. outside' \in BOOLEAN /\ ~outside'  BY <1>1, <1>3, <1>4, Zenon
<1>7. /\ record \in [restored : SUBSET Paths, removed : SUBSET Paths, files : SUBSET Paths,
                      overlayRemoved : SUBSET Paths]
      /\ Doing = IF phase = "restoring" THEN "restore" ELSE "overlay"
  BY <1>1, <1>2, BusyHas DEF Rest, CheckKinds
<1>8. phase = "restoring" => found[c] # Base[c]  BY <1>1, <1>2, OnPath
<1>9. worktree' = [worktree EXCEPT ![c] = content[c]]
  BY <1>1, <1>3, <1>4, <1>7 DEF Content, Phases
<1>10. /\ record' \in [restored : SUBSET Paths, removed : SUBSET Paths, files : SUBSET Paths,
                      overlayRemoved : SUBSET Paths]
       /\ RemovedIn(phase)' = RemovedIn(phase)
       /\ phase = "restoring" => record'.restored = record.restored \cup {c}
            /\ record'.overlayRemoved = record.overlayRemoved /\ record'.files = record.files
       /\ phase = "overlaying" => record'.files = record.files \cup {c}
            /\ record'.restored = record.restored /\ record'.removed = record.removed
  <2>1. CASE phase = "restoring"  BY <1>1, <1>3, <1>7, <2>1 DEF RemovedIn
  <2>2. CASE phase = "overlaying"  BY <1>1, <1>3, <1>7, <2>2 DEF RemovedIn
  <2>. QED  BY <1>3, <2>1, <2>2 DEF Phases
<1>11. phase = "overlaying" => IsFile(Overlay[c])  BY <1>4 DEF Content
<1>. HIDE DEF c, content
<1>12. /\ worktree' \in Trees
       /\ \A p \in Paths : worktree'[p] = IF p = c THEN content[c] ELSE worktree[p]
  <2>1. content[c] \in Entries \ {"absent"}  BY <1>4 DEF IsFile, Files, Entries
  <2>2. worktree \in [Paths -> Entries]  BY <1>3, TreeHas
  <2>. QED  BY <1>1, <1>2, <1>3, <1>9, <2>1, <2>2, EntryAdded
<1>13. \A p \in Paths : c \in Above(p) => worktree[p] = "absent"  BY <1>1, <1>3, TreeHas
<1>14. \A p \in Paths : Between(phase)'[p] = worktree'[p]
  <2>1. \A p \in Paths : p # c /\ p \notin Above(c) /\ c \notin Above(p) => worktree[p] = Between(phase)[p]
    BY <1>2, <1>4 DEF Below
  <2>2. \A p \in Paths : Between(phase)'[p] =
           IF p = c THEN content[c]
           ELSE IF p \in Above(c) THEN "dir"
           ELSE IF c \in Above(p) THEN "absent"
           ELSE Between(phase)[p]
    BY <1>1, <1>3, <1>4, <1>5, BetweenNext DEF content
  <2>. QED  BY <1>2, <1>12, <1>13, <2>1, <2>2
<1>15. Phase(phase)'
  <2>1. \A p \in Paths : Entry(phase, p)'  BY <1>1, <1>14 DEF Entry
  <2>2. \A p : ~Replaced(p)'  BY <1>1 DEF Replaced
  <2>3. Start(phase)' = Start(phase)  BY <1>1 DEF Start
  <2>4. Lost(Start(phase), worktree)' = {p \in Lost(Start(phase), worktree) : p # c}
    BY <1>4, <1>12, <2>3 DEF Lost
  <2>5. RemovedIn(phase)' = {p \in Lost(Start(phase), worktree)' : ~Replaced(p)'}
    BY <1>4, <1>10, <2>2, <2>4
  <2>. QED  BY <1>1, <1>3, <1>5, <2>1, <2>5 DEF Phase, Plan
<1>16. phase = "restoring" =>
         /\ record'.restored = record.restored \cup (IF found[Current] # Base[Current] THEN {Current} ELSE {})
         /\ record'.overlayRemoved = record.overlayRemoved /\ record'.files = record.files
  BY <1>8, <1>10 DEF c
<1>17. phase = "overlaying" =>
         /\ record'.restored = record.restored /\ record'.removed = record.removed
         /\ record'.files = record.files \cup (IF IsFile(Overlay[Current]) THEN {Current} ELSE {})
  BY <1>10, <1>11 DEF c
<1>. QED  BY <1>1, <1>2, <1>6, <1>10, <1>12, <1>15, <1>16, <1>17, LeavesKeeps

-----------------------------------------------------------------------------
(* The check state: from one phase to the next.                            *)

\* A step from one phase of the check state to another is none of the seal or the patch.
LEMMA PhaseMoves ==
  ASSUME WorkspaceInv, stage \in Phases \cup {"captured"},
         NEW s \in Phases \cup {"checked"}, Goto(s), UNCHANGED <<sealVars, treeVars>>,
         PatchTypes', CheckKinds', ~outside',
         stage' = s => RestoreFits' /\ OverlayFits' /\ (s = "checked" => CheckFits')
  PROVE  WorkspaceInv'
<1>1. stage \in Using /\ s \in Using  BY DEF Phases, Using
<1>2. StageTypes /\ Rest
  BY <1>1, InvIs DEF sealVars
<1>3. StageTypes' /\ stage' = s  BY <1>1, <1>2, Moves
<1>4. /\ RepoAt(s) = RepoAt(stage) /\ stage \in Filled
      /\ s \notin Waiting \cup {"sealed", "populated", "set-up", "based", "worked", "captured"} \cup Sealing
  BY <1>1 DEF Waiting, Phases, RepoAt, Inspected, Filled, Sealing
<1>5. SealTypes' /\ SealFits'
  BY <1>1, <1>2, <1>3, <1>4 DEF Rest, SealTypes, SealFits, sealVars
<1>6. TreeTypes' /\ StartsUntouched' /\ PatchFits'
  BY <1>2, <1>3, <1>4 DEF Rest, TreeTypes, StartsUntouched, PatchFits, treeVars
<1>7. CheckInv'
  <2>1. CASE s = "checked"  BY <1>3, <2>1 DEF CheckInv
  <2>2. CASE s \in Phases  BY <1>3, <2>2 DEF CheckInv, CheckFits, Phases
  <2>. QED  BY <2>1, <2>2
<1>. QED  BY <1>3, <1>5, <1>6, <1>7, InvIs DEF Rest

\* Where a phase begins: nothing is done, and the worktree is what it starts from.
LEMMA PhaseBegins ==
  ASSUME NEW phase \in Phases, at' = 0, todo'.delete \subseteq Untracked(found)',
         Left(phase)' = Plan(phase), Gone(phase)' = {}, Start(phase)' = worktree', RemovedIn(phase)' = {},
         worktree' \in Trees
  PROVE  Phase(phase)'
<1>1. Done(phase)' = {}  BY DEF Done, Plan
<1>2. Between(phase)' = Laid(worktree', Content(phase), {}, {}, {})
  BY <1>1 DEF Between, FilesOf, DirsOf, Leads, Content
<1>3. \A p \in Paths : Between(phase)'[p] = worktree'[p]  BY <1>2 DEF Laid
<1>4. \A p \in Paths : Entry(phase, p)'  BY <1>3 DEF Entry
<1>5. Lost(Start(phase), worktree)' = {}  BY DEF Lost
<1>6. RemovedIn(phase)' = {p \in Lost(Start(phase), worktree)' : ~Replaced(p)'}  BY <1>5
<1>. QED  BY <1>4, <1>6 DEF Phase, Plan

LEMMA ListRestoreKeeps ==
  ASSUME WorkspaceInv, ListRestore
  PROVE  WorkspaceInv'
<1>1. /\ stage = "captured" /\ Goto("restoring") /\ found' = worktree
      /\ todo' = [delete |-> Untracked(worktree), restore |-> Matched, overlay |-> {}]
      /\ before' = EmptyTree /\ base' = EmptyTree /\ patch' = Unchanged
      /\ UNCHANGED <<sealVars, treeVars, at, record, outside>> /\ UNCHANGED worktree
  BY DEF ListRestore, treeVars
<1>2. "captured" \in Using /\ "captured" \notin Over /\ "captured" \in Phases \cup {"captured"}
      /\ "restoring" \in Phases
  BY DEF Using, Over, Phases
<1>3. StageTypes /\ Rest  BY <1>1, <1>2, InvIs
<1>4. stage = "captured"  BY <1>1
<1>5. /\ worktree \in Trees /\ at = 0 /\ record = NoRecord /\ ~outside /\ outside \in BOOLEAN
  BY <1>2, <1>3, <1>4 DEF Rest, TreeTypes, CheckInv, CheckFits, CheckKinds
<1>6. Matched \subseteq Paths /\ Untracked(worktree) \subseteq Paths
  BY WorkspaceAssumption DEF Matched, Untracked
<1>7. PatchTypes'  BY <1>1, EmptyTreeIs DEF PatchTypes, EmptyTree, Unchanged
<1>8. CheckKinds'  BY <1>1, <1>3, <1>5, <1>6 DEF Rest, CheckKinds
<1>9. /\ todo'.delete = Untracked(found)' /\ Left("restoring")' = Plan("restoring")
      /\ Gone("restoring")' = {} /\ Start("restoring")' = worktree'
      /\ Done("restoring")' = {}
  BY <1>1 DEF Left, Plan, Gone, Start, Done, Untracked
<1>10. RemovedIn("restoring")' = {}  BY <1>1, <1>5 DEF RemovedIn, NoRecord
<1>11. Phase("restoring")'  BY <1>1, <1>2, <1>5, <1>9, <1>10, PhaseBegins
<1>12. RestoreFits'
  <2>1. record'.restored = {} /\ record'.overlayRemoved = {} /\ record'.files = {} /\ at' = 0
    BY <1>1, <1>5 DEF NoRecord
  <2>2. todo'.overlay = {} /\ todo'.restore = Matched  BY <1>1
  <2>. QED  BY <1>9, <1>11, <2>1, <2>2 DEF RestoreFits, Matched
<1>13. stage' = "restoring" => OverlayFits'  BY DEF OverlayFits
<1>. QED  BY <1>1, <1>2, <1>5, <1>7, <1>8, <1>12, <1>13, PhaseMoves

\* What a phase comes to.
LEMMA RestoredIs ==
  ASSUME todo.delete = {}, Left("restoring") = {}, worktree \in Trees,
         \A p \in Paths : worktree[p] = Between("restoring")[p]
  PROVE  worktree = Restored(found)
<1>1. /\ Done("restoring") = Matched /\ Gone("restoring") = Untracked(found)
      /\ Start("restoring") = found /\ Content("restoring") = Base
  BY DEF Done, Plan, Gone, Start, Content
<1>2. Matched \subseteq Paths /\ \A p \in Paths : p \in Matched <=> p \in Restore /\ Base[p] = "base"
  BY WorkspaceAssumption DEF Matched
<1>3. ASSUME NEW p \in Paths PROVE worktree[p] = Restored(found)[p]
  <2>1. worktree[p] =
          IF p \in Matched /\ IsFile(Base[p]) THEN Base[p]
          ELSE IF p \in Matched \/ \E q \in Matched : p \in Above(q) THEN "dir"
          ELSE IF p \in Untracked(found) \/ \E d \in Above(p) : d \in Matched /\ IsFile(Base[d]) THEN "absent"
          ELSE found[p]
    BY <1>1, BetweenIs DEF Phases
  <2>2. \A q \in Matched : IsFile(Base[q])  BY DEF Matched, IsFile, Files
  <2>3. (\E q \in Matched : p \in Above(q)) <=> \E q \in Restore : Base[q] = "base" /\ p \in Above(q)
    BY DEF Matched
  <2>4. (\E d \in Above(p) : d \in Matched) <=> \E d \in Above(p) : d \in Restore /\ Base[d] = "base"
    BY DEF Matched
  <2>5. p \in Untracked(found) <=> p \in Restore /\ Base[p] # "base" /\ IsFile(found[p])
    BY DEF Untracked
  <2>6. Restored(found)[p] =
          IF p \in Restore /\ Base[p] = "base" THEN Base[p]
          ELSE IF \E q \in Restore : Base[q] = "base" /\ p \in Above(q) THEN "dir"
          ELSE IF \/ p \in Restore /\ IsFile(found[p])
                  \/ \E d \in Above(p) : d \in Restore /\ Base[d] = "base" THEN "absent"
          ELSE found[p]
    BY DEF Restored
  <2>. QED  BY <1>2, <2>1, <2>2, <2>3, <2>4, <2>5, <2>6
<1>4. worktree \in [Paths -> Entries]  BY TreeHas
<1>5. Restored(found) = [p \in Paths |-> Restored(found)[p]]  BY DEF Restored
<1>. QED  BY <1>3, <1>4, <1>5

LEMMA OverlaidIs ==
  ASSUME Left("overlaying") = {}, worktree \in Trees,
         \A p \in Paths : worktree[p] = Between("overlaying")[p]
  PROVE  worktree = Overlaid(Restored(found))
<1>. DEFINE start == Restored(found)
<1>1. /\ Done("overlaying") = Snapshot /\ Gone("overlaying") = {}
      /\ Start("overlaying") = start /\ Content("overlaying") = Overlay
  BY DEF Done, Plan, Gone, Start, Content
<1>. HIDE DEF start
<1>2. \A p \in Paths : /\ Overlay[p] \in {"absent", "dir", "overlay"}
                       /\ p \in Snapshot <=> Overlay[p] # "absent"
                       /\ IsFile(Overlay[p]) <=> Overlay[p] = "overlay"
  BY WorkspaceAssumption DEF Snapshot, IsFile, Files
<1>3. ASSUME NEW p \in Paths PROVE worktree[p] = Overlaid(start)[p]
  <2>1. worktree[p] =
          IF p \in Snapshot /\ IsFile(Overlay[p]) THEN Overlay[p]
          ELSE IF p \in Snapshot \/ \E q \in Snapshot : p \in Above(q) THEN "dir"
          ELSE IF p \in {} \/ \E d \in Above(p) : d \in Snapshot /\ IsFile(Overlay[d]) THEN "absent"
          ELSE start[p]
    BY <1>1, BetweenIs DEF Phases
  <2>2. (\E q \in Snapshot : p \in Above(q)) <=> \E q \in Paths : Overlay[q] # "absent" /\ p \in Above(q)
    BY DEF Snapshot
  <2>3. (\E d \in Above(p) : d \in Snapshot /\ IsFile(Overlay[d])) <=> \E d \in Above(p) : Overlay[d] = "overlay"
    BY <1>2, AboveIs
  <2>4. Overlaid(start)[p] =
          IF Overlay[p] = "overlay" THEN "overlay"
          ELSE IF Overlay[p] = "dir" \/ \E q \in Paths : Overlay[q] # "absent" /\ p \in Above(q) THEN "dir"
          ELSE IF \E d \in Above(p) : Overlay[d] = "overlay" THEN "absent"
          ELSE start[p]
    BY DEF Overlaid
  <2>. QED  BY <1>2, <2>1, <2>2, <2>3, <2>4
<1>4. worktree \in [Paths -> Entries]  BY TreeHas
<1>5. Overlaid(start) = [p \in Paths |-> Overlaid(start)[p]]  BY DEF Overlaid
<1>6. worktree = Overlaid(start)  BY <1>3, <1>4, <1>5
<1>. QED  BY <1>6 DEF start

\* Where a phase ends.
LEMMA PhaseEnds ==
  ASSUME NEW phase \in Phases, Phase(phase), at \in Nat, todo = NoWork
  PROVE  /\ Left(phase) = {} /\ todo.delete = {} /\ at = 0
         /\ \A p \in Paths : worktree[p] = Between(phase)[p]
         /\ RemovedIn(phase) = Lost(Start(phase), worktree)
<1>1. Left(phase) = {} /\ todo.delete = {}  BY DEF Left, NoWork
<1>2. at = 0  BY <1>1 DEF Phase
<1>3. \A p \in Paths : worktree[p] = Between(phase)[p]  BY <1>2, AtRest DEF Phase
<1>4. {p \in Lost(Start(phase), worktree) : ~Replaced(p)} = Lost(Start(phase), worktree)
  BY <1>2, AtRest
<1>5. RemovedIn(phase) = Lost(Start(phase), worktree)  BY <1>4 DEF Phase
<1>. QED  BY <1>1, <1>2, <1>3, <1>5

LEMMA BeginOverlayKeeps ==
  ASSUME WorkspaceInv, BeginOverlay
  PROVE  WorkspaceInv'
<1>1. /\ stage = "restoring" /\ Goto("overlaying") /\ todo = NoWork
      /\ todo' = [NoWork EXCEPT !.overlay = Snapshot]
      /\ UNCHANGED <<sealVars, treeVars, patchVars, found, at, record, outside>> /\ UNCHANGED worktree
  BY DEF BeginOverlay, treeVars
<1>2. "restoring" \in Using /\ Phases = {"restoring", "overlaying"}  BY DEF Using, Phases
<1>3. StageTypes /\ Rest  BY <1>1, <1>2, InvIs
<1>4. stage = "restoring"  BY <1>1
<1>5. /\ Phase("restoring") /\ at \in Nat /\ worktree \in Trees /\ ~outside
      /\ record.restored = {p \in Done("restoring") : found[p] # Base[p]}
      /\ record.overlayRemoved = {} /\ record.files = {}
  BY <1>3, <1>4 DEF Rest, CheckInv, RestoreFits, CheckFits, CheckKinds, TreeTypes
<1>6. /\ Left("restoring") = {} /\ todo.delete = {} /\ at = 0
      /\ \A p \in Paths : worktree[p] = Between("restoring")[p]
      /\ RemovedIn("restoring") = Lost(Start("restoring"), worktree)
  BY <1>1, <1>2, <1>5, PhaseEnds
<1>7. worktree = Restored(found)  BY <1>5, <1>6, RestoredIs
<1>8. RestoredFits
  <2>1. record.removed = Lost(found, worktree)  BY <1>6 DEF RemovedIn, Start
  <2>2. Done("restoring") = Matched  BY <1>6 DEF Done, Plan
  <2>. QED  BY <1>5, <1>7, <2>1, <2>2 DEF RestoredFits
<1>9. todo' = [delete |-> {}, restore |-> {}, overlay |-> Snapshot]  BY <1>1 DEF NoWork
<1>10. /\ Left("overlaying")' = Plan("overlaying") /\ Gone("overlaying")' = {}
       /\ Start("overlaying")' = worktree' /\ Done("overlaying")' = {} /\ RemovedIn("overlaying")' = {}
  BY <1>1, <1>5, <1>7, <1>9 DEF Left, Plan, Gone, Start, Done, RemovedIn
<1>11. Phase("overlaying")'
  <2>1. todo'.delete \subseteq Untracked(found)'  BY <1>9
  <2>. QED  BY <1>1, <1>2, <1>5, <1>6, <1>10, <2>1, PhaseBegins
<1>12. OverlayFits'
  <2>1. RestoredFits'  BY <1>1, <1>8 DEF RestoredFits
  <2>2. FilesOf("overlaying", Done("overlaying"))' = {}  BY <1>10 DEF FilesOf
  <2>. QED  BY <1>1, <1>5, <1>9, <1>11, <2>1, <2>2 DEF OverlayFits
<1>13. CheckKinds'
  <2>1. Snapshot \subseteq Paths  BY DEF Snapshot
  <2>. QED  BY <1>1, <1>3, <1>9, <2>1 DEF Rest, CheckKinds
<1>14. PatchTypes' /\ ~outside'  BY <1>1, <1>3, <1>5 DEF Rest, PatchTypes, patchVars
<1>15. stage' = "overlaying" => RestoreFits'  BY DEF RestoreFits
<1>. QED  BY <1>1, <1>2, <1>12, <1>13, <1>14, <1>15, PhaseMoves

LEMMA EndCheckStateKeeps ==
  ASSUME WorkspaceInv, EndCheckState
  PROVE  WorkspaceInv'
<1>1. /\ stage = "overlaying" /\ Goto("checked") /\ todo = NoWork
      /\ UNCHANGED <<sealVars, treeVars, patchVars, checkVars>> /\ UNCHANGED worktree
  BY DEF EndCheckState, Step, treeVars
<1>2. "overlaying" \in Using /\ Phases = {"restoring", "overlaying"} /\ "checked" \notin Over
  BY DEF Using, Phases, Over
<1>3. StageTypes /\ Rest  BY <1>1, <1>2, InvIs
<1>4. stage = "overlaying"  BY <1>1
<1>5. /\ Phase("overlaying") /\ at \in Nat /\ worktree \in Trees /\ ~outside /\ RestoredFits
      /\ record.files = FilesOf("overlaying", Done("overlaying"))
  BY <1>3, <1>4 DEF Rest, CheckInv, OverlayFits, CheckFits, CheckKinds, TreeTypes
<1>6. /\ Left("overlaying") = {}
      /\ \A p \in Paths : worktree[p] = Between("overlaying")[p]
      /\ RemovedIn("overlaying") = Lost(Start("overlaying"), worktree)
  BY <1>1, <1>2, <1>5, PhaseEnds
<1>7. worktree = Overlaid(Restored(found))  BY <1>5, <1>6, OverlaidIs
<1>8. record.overlayRemoved = Lost(Restored(found), worktree)  BY <1>6 DEF RemovedIn, Start
<1>9. record.files = {p \in Paths : Overlay[p] = "overlay"}
  <2>1. record.files = {p \in Snapshot : IsFile(Overlay[p])}  BY <1>5, <1>6 DEF FilesOf, Done, Plan, Content
  <2>. QED  BY <2>1, WorkspaceAssumption DEF Snapshot, IsFile, Files
<1>10. UNCHANGED <<found, todo, at, record, outside>>  BY <1>1 DEF checkVars
<1>11. RestoredFits'  BY <1>5, <1>10 DEF RestoredFits
<1>12. worktree' = Overlaid(Restored(found')) /\ record'.overlayRemoved = Lost(Restored(found'), worktree')
       /\ record'.files = {p \in Paths : Overlay[p] = "overlay"}
  BY <1>1, <1>7, <1>8, <1>9, <1>10
<1>13. PatchTypes' /\ CheckKinds' /\ ~outside'
  BY <1>1, <1>3, <1>5, <1>10 DEF Rest, PatchTypes, CheckKinds, patchVars
<1>14. stage' = "checked" => RestoreFits' /\ OverlayFits' /\ CheckFits'
  BY <1>2, <1>11, <1>12, <1>13 DEF RestoreFits, OverlayFits, CheckFits
<1>. QED  BY <1>1, <1>2, <1>13, <1>14, PhaseMoves

-----------------------------------------------------------------------------
(* The theorems.                                                           *)

LEMMA WorkspaceInitInv ==
  ASSUME WorkspaceInit
  PROVE  WorkspaceInv
<1>1. StageTypes /\ stage \in Waiting
  BY DEF WorkspaceInit, StageTypes, Steps, Waiting
<1>2. SealTypes /\ TreeTypes /\ PatchTypes /\ CheckKinds
  <2>1. SealTypes  BY DEF WorkspaceInit, SealTypes, RepoParts
  <2>2. TreeTypes  BY EmptyTreeIs, WorkspaceAssumption DEF TreeTypes, WorkspaceInit
  <2>3. PatchTypes  BY EmptyTreeIs DEF PatchTypes, WorkspaceInit, EmptyTree, Unchanged
  <2>4. CheckKinds  BY EmptyTreeIs DEF CheckKinds, WorkspaceInit, NoWork, NoRecord
  <2>. QED  BY <2>1, <2>2, <2>3, <2>4
<1>3. SealFits /\ StartsUntouched /\ PatchFits
  BY <1>1, PlacesDiffer DEF WorkspaceInit, SealFits, StartsUntouched, Untouched, PatchFits, Using
<1>4. CheckInv  BY <1>1, PlacesDiffer DEF Using, WorkspaceInit, CheckInv, RestoreFits, OverlayFits, CheckFits
<1>. QED  BY <1>1, <1>2, <1>3, <1>4, InvIs DEF Rest

LEMMA WorkspaceStep ==
  ASSUME WorkspaceInv, [WorkspaceNext]_workspaceVars
  PROVE  WorkspaceInv'
<1>1. ASSUME NEW p \in Pointers, StorageChanges(p) PROVE WorkspaceInv'
  BY <1>1, StorageChangesKeeps
<1>2. ASSUME SealCase PROVE WorkspaceInv'
  BY <1>2, WaitingKeeps, InitRepositoryKeeps, BorrowObjectsKeeps,
     InspectSourceTreeKeeps, DigestObjectKeeps, HashObjectKeeps, WriteTreeWithEntriesKeeps,
     CommitTreeKeeps, RepackKeeps, RemoveAlternatesKeeps, PopulateWorktreeKeeps,
     CheckSealedTreeKeeps, FailSealKeeps DEF SealCase
<1>3. ASSUME UseWorkspace PROVE WorkspaceInv'
  BY <1>3, RunSetupKeeps, SnapshotPatchBaseKeeps, RunAgentKeeps, CapturePatchKeeps, DisposeKeeps
     DEF UseWorkspace
<1>4. ASSUME ApplyCheckState PROVE WorkspaceInv'
  <2>1. PICK phase : stage = phase  OBVIOUS
  <2>. QED  BY <1>4, <2>1, ListRestoreKeeps, DeleteUntrackedKeeps, ComparePathKeeps, EnsureDirectoryKeeps,
               FinishDirectoryKeeps, ClearPathKeeps, CreateFileKeeps, BeginOverlayKeeps, EndCheckStateKeeps
            DEF ApplyCheckState
<1>5. ASSUME UNCHANGED workspaceVars PROVE WorkspaceInv'
  <2>1. UNCHANGED stage /\ UNCHANGED <<sealVars, treeVars, patchVars, checkVars>>
    BY <1>5 DEF workspaceVars, sealVars
  <2>2. StageTypes' /\ Rest  BY <2>1, InvIs DEF StageTypes
  <2>. QED  BY <2>1, <2>2, SameStage, InvIs
<1>. QED  BY <1>1, <1>2, <1>3, <1>4, <1>5 DEF WorkspaceNext

\* The inductive invariant, of every behaviour of the workspace of a case.
THEOREM WorkspaceInvariant == WorkspaceSpec => []WorkspaceInv
<1>1. WorkspaceInit => WorkspaceInv  BY WorkspaceInitInv
<1>2. WorkspaceInv /\ [WorkspaceNext]_workspaceVars => WorkspaceInv'  BY WorkspaceStep
<1>. QED  BY <1>1, <1>2, PTL DEF WorkspaceSpec

\* Whatever the worktree and the plans, the state of a workspace keeps its type; in
\* particular what lies in the worktree always lies below directories.
THEOREM WorkspaceTypeCorrect == WorkspaceSpec => []WorkspaceTypeOK
<1>1. WorkspaceInv => WorkspaceTypeOK  BY DEF WorkspaceInv
<1>. QED  BY <1>1, WorkspaceInvariant, PTL

\* The case is whole when it is sealed, whatever happened to the source's storage
\* meanwhile (sealCase, materializeLfsEntries).
THEOREM SealedCaseIsWhole == WorkspaceSpec => []SealedIsWhole
<1>1. ASSUME WorkspaceInv PROVE SealedIsWhole
  <2>1. SealFits  BY <1>1 DEF WorkspaceInv
  <2>2. ASSUME stage = "sealed"
        PROVE  /\ worktree = Base /\ \A p \in Pointers : blobs[p] = "good"
               /\ repo = {"objects", "contents", "ref"}
    <3>1. "sealed" \in Using /\ "sealed" \in Filled  BY DEF Using, Filled
    <3>2. RepoAt("sealed") = {"objects", "contents", "ref"}  BY DEF RepoAt, Inspected
    <3>. QED  BY <2>1, <2>2, <3>1, <3>2 DEF SealFits
  <2>. QED  BY <2>1, <2>2 DEF SealedIsWhole
<1>. QED  BY <1>1, WorkspaceInvariant, PTL

\* Whatever setup and the agent leave, track and ignore, the patch holds each change of
\* the agent that it may see and nothing of setup's (snapshotPatchBase, capturePatch).
THEOREM PatchIsTheAgents == WorkspaceSpec => []PatchIsAgentsWork
<1>1. ASSUME WorkspaceInv PROVE PatchIsAgentsWork
  <2>1. ASSUME stage = "captured", NEW p \in Paths
        PROVE  /\ Visible(p) /\ Seen(worktree, p) \notin {Seen(before, p), "absent"}
                    => patch[p] = Seen(worktree, p)
               /\ IsFile(before[p]) /\ p \notin Ignoring /\ ~IsFile(worktree[p]) => patch[p] = "absent"
               /\ patch[p] # "unchanged" =>
                    Seen(worktree, p) # Seen(before, p) \/ (p \in Ignoring /\ base[p] = "absent")
    <3>1. PatchFits /\ TreeTypes /\ PatchTypes  BY <1>1, TypesFit DEF WorkspaceInv
    <3>2. /\ base[p] \in {"absent", Seen(before, p)}
          /\ IsFile(before[p]) /\ p \notin Ignoring => base[p] = before[p]
          /\ patch[p] = IF StageWorktree(base)[p] = base[p] THEN "unchanged" ELSE StageWorktree(base)[p]
      BY <2>1, <3>1 DEF PatchFits, BaseFits
    <3>3. StageWorktree(base)[p] =
            IF IsFile(worktree[p]) /\ (base[p] # "absent" \/ p \in index \/ p \notin ignored)
            THEN worktree[p] ELSE "absent"
      BY <2>1, <3>1, StagedIs DEF PatchTypes
    <3>. QED  BY <2>1, <3>2, <3>3 DEF Visible, Seen, IsFile, Files
  <2>. QED  BY <2>1 DEF PatchIsAgentsWork
<1>. QED  BY <1>1, WorkspaceInvariant, PTL

\* Whatever worktree the agent left, whatever paths are restored and whatever snapshot
\* is laid over it, the checks see the pinned and the overlaid files, the record is exact
\* and nothing is touched behind a link (applyRestore, applyOverlay).
THEOREM CheckStateIsExact == WorkspaceSpec => []CheckStateExact
<1>1. ASSUME WorkspaceInv PROVE CheckStateExact
  <2>1. CheckFits  BY <1>1 DEF WorkspaceInv, CheckInv
  <2>2. ASSUME stage = "checked"
        PROVE  /\ worktree = Overlaid(Restored(found))
               /\ record.restored = {p \in Restore : Base[p] = "base" /\ found[p] # Base[p]}
               /\ record.removed = Lost(found, Restored(found))
               /\ record.overlayRemoved = Lost(Restored(found), worktree)
               /\ record.files = {p \in Paths : Overlay[p] = "overlay"}
    BY <2>1, <2>2 DEF CheckFits, RestoredFits, Matched
  <2>. QED  BY <2>1, <2>2 DEF CheckStateExact, CheckFits
<1>. QED  BY <1>1, WorkspaceInvariant, PTL

=============================================================================
