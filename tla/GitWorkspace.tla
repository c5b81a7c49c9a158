----------------------------- MODULE GitWorkspace -----------------------------
(***************************************************************************)
(* The git adapter: what happens to the directory of one case from the     *)
(* validation of its source to its disposal. Each run makes a workspace    *)
(* root of its own, so the directory is the run's alone: what a step meets *)
(* there is what setup, the agent and the steps before it left. A step is  *)
(* an awaited git or file call, or a stretch of calls between which nobody *)
(* else can look. The worktree is a map from paths to what lies there; a   *)
(* link leads out of it. What setup and the agent do to it is any change.  *)
(***************************************************************************)
EXTENDS Integers, Sequences

CONSTANTS
  Paths,     \* paths below the worktree root
  Order,     \* the same paths as git and the overlay sort them
  Leading,   \* Leading[p]: the directories above p, outermost first
  Base,      \* Base[p]: the entry of p in the pinned tree
  Pointers,  \* entries of the pinned tree that are Git LFS pointers
  Ignoring,  \* the paths the ignore rules of the pinned tree match
  Restore,   \* the paths check_state.restore matches
  Overlay,   \* Overlay[p]: "dir", "overlay" or "absent"
  SetupReach, \* bound: the paths setup touches
  AgentReach  \* bound: the paths the agent touches

Files == {"base", "setup", "agent", "overlay", "link"}
Entries == Files \cup {"absent", "dir"}
Above(p) == {Leading[p][i] : i \in DOMAIN Leading[p]}

\* A path holds something only below real directories.
Trees == {t \in [Paths -> Entries] :
            \A p \in Paths : t[p] # "absent" => \A d \in Above(p) : t[d] = "dir"}
EmptyTree == [p \in Paths |-> "absent"]

ASSUME WorkspaceAssumption ==
  /\ Leading \in [Paths -> Seq(Paths)]
  /\ \A p \in Paths : p \notin Above(p)
  /\ \A p \in Paths : \A i \in DOMAIN Leading[p] :
       Above(Leading[p][i]) = {Leading[p][j] : j \in 1..(i - 1)}
  /\ Order \in Seq(Paths) /\ {Order[i] : i \in DOMAIN Order} = Paths
  /\ Base \in Trees /\ \A p \in Paths : Base[p] \in {"absent", "dir", "base"}
  /\ Pointers \subseteq {p \in Paths : Base[p] = "base"}
  /\ Ignoring \subseteq Paths /\ Restore \subseteq Paths
  /\ Overlay \in [Paths -> {"absent", "dir", "overlay"}]
  /\ \A p \in Paths : Overlay[p] # "absent" => \A d \in Above(p) : Overlay[d] = "dir"
  /\ SetupReach \subseteq Paths /\ AgentReach \subseteq Paths

VARIABLES
  lfs,       \* the file of each needed object in the source's Git LFS storage
  repo,      \* what the sealed repository holds, of RepoParts
  blobs,     \* the objects written for the pointers
  worktree,  \* the entry at each path
  index,     \* paths setup or the agent force-added to the case's own index
  ignored,   \* the paths the ignore rules match now
  stage,     \* the step the case is at
  before,    \* history: the worktree the agent was given
  base,      \* the tree the patch is taken against
  patch,     \* the captured patch: changed paths with what they hold now
  found,     \* history: the worktree the check state was applied to
  todo,      \* the paths left to delete, then to restore, then to overlay
  at,        \* the leading directory of the first one that is next; 0 before the comparison
  record,    \* the check state record: restored, removed, files
  outside    \* whether anything was written or deleted behind a link

sealVars == <<lfs, repo, blobs>>
treeVars == <<worktree, index, ignored>>
patchVars == <<before, base, patch>>
checkVars == <<found, todo, at, record, outside>>
workspaceVars == <<sealVars, treeVars, stage, patchVars, checkVars>>

\* A link to the source's objects, or objects of its own; a tree with the pointers,
\* or with the contents in their place; the case's branch; reference logs.
RepoParts == {"alternates", "objects", "pointers", "contents", "ref", "logs"}
NoWork == [delete |-> {}, restore |-> {}, overlay |-> {}]
NoRecord == [restored |-> {}, removed |-> {}, files |-> {}, overlayRemoved |-> {}]

Waiting == {"queued", "validated"}
Sealing == {"made", "initialized", "borrowed", "inspected", "digested", "materialized",
            "written", "committed", "repacked", "unlinked", "populated"}
Using == {"sealed", "set-up", "based", "working", "worked", "captured", "restoring",
          "restored", "overlaying", "checked"}
Over == {"refused", "failed", "disposed", "retained", "killed"}

\* The one type invariant.
WorkspaceTypeOK ==
  /\ lfs \in [Pointers -> {"good", "corrupt", "absent"}]
  /\ repo \subseteq RepoParts
  /\ blobs \in [Pointers -> {"none", "good", "corrupt"}]
  /\ worktree \in Trees /\ before \in Trees /\ found \in Trees
  /\ index \subseteq Paths /\ ignored \subseteq Paths
  /\ stage \in Waiting \cup Sealing \cup Using \cup Over
  /\ base \in [Paths -> Files \cup {"absent"}]
  /\ patch \in [Paths -> Files \cup {"absent", "unchanged"}]
  /\ todo \in [delete : SUBSET Paths, restore : SUBSET Paths, overlay : SUBSET Paths]
  /\ at \in Nat
  /\ record \in [restored : SUBSET Paths, removed : SUBSET Paths, files : SUBSET Paths,
                 overlayRemoved : SUBSET Paths]
  /\ outside \in BOOLEAN

Unchanged == [p \in Paths |-> "unchanged"]
Emptied ==
  /\ repo' = {} /\ blobs' = [p \in Pointers |-> "none"]
  /\ worktree' = EmptyTree /\ index' = {} /\ ignored' = Ignoring
  /\ before' = EmptyTree /\ base' = EmptyTree /\ patch' = Unchanged
  /\ found' = EmptyTree /\ todo' = NoWork /\ at' = 0 /\ record' = NoRecord

WorkspaceInit ==
  /\ lfs \in [Pointers -> {"good", "corrupt", "absent"}]
  /\ repo = {} /\ blobs = [p \in Pointers |-> "none"]
  /\ worktree = EmptyTree /\ index = {} /\ ignored = Ignoring
  /\ stage = "queued"
  /\ before = EmptyTree /\ base = EmptyTree /\ patch = Unchanged
  /\ found = EmptyTree /\ todo = NoWork /\ at = 0 /\ record = NoRecord
  /\ outside = FALSE

Goto(s) == stage' = s
Step(from, to) == stage = from /\ Goto(to)

-----------------------------------------------------------------------------
(* Validation and sealing.                                                 *)

\* Someone fetches, prunes or damages the source's Git LFS storage (bound: while the
\* case may still read it).
StorageChanges(p) ==
  /\ \E state \in {"good", "corrupt", "absent"} \ {lfs[p]} : lfs' = [lfs EXCEPT ![p] = state]
  /\ stage \in Waiting \cup {"made", "initialized", "borrowed", "inspected", "digested"}
  /\ UNCHANGED <<repo, blobs, treeVars, stage, patchVars, checkVars>>

\* lfsStorageReport: it looks at sizes, and a damaged object may keep its size.
Missing == {p \in Pointers : lfs[p] = "absent"}

ValidateSource ==
  /\ stage = "queued"
  /\ Goto(IF Missing = {} THEN "validated" ELSE "refused")
  /\ UNCHANGED <<sealVars, treeVars, patchVars, checkVars>>

\* The commit is gone, or the case directory cannot be made: nothing is there, nothing is removed.
RefuseCase ==
  /\ stage = "validated"
  /\ Goto("refused")
  /\ UNCHANGED <<sealVars, treeVars, patchVars, checkVars>>

MakeCaseDirectory ==
  /\ Step("validated", "made")
  /\ UNCHANGED <<sealVars, treeVars, patchVars, checkVars>>

InitRepository ==
  /\ Step("made", "initialized")
  /\ repo' = repo \cup {"logs"}
  /\ UNCHANGED <<lfs, blobs, treeVars, patchVars, checkVars>>

BorrowObjects ==
  /\ Step("initialized", "borrowed")
  /\ repo' = repo \cup {"alternates"}
  /\ UNCHANGED <<lfs, blobs, treeVars, patchVars, checkVars>>

InspectSourceTree ==
  /\ Step("borrowed", IF Pointers = {} THEN "written" ELSE "inspected")
  /\ Missing = {}
  /\ repo' = repo \cup {IF Pointers = {} THEN "contents" ELSE "pointers"}
  /\ UNCHANGED <<lfs, blobs, treeVars, patchVars, checkVars>>

\* The path of a set that comes first in the order.
First(paths) ==
  Order[CHOOSE i \in DOMAIN Order : Order[i] \in paths /\ \A j \in 1..(i - 1) : Order[j] \notin paths]

\* The objects are written one after another.
Unwritten == {p \in Pointers : blobs[p] = "none"}
NextObject == First(Unwritten)

DigestObject ==
  /\ Step("inspected", "digested")
  /\ lfs[NextObject] = "good"
  /\ UNCHANGED <<sealVars, treeVars, patchVars, checkVars>>

\* Mutant: the id of the written blob is not compared with the digest.
HashUncompared ==
  /\ stage = "digested"
  /\ lfs[NextObject] # "absent"
  /\ blobs' = [blobs EXCEPT ![NextObject] = lfs[NextObject]]
  /\ Goto(IF Unwritten = {NextObject} THEN "materialized" ELSE "inspected")
  /\ UNCHANGED <<lfs, repo, treeVars, patchVars, checkVars>>

\* hash-object reads the file again; the blob id tells when it changed since.
HashObject ==
  /\ stage = "digested"
  /\ lfs[NextObject] = "good"
  /\ blobs' = [blobs EXCEPT ![NextObject] = "good"]
  /\ Goto(IF Unwritten = {NextObject} THEN "materialized" ELSE "inspected")
  /\ UNCHANGED <<lfs, repo, treeVars, patchVars, checkVars>>

WriteTreeWithEntries ==
  /\ Step("materialized", "written")
  /\ repo' = (repo \ {"pointers"}) \cup {"contents"}
  /\ UNCHANGED <<lfs, blobs, treeVars, patchVars, checkVars>>

CommitTree ==
  /\ Step("written", "committed")
  /\ repo' = repo \cup {"ref"}
  /\ UNCHANGED <<lfs, blobs, treeVars, patchVars, checkVars>>

Repack ==
  /\ Step("committed", "repacked")
  /\ repo' = repo \cup {"objects"}
  /\ UNCHANGED <<lfs, blobs, treeVars, patchVars, checkVars>>

RemoveAlternates ==
  /\ Step("repacked", "unlinked")
  /\ repo' = repo \ {"alternates", "logs"}
  /\ UNCHANGED <<lfs, blobs, treeVars, patchVars, checkVars>>

\* reset --hard fills the worktree from local objects alone: the pinned tree, with
\* the blobs of the objects in place of their pointers.
PopulateWorktree ==
  /\ Step("unlinked", "populated")
  /\ "objects" \in repo
  /\ worktree' = Base
  /\ UNCHANGED <<sealVars, index, ignored, patchVars, checkVars>>

CheckSealedTree ==
  /\ Step("populated", "sealed")
  /\ before' = worktree
  /\ base' = [p \in Paths |-> IF worktree[p] \in Files THEN worktree[p] ELSE "absent"]
  /\ UNCHANGED <<sealVars, treeVars, patch, checkVars>>

\* fail and failSource remove the directory; a removal that fails is not reported.
FailSeal ==
  /\ stage \in Sealing
  /\ Goto("failed")
  /\ \/ Emptied /\ UNCHANGED <<lfs, outside>>
     \/ UNCHANGED <<sealVars, treeVars, patchVars, checkVars>>

-----------------------------------------------------------------------------
(* The patch.                                                              *)

\* Setup and the agent may leave a path alone, or put there what they like.
Reach(by) == IF by = "setup" THEN SetupReach ELSE AgentReach
Changes(by) ==
  {t \in Trees : \A p \in Paths :
     \/ t[p] = worktree[p]
     \/ t[p] = "absent" /\ \E d \in Above(p) : t[d] # "dir"
     \/ p \in Reach(by) /\ t[p] \in {"absent", "dir", by}
     \/ p \in Reach(by) /\ by = "agent" /\ t[p] = "link"}

RunSetup ==
  /\ Step("sealed", "set-up")
  /\ worktree' \in Changes("setup")
  /\ index' \in {{}, {p \in Ignoring : worktree'[p] \in Files}}
  /\ UNCHANGED <<sealVars, ignored, patchVars, checkVars>>

\* Mutant: `add --all` alone, which skips a force-added path the tree lacks.
StageUnforced(tree) ==
  [p \in Paths |-> IF worktree[p] \in Files /\ (tree[p] # "absent" \/ p \notin ignored)
                   THEN worktree[p] ELSE "absent"]

\* Mutant: the probe does not ask what lies at the path, so a directory is staged as well.
StageDirectories(tree) ==
  [p \in Paths |-> IF tree[p] # "absent" \/ p \in index \/ p \notin ignored
                   THEN worktree[p] ELSE "absent"]

\* The seed, the paths the case index tracks and the seed lacks, then add --all.
StageWorktree(tree) ==
  [p \in Paths |-> IF /\ worktree[p] \in Files
                      /\ tree[p] # "absent" \/ p \in index \/ p \notin ignored
                   THEN worktree[p] ELSE "absent"]

SnapshotPatchBase ==
  /\ Step("set-up", "based")
  /\ base' = StageWorktree(base)
  /\ before' = worktree
  /\ UNCHANGED <<sealVars, treeVars, patch, checkVars>>

\* The agent may edit the ignore rules and force-add what they match.
RunAgent ==
  /\ stage \in {"sealed", "based"} /\ Goto("worked")
  /\ worktree' \in Changes("agent")
  /\ ignored' \in {Ignoring, {}}
  /\ index' \in {index, {p \in Ignoring : worktree'[p] \in Files}}
  /\ UNCHANGED <<sealVars, patchVars, checkVars>>

CapturePatch ==
  /\ Step("worked", "captured")
  /\ patch' = [p \in Paths |-> IF StageWorktree(base)[p] = base[p] THEN "unchanged"
                               ELSE StageWorktree(base)[p]]
  /\ UNCHANGED <<sealVars, treeVars, before, base, checkVars>>

-----------------------------------------------------------------------------
(* The check state.                                                        *)

IsFile(entry) == entry \in Files
Matched == {p \in Restore : Base[p] = "base"}
Untracked(tree) == {p \in Restore : Base[p] # "base" /\ IsFile(tree[p])}
Snapshot == {p \in Paths : Overlay[p] # "absent"}

ListRestore ==
  /\ stage = "captured"
  /\ found' = worktree
  /\ todo' = [delete |-> Untracked(worktree), restore |-> Matched, overlay |-> {}]
  /\ Goto("restoring")
  /\ before' = EmptyTree /\ base' = EmptyTree /\ patch' = Unchanged  \* the patch is with its caller
  /\ UNCHANGED <<sealVars, treeVars, at, record, outside>>

Doing == IF todo.delete # {} THEN "delete" ELSE IF todo.restore # {} THEN "restore" ELSE "overlay"
Current == First(todo[Doing])
PathDone == todo' = [todo EXCEPT ![Doing] = @ \ {Current}]

IsDirectoryEntry == Doing = "overlay" /\ Overlay[Current] = "dir"
Segments == IF IsDirectoryEntry THEN Append(Leading[Current], Current) ELSE Leading[Current]

\* Deleting or creating below a link acts on what the link leads to.
Escapes(p) == \E d \in Above(p) : worktree[d] = "link"
Below(p) == {q \in Paths : q = p \/ p \in Above(q)}
Cleared(p) == [q \in Paths |-> IF q \in Below(p) THEN "absent" ELSE worktree[q]]
FilesBelow(p) == {q \in Below(p) : IsFile(worktree[q])}

Recorded(paths) ==
  record' = IF Doing = "overlay"
            THEN [record EXCEPT !.overlayRemoved = @ \cup paths]
            ELSE [record EXCEPT !.removed = @ \cup paths]

Busy == stage \in {"restoring", "overlaying"} /\ todo # NoWork
InPlace == UNCHANGED <<sealVars, index, ignored, stage, patchVars, found>>

DeleteUntracked ==
  /\ Busy /\ Doing = "delete"
  /\ worktree' = Cleared(Current)
  /\ Recorded(FilesBelow(Current))
  /\ PathDone
  /\ outside' = (outside \/ Escapes(Current))
  /\ at' = at /\ InPlace

\* sameEntry: the leading directories are real and the entry is the pinned one.
SameEntry ==
  /\ Doing = "restore"
  /\ \A d \in Above(Current) : worktree[d] = "dir"
  /\ worktree[Current] = Base[Current]

ComparePath ==
  /\ Busy /\ Doing # "delete" /\ at = 0
  /\ IF SameEntry THEN PathDone /\ at' = 0 ELSE todo' = todo /\ at' = 1
  /\ UNCHANGED <<worktree, record, outside>> /\ InPlace

\* Mutant: a link to a directory counts as one (stat in place of lstat).
EnsureThroughLink ==
  /\ Busy /\ at \in 1..Len(Segments)
  /\ LET d == Segments[at]
     IN  \/ /\ worktree[d] = "absent"
            /\ worktree' = [worktree EXCEPT ![d] = "dir"] /\ at' = at + 1
            /\ UNCHANGED record
         \/ /\ worktree[d] \in {"dir", "link"}
            /\ at' = at + 1 /\ UNCHANGED <<worktree, record>>
         \/ /\ IsFile(worktree[d]) /\ worktree[d] # "link"
            /\ worktree' = Cleared(d) /\ Recorded({d}) /\ at' = at
  /\ UNCHANGED <<todo, outside>> /\ InPlace

EnsureDirectory ==
  /\ Busy /\ at \in 1..Len(Segments)
  /\ LET d == Segments[at]
     IN  \/ /\ worktree[d] = "absent"
            /\ worktree' = [worktree EXCEPT ![d] = "dir"] /\ at' = at + 1
            /\ UNCHANGED record
         \/ /\ worktree[d] = "dir"
            /\ at' = at + 1 /\ UNCHANGED <<worktree, record>>
         \/ /\ IsFile(worktree[d])
            /\ worktree' = Cleared(d) /\ Recorded({d}) /\ at' = at
  /\ UNCHANGED <<todo, outside>> /\ InPlace

\* An overlay directory is done with its last segment.
FinishDirectory ==
  /\ Busy /\ at = Len(Segments) + 1
  /\ IsDirectoryEntry
  /\ PathDone /\ at' = 0
  /\ UNCHANGED <<worktree, record, outside>> /\ InPlace

Placing ==
  /\ Busy /\ at = Len(Segments) + 1
  /\ ~IsDirectoryEntry

\* What sits at the path goes: a directory is listed and deleted, a file unlinked.
ClearPath ==
  /\ Placing /\ worktree[Current] # "absent"
  /\ worktree' = Cleared(Current)
  /\ IF worktree[Current] = "dir" THEN Recorded(FilesBelow(Current)) ELSE UNCHANGED record
  /\ outside' = (outside \/ Escapes(Current))
  /\ UNCHANGED <<todo, at>> /\ InPlace

CreateFile ==
  /\ Placing /\ worktree[Current] = "absent"
  /\ LET p == Current
     IN  /\ outside' = (outside \/ Escapes(p))
         /\ worktree' = IF Escapes(p) THEN worktree
                        ELSE [worktree EXCEPT ![p] = IF Doing = "overlay" THEN Overlay[p] ELSE Base[p]]
         /\ record' = IF Doing = "overlay"
                      THEN [record EXCEPT !.files = @ \cup {p}]
                      ELSE [record EXCEPT !.restored = @ \cup {p}]
  /\ PathDone /\ at' = 0 /\ InPlace

BeginOverlay ==
  /\ stage = "restoring" /\ todo = NoWork
  /\ todo' = [NoWork EXCEPT !.overlay = Snapshot]
  /\ Goto("overlaying")
  /\ UNCHANGED <<sealVars, treeVars, patchVars, found, at, record, outside>>

EndCheckState ==
  /\ Step("overlaying", "checked") /\ todo = NoWork
  /\ UNCHANGED <<sealVars, treeVars, patchVars, checkVars>>

ApplyCheckState ==
  \/ ListRestore \/ DeleteUntracked \/ ComparePath \/ EnsureDirectory
  \/ FinishDirectory \/ ClearPath \/ CreateFile \/ BeginOverlay \/ EndCheckState

-----------------------------------------------------------------------------
(* The end of a workspace.                                                 *)

\* The case ends here, or a call failed: its run disposes of it, or keeps it.
Dispose ==
  /\ stage \in Using
  /\ \/ Goto("disposed") /\ Emptied /\ UNCHANGED <<lfs, outside>>
     \/ Goto("retained") /\ UNCHANGED <<sealVars, treeVars, patchVars, checkVars>>

Killed ==
  /\ stage \in Sealing \cup Using
  /\ Goto("killed")
  /\ UNCHANGED <<sealVars, treeVars, patchVars, checkVars>>

SealCase ==
  \/ ValidateSource \/ RefuseCase \/ MakeCaseDirectory \/ InitRepository
  \/ BorrowObjects \/ InspectSourceTree \/ DigestObject \/ HashObject
  \/ WriteTreeWithEntries \/ CommitTree \/ Repack \/ RemoveAlternates \/ PopulateWorktree
  \/ CheckSealedTree \/ FailSeal

UseWorkspace ==
  \/ RunSetup \/ SnapshotPatchBase \/ RunAgent \/ CapturePatch
  \/ Dispose \/ Killed

WorkspaceNext ==
  \/ \E p \in Pointers : StorageChanges(p)
  \/ SealCase \/ UseWorkspace \/ ApplyCheckState

WorkspaceSpec == WorkspaceInit /\ [][WorkspaceNext]_workspaceVars

-----------------------------------------------------------------------------
(* What a workspace must be.                                               *)

\* A sealed case holds the pinned content, also of Git LFS objects that changed in the
\* storage meanwhile, needs nothing of the source, and shows no trace of it (sealCase).
SealedIsWhole ==
  stage = "sealed" =>
    /\ worktree = Base /\ \A p \in Pointers : blobs[p] = "good"
    /\ repo = {"objects", "contents", "ref"}

\* Seen(t): what a patch can tell of a worktree; Visible: under the rules that hold now.
Seen(t, p) == IF IsFile(t[p]) THEN t[p] ELSE "absent"
Visible(p) == base[p] # "absent" \/ p \in index \/ p \notin ignored

\* The patch is the agent's work: each change of a path it may see is in it (the
\* removal of what setup left ignored is not: no base ever held it), and a path as
\* setup left it is not, unless the base could not see it and the patch can.
PatchIsAgentsWork ==
  stage = "captured" =>
    \A p \in Paths :
      /\ Visible(p) /\ Seen(worktree, p) \notin {Seen(before, p), "absent"}
           => patch[p] = Seen(worktree, p)
      /\ IsFile(before[p]) /\ p \notin Ignoring /\ ~IsFile(worktree[p]) => patch[p] = "absent"
      /\ patch[p] # "unchanged" =>
           Seen(worktree, p) # Seen(before, p) \/ (p \in Ignoring /\ base[p] = "absent")

\* What restore is to make of a worktree, and then the overlay.
Restored(t) ==
  [p \in Paths |->
     IF p \in Restore /\ Base[p] = "base" THEN Base[p]
     ELSE IF \E q \in Restore : Base[q] = "base" /\ p \in Above(q) THEN "dir"
     ELSE IF \/ p \in Restore /\ IsFile(t[p])
             \/ \E d \in Above(p) : d \in Restore /\ Base[d] = "base" THEN "absent"
     ELSE t[p]]
Overlaid(t) ==
  [p \in Paths |->
     IF Overlay[p] = "overlay" THEN "overlay"
     ELSE IF Overlay[p] = "dir" \/ \E q \in Paths : Overlay[q] # "absent" /\ p \in Above(q) THEN "dir"
     ELSE IF \E d \in Above(p) : Overlay[d] = "overlay" THEN "absent"
     ELSE t[p]]
Lost(from, to) == {p \in Paths : IsFile(from[p]) /\ ~IsFile(to[p])}

\* Whatever the agent left at the paths, the checks see the pinned and the overlaid
\* files, the record names exactly what was restored, removed and written, and
\* nothing was touched behind a link.
CheckStateExact ==
  /\ ~outside
  /\ stage = "checked" =>
       /\ worktree = Overlaid(Restored(found))
       /\ record.restored = {p \in Restore : Base[p] = "base" /\ found[p] # Base[p]}
       /\ record.removed = Lost(found, Restored(found))
       /\ record.overlayRemoved = Lost(Restored(found), worktree)
       /\ record.files = {p \in Paths : Overlay[p] = "overlay"}
=============================================================================
