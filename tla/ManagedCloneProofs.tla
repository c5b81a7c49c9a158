--------------------------- MODULE ManagedCloneProofs ---------------------------
(***************************************************************************)
(* What the lock of a managed clone and the order of a command's steps     *)
(* guarantee, for any commands, revisions, Git LFS objects and number of   *)
(* killed commands: CloneSound. The lock keeps the writers apart, but what *)
(* a command that succeeded promises rests on more than the lock, for what *)
(* it read was read without it: nothing that is in a clone ever leaves it, *)
(* and a command is past a phase only when the clone holds what the phase  *)
(* is there for.                                                           *)
(***************************************************************************)
EXTENDS ManagedClone, TaskBase, FiniteSetTheorems, WellFoundedInduction, TLAPS

\* Where a command is, or goes when it has cleaned up and released the lock.
Heading(c) == IF doing[c] \in {"clean up", "release"} THEN next[c] ELSE doing[c]

Inside == {"resolve", "fetch hashes", "fetch names", "fetching hashes", "fetching names", "recheck"}
Fetching == Inside \ {"resolve"}
Counting == {"inventory", "lfs", "lfs fetching", "recount"}

\* The lock.
OneWriter ==
  \A c \in Commands : Holds(c) => lock /\ \A d \in Commands \ {c} : ~Holds(d)

\* A clone holds what it was made with.
ClonedIsThere == place = "whole" => Cloned \subseteq commits

\* The steps of a command and its phase agree; a command that is past its first step
\* has a clone.
InPhase(c) ==
  /\ phase[c] = "objects" => Heading(c) \in Counting \cup (Ends \ {"ok"})
  /\ Heading(c) \in Counting => phase[c] = "objects"
  /\ Heading(c) = "ok" => phase[c] = "reference"
  /\ Heading(c) \in Inside => place = "whole"
  /\ phase[c] # "base" => place = "whole"

\* What a command has made sure of: while it fetches its bases, that it knows which it
\* lacks, and later that it has them, and that it counted the objects.
Provided(c) ==
  /\ phase[c] = "base" /\ Heading(c) \in Fetching => BaseOf[c] \subseteq commits \cup unresolved[c]
  /\ phase[c] # "base" => BaseOf[c] \subseteq commits \cup missing[c] /\ missing[c] \cap Cloned = {}
  /\ phase[c] = "reference" /\ inventory[c] => objects = Objects

CommandsSound == \A c \in Commands : InPhase(c) /\ Provided(c)

CloneInv == CloneTypeOK /\ OneWriter /\ ClonedIsThere /\ CommandsSound

\* A clone stays where it is, and nothing leaves it.
Grows ==
  /\ place = "whole" => place' = "whole" /\ commits \subseteq commits'
  /\ objects \subseteq objects'

\* A step of a command leaves the state of the others alone.
OwnStep(c) ==
  \A d \in Commands \ {c} :
       /\ doing'[d] = doing[d] /\ phase'[d] = phase[d] /\ next'[d] = next[d]
       /\ unresolved'[d] = unresolved[d] /\ missing'[d] = missing[d]
       /\ inventory'[d] = inventory[d]

-----------------------------------------------------------------------------
(* Types.                                                                  *)

\* The lock, wherever a command takes it.
LEMMA AcquireTyped ==
  ASSUME CloneTypeOK, NEW c \in Commands, NEW w \in Unlocked \cup Locked \cup Ends, AcquireLock(c, w)
  PROVE  /\ lock' \in BOOLEAN /\ doing' \in [Commands -> Unlocked \cup Locked \cup Ends]
         /\ next' \in [Commands -> Unlocked \cup Ends]
BY DEF CloneTypeOK, AcquireLock, Goes, Fails, Ends

\* A release, wherever a command goes then.
LEMMA ReleaseTyped ==
  ASSUME CloneTypeOK, NEW c \in Commands, NEW w \in Unlocked \cup Ends, Releases(c, w)
  PROVE  /\ doing' \in [Commands -> Unlocked \cup Locked \cup Ends]
         /\ next' \in [Commands -> Unlocked \cup Ends]
BY DEF CloneTypeOK, Releases, Goes, Locked

LEMMA ProbeTyped ==
  ASSUME CloneTypeOK, NEW c \in Commands, ProbeGh(c)
  PROVE  /\ doing' \in [Commands -> Unlocked \cup Locked \cup Ends]
         /\ next' \in [Commands -> Unlocked \cup Ends] /\ probed' \subseteq Commands
<1>1. PICK end \in {Fails(c), "cancelled"} : Releases(c, end)  BY DEF ProbeGh
<1>2. end \in Unlocked \cup Ends  BY DEF Fails, Ends
<1>. QED  BY <1>1, <1>2, ReleaseTyped DEF ProbeGh, CloneTypeOK

\* The revisions a command needs are revisions.
LEMMA NeededTyped ==
  ASSUME NEW c \in Commands
  PROVE  Needed(c) \subseteq Revisions
BY DEF Needed, Revisions

\* Making a clone keeps the types.
LEMMA EnsureCloneTyped ==
  ASSUME CloneTypeOK, NEW c \in Commands, EnsureClone(c)
  PROVE  CloneTypeOK'
<1>. USE CloneAssumption
<1>1. CASE InspectClone(c)
  BY <1>1 DEF InspectClone, Goes, Fails, CloneTypeOK, cloneDisk, Unlocked, Ends
<1>2. CASE BeginClone(c)
  <2>1. "locked" \in Unlocked \cup Locked \cup Ends  BY DEF Locked
  <2>. QED  BY <1>2, <2>1, AcquireTyped DEF BeginClone, CloneTypeOK
<1>3. CASE CloneBeside(c)
  <2>1. /\ {"resolve", Fails(c)} \subseteq Unlocked \cup Ends
        /\ "cloning" \in Unlocked \cup Locked \cup Ends
    BY DEF Fails, Unlocked, Ends, Locked, Writing
  <2>2. CASE (Releases(c, Fails(c)) \/ Releases(c, "resolve")) /\ UNCHANGED <<temps, probed>>
    <3>1. PICK w \in {"resolve", Fails(c)} : Releases(c, w)  BY <2>2
    <3>. QED  BY <1>3, <2>1, <2>2, <3>1, ReleaseTyped DEF CloneBeside, CloneTypeOK
  <2>3. CASE ProbeGh(c) /\ UNCHANGED temps
    BY <1>3, <2>3, ProbeTyped DEF CloneBeside, CloneTypeOK
  <2>4. CASE probed' = probed \cup {c} /\ temps' = temps \cup {c} /\ Goes(c, "cloning") /\ UNCHANGED next
    BY <1>3, <2>1, <2>4 DEF CloneBeside, CloneTypeOK, Goes
  <2>5. CASE probed' = probed \cup {c} /\ Releases(c, Fails(c)) /\ UNCHANGED temps
    BY <1>3, <2>1, <2>5, ReleaseTyped DEF CloneBeside, CloneTypeOK
  <2>. QED  BY <1>3, <2>2, <2>3, <2>4, <2>5 DEF CloneBeside
<1>4. CASE CloneEnds(c)
  BY <1>4 DEF CloneEnds, Goes, Fails, CloneTypeOK, cloneDisk, Locked, Writing, Ends
<1>5. CASE LandClone(c)
  BY <1>5 DEF LandClone, Releases, Goes, Fails, CloneTypeOK, Locked, Ends, Unlocked
<1>6. CASE CleanUp(c)
  BY <1>6 DEF CleanUp, Goes, CloneTypeOK, Locked
<1>. QED  BY <1>1, <1>2, <1>3, <1>4, <1>5, <1>6 DEF EnsureClone

\* Fetching the commits keeps the types.
LEMMA EnsureCommitsTyped ==
  ASSUME CloneTypeOK, NEW c \in Commands, EnsureCommits(c)
  PROVE  CloneTypeOK'
<1>1. CASE ResolveRevisions(c)
  <2>1. PICK failed \in SUBSET (Needed(c) \cap commits) :
          unresolved' = [unresolved EXCEPT ![c] = (Needed(c) \ commits) \cup failed]
    BY <1>1 DEF ResolveRevisions
  <2>2. /\ unresolved' \in [Commands -> SUBSET Revisions]
        /\ missing' \in [Commands -> SUBSET Revisions]
    BY <1>1, <2>1, NeededTyped DEF ResolveRevisions, CloneTypeOK
  <2>3. /\ doing' \in [Commands -> Unlocked \cup Locked \cup Ends]
        /\ phase' \in [Commands -> {"base", "objects", "reference"}]
    BY <1>1 DEF ResolveRevisions, CloneTypeOK, Continue, Goes, Unlocked, Ends
  <2>. QED  BY <1>1, <2>2, <2>3 DEF ResolveRevisions, CloneTypeOK, cloneDisk
<1>2. CASE BeginFetch(c)
  <2>1. {"fetching hashes", "fetching names"} \subseteq Unlocked \cup Locked \cup Ends
    BY DEF Locked, Writing
  <2>. QED  BY <1>2, <2>1, AcquireTyped DEF BeginFetch, CloneTypeOK
<1>3. CASE FetchEnds(c)
  <2>1. /\ {AfterFetch(c), Fails(c), "cancelled"} \subseteq Unlocked \cup Ends
        /\ Brought(c) \subseteq Remote
    BY DEF AfterFetch, Fails, Unlocked, Ends, Brought, CloneTypeOK
  <2>2. CASE ProbeGh(c) /\ UNCHANGED commits
    BY <1>3, <2>2, ProbeTyped DEF FetchEnds, CloneTypeOK
  <2>3. CASE /\ probed' = probed \cup {c} /\ commits' \in {commits, Brought(c)}
             /\ \E w \in {AfterFetch(c), Fails(c), "cancelled"} : Releases(c, w)
    BY <1>3, <2>1, <2>3, ReleaseTyped DEF FetchEnds, CloneTypeOK
  <2>. QED  BY <1>3, <2>2, <2>3 DEF FetchEnds
<1>4. CASE RecheckRevisions(c)
  <2>1. unresolved[c] \ commits \subseteq Revisions  BY DEF CloneTypeOK
  <2>. QED
    BY <1>4, <2>1 DEF RecheckRevisions, CloneTypeOK, cloneDisk, Continue, Goes, Unlocked, Ends
<1>. QED  BY <1>1, <1>2, <1>3, <1>4 DEF EnsureCommits

\* So does fetching the Git LFS objects.
LEMMA EnsureObjectsTyped ==
  ASSUME CloneTypeOK, NEW c \in Commands, EnsureObjects(c)
  PROVE  CloneTypeOK'
<1>1. CASE InspectLfsObjects(c)
  BY <1>1 DEF InspectLfsObjects, NextPhase, Goes, CloneTypeOK, cloneDisk, Unlocked, Ends
<1>2. CASE BeginLfsFetch(c)
  <2>1. "lfs fetching" \in Unlocked \cup Locked \cup Ends  BY DEF Locked, Writing
  <2>. QED  BY <1>2, <2>1, AcquireTyped DEF BeginLfsFetch, CloneTypeOK
<1>3. CASE LfsObjectArrives(c)
  BY <1>3 DEF LfsObjectArrives, CloneTypeOK
<1>4. CASE LfsFetchEnds(c)
  <2>1. {"recount", Fails(c), "cancelled"} \subseteq Unlocked \cup Ends
    BY DEF Fails, Unlocked, Ends
  <2>2. CASE ProbeGh(c)
    BY <1>4, <2>2, ProbeTyped DEF LfsFetchEnds, CloneTypeOK, cloneDisk
  <2>3. CASE /\ probed' = probed \cup {c}
             /\ \E end \in {"recount", Fails(c), "cancelled"} : Releases(c, end)
    BY <1>4, <2>1, <2>3, ReleaseTyped DEF LfsFetchEnds, CloneTypeOK, cloneDisk
  <2>. QED  BY <1>4, <2>2, <2>3 DEF LfsFetchEnds
<1>. QED  BY <1>1, <1>2, <1>3, <1>4 DEF EnsureObjects

LEMMA TypeStep ==
  ASSUME CloneTypeOK, [CloneNext]_cloneVars
  PROVE  CloneTypeOK'
<1>. USE CloneAssumption
<1>1. CASE \E c \in Commands : EnsureClone(c) \/ EnsureCommits(c) \/ EnsureObjects(c)
  BY <1>1, EnsureCloneTyped, EnsureCommitsTyped, EnsureObjectsTyped
<1>2. ASSUME NEW c \in Commands, ReleaseLock(c)  PROVE CloneTypeOK'
  BY <1>2 DEF ReleaseLock, Goes, CloneTypeOK, Unlocked
<1>3. ASSUME NEW c \in Commands, Kill(c)  PROVE CloneTypeOK'
  <2>1. orphans' \subseteq Remote \cup Objects  BY <1>3 DEF Kill, CloneTypeOK, Asked
  <2>2. deaths' \in 0..MaxDeaths
    <3>1. deaths \in 0..MaxDeaths /\ deaths < MaxDeaths /\ deaths' = deaths + 1
      BY <1>3 DEF Kill, CloneTypeOK
    <3>2. MaxDeaths \in Nat  BY DEF CloneAssumption
    <3>. QED  BY <3>1, <3>2
  <2>. QED  BY <1>3, <2>1, <2>2 DEF Kill, Goes, CloneTypeOK, cloneDisk, Unlocked, Ends
<1>4. ASSUME NEW c \in Commands, RunAgain(c)  PROVE CloneTypeOK'
  BY <1>4 DEF RunAgain, Goes, CloneTypeOK, cloneDisk, Unlocked
<1>5. CASE OrphanWrites
  BY <1>5 DEF OrphanWrites, CloneTypeOK, commandVars
<1>6. CASE OperatorRemoves
  BY <1>6 DEF OperatorRemoves, CloneTypeOK, commandVars
<1>7. CASE UNCHANGED cloneVars
  BY <1>7 DEF cloneVars, cloneDisk, commandVars, CloneTypeOK
<1>. QED  BY <1>1, <1>2, <1>3, <1>4, <1>5, <1>6, <1>7 DEF CloneNext

\* The types hold in every state.
THEOREM CloneTypeCorrect == CloneSpec => []CloneTypeOK
<1>1. CloneInit => CloneTypeOK
  <2>1. MaxDeaths \in Nat  BY CloneAssumption DEF CloneAssumption
  <2>. SUFFICES ASSUME CloneInit PROVE CloneTypeOK
    OBVIOUS
  <2>2. /\ place \in {"missing", "whole", "other"} /\ lock \in BOOLEAN
        /\ orphans \subseteq Remote \cup Objects
        /\ commits \subseteq Remote /\ objects \subseteq Objects
        /\ temps \subseteq Commands /\ probed \subseteq Commands
    BY DEF CloneInit
  <2>0. deaths \in 0..MaxDeaths
    BY <2>1 DEF CloneInit
  <2>3. /\ doing \in [Commands -> Unlocked \cup Locked \cup Ends]
        /\ phase \in [Commands -> {"base", "objects", "reference"}]
        /\ next \in [Commands -> Unlocked \cup Ends]
        /\ inventory \in [Commands -> BOOLEAN]
    BY DEF CloneInit, Unlocked
  <2>4. /\ unresolved \in [Commands -> SUBSET Revisions]
        /\ missing \in [Commands -> SUBSET Revisions]
    BY DEF CloneInit
  <2>. QED  BY <2>0, <2>2, <2>3, <2>4 DEF CloneTypeOK
<1>2. CloneTypeOK /\ [CloneNext]_cloneVars => CloneTypeOK'  BY TypeStep
<1>. QED  BY <1>1, <1>2, PTL DEF CloneSpec

-----------------------------------------------------------------------------
(* The lock.                                                               *)

\* A command that works without the lock, or has ended, does not hold it.
LEMMA LockedApart == \A w \in Unlocked \cup Ends : w \notin Locked
BY DEF Unlocked, Ends, Locked, Writing

\* A command takes the lock when nobody has it, works under it, or gives it up.
LEMMA LockMoves ==
  ASSUME CloneTypeOK, OneWriter, NEW c \in Commands, NEW w, Goes(c, w),
         \/ w \notin Locked /\ (lock' = lock \/ Holds(c))
         \/ w \in Locked /\ Holds(c) /\ lock' = lock
         \/ w \in Locked /\ ~lock /\ lock' = TRUE
  PROVE  OneWriter'
<1>1. /\ doing'[c] = w
      /\ \A d \in Commands \ {c} : doing'[d] = doing[d]
  BY DEF Goes, CloneTypeOK
<1>2. Holds(c)' <=> w \in Locked  BY <1>1 DEF Holds
<1>3. \A d \in Commands \ {c} : Holds(d)' <=> Holds(d)  BY <1>1 DEF Holds
<1>4. CASE w \notin Locked /\ lock' = lock  BY <1>2, <1>3, <1>4 DEF OneWriter
<1>5. CASE w \notin Locked /\ Holds(c)  BY <1>2, <1>3, <1>5 DEF OneWriter
<1>6. CASE w \in Locked /\ Holds(c) /\ lock' = lock  BY <1>2, <1>3, <1>6 DEF OneWriter
<1>7. CASE w \in Locked /\ ~lock /\ lock' = TRUE
  <2>1. \A d \in Commands : ~Holds(d)  BY <1>7 DEF OneWriter
  <2>. QED  BY <1>2, <1>3, <1>7, <2>1 DEF OneWriter
<1>. QED  BY <1>4, <1>5, <1>6, <1>7

LEMMA AcquireKeepsOneWriter ==
  ASSUME CloneTypeOK, OneWriter, NEW c \in Commands, NEW w \in Locked, AcquireLock(c, w)
  PROVE  OneWriter'
<1>1. Fails(c) \notin Locked /\ "cancelled" \notin Locked  BY LockedApart DEF Fails, Ends
<1>. QED  BY <1>1, LockMoves DEF AcquireLock

LEMMA ReleaseKeepsOneWriter ==
  ASSUME CloneTypeOK, OneWriter, NEW c \in Commands, NEW w, Releases(c, w), Holds(c), lock' = lock
  PROVE  OneWriter'
BY LockMoves DEF Releases, Locked

\* No step breaks the lock, that of a command the operator removes included.
LEMMA OneWriterStep ==
  ASSUME CloneTypeOK, OneWriter, [CloneNext]_cloneVars
  PROVE  OneWriter'
<1>0. ASSUME NEW c \in Commands, NEW w \in Unlocked \cup Ends, Goes(c, w), lock' = lock
      PROVE  OneWriter'
  BY <1>0, LockMoves, LockedApart
<1>1. ASSUME NEW c \in Commands, EnsureClone(c)  PROVE OneWriter'
  <2>1. CASE InspectClone(c)
    <3>1. PICK w \in {"clone", Fails(c), "resolve"} : Goes(c, w)  BY <2>1 DEF InspectClone
    <3>2. w \in Unlocked \cup Ends /\ lock' = lock
      BY <2>1, <3>1 DEF InspectClone, cloneDisk, Fails, Unlocked, Ends
    <3>. QED  BY <3>1, <3>2, <1>0
  <2>2. CASE BeginClone(c)
    BY <2>2, AcquireKeepsOneWriter DEF BeginClone, Locked
  <2>3. CASE CloneBeside(c)
    <3>1. Holds(c) /\ lock' = lock /\ "cloning" \in Locked
      BY <2>3 DEF CloneBeside, Holds, Locked, Writing
    <3>2. CASE \E w : Releases(c, w)  BY <3>1, <3>2, ReleaseKeepsOneWriter
    <3>3. CASE Goes(c, "cloning")  BY <3>1, <3>3, LockMoves
    <3>. QED  BY <2>3, <3>2, <3>3 DEF CloneBeside, ProbeGh
  <2>4. CASE CloneEnds(c)
    <3>1. Holds(c) /\ lock' = lock /\ {"landing", "clean up"} \subseteq Locked
      BY <2>4 DEF CloneEnds, Holds, Locked, Writing, cloneDisk
    <3>. QED  BY <2>4, <3>1, LockMoves DEF CloneEnds
  <2>5. CASE LandClone(c)
    <3>1. Holds(c) /\ lock' = lock /\ {"clean up", "release"} \subseteq Locked
      BY <2>5 DEF LandClone, Holds, Locked, Writing
    <3>. QED  BY <2>5, <3>1, LockMoves DEF LandClone, Releases
  <2>6. CASE CleanUp(c)
    <3>1. Holds(c) /\ lock' = lock /\ "release" \in Locked
      BY <2>6 DEF CleanUp, Holds, Locked
    <3>. QED  BY <2>6, <3>1, LockMoves DEF CleanUp
  <2>. QED  BY <1>1, <2>1, <2>2, <2>3, <2>4, <2>5, <2>6 DEF EnsureClone
<1>2. ASSUME NEW c \in Commands, EnsureCommits(c)  PROVE OneWriter'
  <2>1. CASE ResolveRevisions(c)
    <3>1. PICK w \in {"inventory", "ok", "fetch hashes", "fetch names"} : Goes(c, w)
      BY <2>1 DEF ResolveRevisions, Continue
    <3>. QED  BY <2>1, <3>1, <1>0 DEF ResolveRevisions, cloneDisk, Unlocked, Ends
  <2>2. CASE BeginFetch(c)
    BY <2>2, AcquireKeepsOneWriter DEF BeginFetch, Locked, Writing
  <2>3. CASE FetchEnds(c)
    <3>1. Holds(c) /\ lock' = lock  BY <2>3 DEF FetchEnds, Holds, Locked, Writing
    <3>2. \E w : Releases(c, w)  BY <2>3 DEF FetchEnds, ProbeGh
    <3>. QED  BY <3>1, <3>2, ReleaseKeepsOneWriter
  <2>4. CASE RecheckRevisions(c)
    <3>1. PICK w \in {"inventory", "ok"} : Goes(c, w)  BY <2>4 DEF RecheckRevisions, Continue
    <3>. QED  BY <2>4, <3>1, <1>0 DEF RecheckRevisions, cloneDisk, Unlocked, Ends
  <2>. QED  BY <1>2, <2>1, <2>2, <2>3, <2>4 DEF EnsureCommits
<1>3. ASSUME NEW c \in Commands, EnsureObjects(c)  PROVE OneWriter'
  <2>1. CASE InspectLfsObjects(c)
    <3>1. PICK w \in {"inspect", "lfs", "failed"} : Goes(c, w)
      BY <2>1 DEF InspectLfsObjects, NextPhase
    <3>. QED  BY <2>1, <3>1, <1>0 DEF InspectLfsObjects, cloneDisk, Unlocked, Ends
  <2>2. CASE BeginLfsFetch(c)
    BY <2>2, AcquireKeepsOneWriter DEF BeginLfsFetch, Locked, Writing
  <2>3. CASE LfsObjectArrives(c)
    BY <2>3 DEF LfsObjectArrives, OneWriter, Holds
  <2>4. CASE LfsFetchEnds(c)
    <3>1. Holds(c) /\ lock' = lock
      BY <2>4 DEF LfsFetchEnds, Holds, Locked, Writing, cloneDisk
    <3>2. \E w : Releases(c, w)  BY <2>4 DEF LfsFetchEnds, ProbeGh
    <3>. QED  BY <3>1, <3>2, ReleaseKeepsOneWriter
  <2>. QED  BY <1>3, <2>1, <2>2, <2>3, <2>4 DEF EnsureObjects
<1>4. ASSUME NEW c \in Commands, ReleaseLock(c)  PROVE OneWriter'
  <2>1. Holds(c) /\ Goes(c, next[c]) /\ next[c] \in Unlocked \cup Ends
    BY <1>4 DEF ReleaseLock, Holds, Locked, CloneTypeOK
  <2>2. next[c] \notin Locked  BY <2>1, LockedApart
  <2>. QED  BY <2>1, <2>2, LockMoves
<1>5. ASSUME NEW c \in Commands, Kill(c)  PROVE OneWriter'
  <2>1. Goes(c, "killed") /\ lock' = lock  BY <1>5 DEF Kill, cloneDisk
  <2>. QED  BY <2>1, <1>0 DEF Ends
<1>6. ASSUME NEW c \in Commands, RunAgain(c)  PROVE OneWriter'
  BY <1>6, <1>0 DEF RunAgain, cloneDisk, Unlocked
<1>7. CASE OrphanWrites
  BY <1>7 DEF OrphanWrites, commandVars, OneWriter, Holds
<1>8. CASE OperatorRemoves
  BY <1>8 DEF OperatorRemoves, commandVars, OneWriter, Holds
<1>9. CASE UNCHANGED cloneVars
  BY <1>9 DEF cloneVars, cloneDisk, commandVars, OneWriter, Holds
<1>. QED  BY <1>1, <1>2, <1>3, <1>4, <1>5, <1>6, <1>7, <1>8, <1>9 DEF CloneNext

-----------------------------------------------------------------------------
(* Nothing leaves a clone.                                                 *)

LEMMA StepGrows ==
  ASSUME CloneTypeOK, [CloneNext]_cloneVars
  PROVE  Grows
<1>1. ASSUME NEW c \in Commands, EnsureClone(c)  PROVE Grows
  BY <1>1 DEF EnsureClone, InspectClone, BeginClone, CloneBeside, CloneEnds, LandClone, CleanUp,
              cloneDisk, Grows
<1>2. ASSUME NEW c \in Commands, EnsureCommits(c)  PROVE Grows
  BY <1>2 DEF EnsureCommits, ResolveRevisions, BeginFetch, FetchEnds, Brought, RecheckRevisions,
              cloneDisk, Grows
<1>3. ASSUME NEW c \in Commands, EnsureObjects(c)  PROVE Grows
  BY <1>3 DEF EnsureObjects, InspectLfsObjects, BeginLfsFetch, LfsObjectArrives, LfsFetchEnds,
              cloneDisk, Grows
<1>4. ASSUME NEW c \in Commands, ReleaseLock(c) \/ RunAgain(c)  PROVE Grows
  BY <1>4 DEF ReleaseLock, RunAgain, cloneDisk, Grows
<1>5. ASSUME NEW c \in Commands, Kill(c)  PROVE Grows
  <2>1. UNCHANGED cloneDisk  BY <1>5 DEF Kill
  <2>. QED  BY <2>1 DEF cloneDisk, Grows
<1>6. CASE OrphanWrites \/ OperatorRemoves \/ UNCHANGED cloneVars
  BY <1>6 DEF OrphanWrites, OperatorRemoves, cloneVars, cloneDisk, Grows
<1>. QED  BY <1>1, <1>2, <1>3, <1>4, <1>5, <1>6 DEF CloneNext

\* What lands is a clone, with all a clone brings along.
LEMMA ClonedStays ==
  ASSUME CloneTypeOK, ClonedIsThere, [CloneNext]_cloneVars
  PROVE  ClonedIsThere'
<1>1. CASE \E c \in Commands : LandClone(c)
  BY <1>1 DEF LandClone, ClonedIsThere
<1>2. ASSUME NEW c \in Commands, EnsureClone(c), ~LandClone(c)  PROVE place' = place
  BY <1>2 DEF EnsureClone, InspectClone, BeginClone, CloneBeside, CloneEnds, CleanUp, cloneDisk
<1>3. ASSUME NEW c \in Commands, EnsureCommits(c) \/ EnsureObjects(c)  PROVE place' = place
  BY <1>3 DEF EnsureCommits, ResolveRevisions, BeginFetch, FetchEnds, RecheckRevisions,
              EnsureObjects, InspectLfsObjects, BeginLfsFetch, LfsObjectArrives, LfsFetchEnds,
              cloneDisk
<1>4. ASSUME NEW c \in Commands, ReleaseLock(c) \/ RunAgain(c)  PROVE place' = place
  BY <1>4 DEF ReleaseLock, RunAgain, cloneDisk
<1>5. ASSUME NEW c \in Commands, Kill(c)  PROVE place' = place
  <2>1. UNCHANGED cloneDisk  BY <1>5 DEF Kill
  <2>. QED  BY <2>1 DEF cloneDisk
<1>6. CASE OrphanWrites \/ OperatorRemoves \/ UNCHANGED cloneVars
  <2>1. place' = "whole" => place = "whole"
    BY <1>6 DEF OrphanWrites, OperatorRemoves, cloneVars, cloneDisk
  <2>. QED  BY <2>1, StepGrows DEF Grows, ClonedIsThere
<1>7. CASE place' = place
  BY <1>7, StepGrows DEF Grows, ClonedIsThere
<1>. QED  BY <1>1, <1>2, <1>3, <1>4, <1>5, <1>6, <1>7 DEF CloneNext

-----------------------------------------------------------------------------
(* The commands.                                                           *)

\* A step of one command is not a step of another.
LEMMA StepIsOwn ==
  ASSUME CloneTypeOK, NEW c \in Commands,
         EnsureClone(c) \/ EnsureCommits(c) \/ EnsureObjects(c) \/ ReleaseLock(c) \/ Kill(c)
           \/ RunAgain(c)
  PROVE  OwnStep(c)
<1>1. CASE EnsureClone(c)
  BY <1>1 DEF EnsureClone, InspectClone, BeginClone, CloneBeside, CloneEnds, LandClone, CleanUp,
              AcquireLock, ProbeGh, Releases, Goes, CloneTypeOK, OwnStep
<1>2. CASE EnsureCommits(c)
  <2>1. CASE ResolveRevisions(c)
    BY <2>1 DEF ResolveRevisions, Continue, Goes, CloneTypeOK, OwnStep
  <2>2. CASE BeginFetch(c) \/ FetchEnds(c)
    BY <2>2 DEF BeginFetch, FetchEnds, AcquireLock, ProbeGh, Releases, Goes, CloneTypeOK, OwnStep
  <2>3. CASE RecheckRevisions(c)
    BY <2>3 DEF RecheckRevisions, Continue, Goes, CloneTypeOK, OwnStep
  <2>. QED  BY <1>2, <2>1, <2>2, <2>3 DEF EnsureCommits
<1>3. CASE EnsureObjects(c)
  BY <1>3 DEF EnsureObjects, InspectLfsObjects, NextPhase, BeginLfsFetch, LfsObjectArrives,
              LfsFetchEnds, AcquireLock, ProbeGh, Releases, Goes, CloneTypeOK, OwnStep
<1>4. CASE ReleaseLock(c) \/ RunAgain(c)
  BY <1>4 DEF ReleaseLock, RunAgain, Goes, CloneTypeOK, OwnStep
<1>5. CASE Kill(c)
  <2>1. /\ Goes(c, "killed") /\ next' = [next EXCEPT ![c] = "inspect"]
        /\ UNCHANGED <<phase, unresolved, missing, inventory>>
    BY <1>5 DEF Kill
  <2>. QED  BY <2>1 DEF Goes, CloneTypeOK, OwnStep
<1>. QED  BY <1>1, <1>2, <1>3, <1>4, <1>5

\* The step of another command takes nothing from what a command relies on.
LEMMA OthersSound ==
  ASSUME CloneTypeOK', CommandsSound, Grows, NEW c \in Commands, OwnStep(c), NEW d \in Commands \ {c}
  PROVE  (InPhase(d) /\ Provided(d))'
<1>1. /\ phase'[d] = phase[d] /\ Heading(d)' = Heading(d) /\ inventory'[d] = inventory[d]
      /\ unresolved'[d] = unresolved[d] /\ missing'[d] = missing[d]
  BY DEF OwnStep, Heading
<1>2. InPhase(d) /\ Provided(d)  BY DEF CommandsSound
<1>3. InPhase(d)'  BY <1>1, <1>2 DEF InPhase, Grows
<1>4. phase[d] # "base" \/ Heading(d) \in Fetching => commits \subseteq commits'
  BY <1>2 DEF InPhase, Grows, Fetching
<1>5. objects = Objects => objects' = Objects  BY DEF Grows, CloneTypeOK
<1>. QED  BY <1>1, <1>2, <1>3, <1>4, <1>5 DEF Provided

\* Where a command heads after each kind of step.
LEMMA HeadingGoes ==
  ASSUME CloneTypeOK, NEW c \in Commands, NEW w, Goes(c, w), w \notin {"clean up", "release"}
  PROVE  Heading(c)' = w
BY DEF Goes, CloneTypeOK, Heading

LEMMA HeadingReleases ==
  ASSUME CloneTypeOK, NEW c \in Commands, NEW w, Releases(c, w)
  PROVE  Heading(c)' = w
BY DEF Releases, Goes, CloneTypeOK, Heading

LEMMA HeadingAcquires ==
  ASSUME CloneTypeOK, NEW c \in Commands, NEW w, AcquireLock(c, w), w \notin {"clean up", "release"}
  PROVE  Heading(c)' \in {w, Fails(c), "cancelled"}
BY HeadingGoes DEF AcquireLock, Fails

LEMMA HeadingProbes ==
  ASSUME CloneTypeOK, NEW c \in Commands, ProbeGh(c)
  PROVE  Heading(c)' \in {Fails(c), "cancelled"}
BY HeadingReleases DEF ProbeGh

Outside == {"inspect", "clone", "locked", "cloning", "landing"}

\* A command that makes no new promise and stays in its phase moves on soundly: it
\* stops, or goes from step to step of what it does.
LEMMA MoveSound ==
  ASSUME CloneTypeOK, CloneTypeOK', Grows, NEW c \in Commands, InPhase(c), Provided(c),
         UNCHANGED <<phase, unresolved, missing, inventory>>,
         \/ Heading(c)' \in {Fails(c), "cancelled", "killed", Heading(c)}
         \/ Heading(c) \in Outside /\ Heading(c)' \in Outside
         \/ Heading(c) \in Outside /\ Heading(c)' = "resolve" /\ place' = "whole"
         \/ Heading(c) \in Fetching /\ Heading(c)' \in Fetching
         \/ Heading(c) \in Counting /\ Heading(c)' \in Counting
  PROVE  (InPhase(c) /\ Provided(c))'
<1>1. phase[c] \in {"base", "objects", "reference"}  BY DEF CloneTypeOK
<1>2. InPhase(c)'
  BY <1>1 DEF InPhase, Fails, Outside, Inside, Fetching, Counting, Ends, Grows
<1>3. phase[c] = "base" /\ Heading(c)' \in Fetching => Heading(c) \in Fetching
  BY DEF Fails, Outside, Inside, Fetching, Counting
<1>4. phase[c] # "base" \/ Heading(c) \in Fetching => commits \subseteq commits'
  BY DEF InPhase, Grows, Fetching
<1>5. objects = Objects => objects' = Objects  BY DEF Grows, CloneTypeOK
<1>. QED  BY <1>2, <1>3, <1>4, <1>5 DEF Provided

\* Making the clone: a command gets on to resolve revisions only with a clone.
LEMMA EnsureCloneSound ==
  ASSUME CloneTypeOK, CloneTypeOK', Grows, NEW c \in Commands, InPhase(c), Provided(c), EnsureClone(c)
  PROVE  (InPhase(c) /\ Provided(c))'
<1>1. UNCHANGED <<phase, unresolved, missing, inventory>>
  BY DEF EnsureClone, InspectClone, BeginClone, CloneBeside, CloneEnds, LandClone, CleanUp
<1>2. CASE InspectClone(c)
  <2>1. Heading(c) = "inspect"  BY <1>2 DEF InspectClone, Heading
  <2>2. CASE Goes(c, "clone")  BY <1>1, <2>1, <2>2, HeadingGoes, MoveSound DEF Outside
  <2>3. CASE Goes(c, Fails(c))
    <3>1. Fails(c) \notin {"clean up", "release"}  BY DEF Fails
    <3>. QED  BY <1>1, <2>3, <3>1, HeadingGoes, MoveSound
  <2>4. CASE Goes(c, "resolve") /\ place' = "whole"
    BY <1>1, <2>1, <2>4, HeadingGoes, MoveSound DEF Outside
  <2>. QED  BY <1>2, <2>2, <2>3, <2>4 DEF InspectClone, CloneTypeOK, cloneDisk
<1>3. CASE BeginClone(c)
  <2>1. Heading(c) = "clone" /\ Heading(c)' \in {"locked", Fails(c), "cancelled"}
    BY <1>3, HeadingAcquires DEF BeginClone, Heading
  <2>. QED  BY <1>1, <2>1, MoveSound DEF Outside
<1>4. CASE CloneBeside(c)
  <2>1. Heading(c) = "locked" /\ place' = place  BY <1>4 DEF CloneBeside, Heading
  <2>2. CASE place = "whole" /\ Releases(c, "resolve")
    BY <1>1, <2>1, <2>2, HeadingReleases, MoveSound DEF Outside
  <2>3. CASE Releases(c, Fails(c))
    BY <1>1, <2>3, HeadingReleases, MoveSound
  <2>4. CASE ProbeGh(c)
    BY <1>1, <2>4, HeadingProbes, MoveSound
  <2>5. CASE Goes(c, "cloning")
    BY <1>1, <2>1, <2>5, HeadingGoes, MoveSound DEF Outside
  <2>. QED  BY <1>4, <2>2, <2>3, <2>4, <2>5 DEF CloneBeside, CloneTypeOK
<1>5. CASE CloneEnds(c)
  <2>1. Heading(c) = "cloning"  BY <1>5 DEF CloneEnds, Heading
  <2>2. CASE Goes(c, "landing")
    BY <1>1, <2>1, <2>2, HeadingGoes, MoveSound DEF Outside
  <2>3. CASE Goes(c, "clean up") /\ \E e \in {Fails(c), "cancelled"} : next' = [next EXCEPT ![c] = e]
    <3>1. Heading(c)' \in {Fails(c), "cancelled"}  BY <2>3 DEF Goes, Heading, CloneTypeOK
    <3>. QED  BY <1>1, <3>1, MoveSound
  <2>. QED  BY <1>5, <2>2, <2>3 DEF CloneEnds
<1>6. CASE LandClone(c)
  <2>1. Heading(c) = "landing"  BY <1>6 DEF LandClone, Heading
  <2>2. CASE place' = "whole" /\ Releases(c, "resolve")
    BY <1>1, <2>1, <2>2, HeadingReleases, MoveSound DEF Outside
  <2>3. CASE Goes(c, "clean up") /\ next' = [next EXCEPT ![c] = Fails(c)]
    <3>1. Heading(c)' = Fails(c)  BY <2>3 DEF Goes, Heading, CloneTypeOK
    <3>. QED  BY <1>1, <3>1, MoveSound
  <2>. QED  BY <1>6, <2>2, <2>3 DEF LandClone
<1>7. CASE CleanUp(c)
  <2>1. Heading(c)' = Heading(c)  BY <1>7 DEF CleanUp, Goes, Heading, CloneTypeOK
  <2>. QED  BY <1>1, <2>1, MoveSound
<1>. QED  BY <1>2, <1>3, <1>4, <1>5, <1>6, <1>7 DEF EnsureClone

\* Going on from the commits: to the objects of the bases, or to the end.
LEMMA ContinueSound ==
  ASSUME CloneTypeOK, CloneTypeOK', NEW c \in Commands, InPhase(c), Provided(c), Continue(c),
         Heading(c) \in Inside, UNCHANGED <<place, commits, objects, inventory>>,
         IF phase[c] = "base"
         THEN BaseOf[c] \subseteq commits \cup missing'[c] /\ missing'[c] \cap Cloned = {}
         ELSE missing'[c] = missing[c]
  PROVE  (InPhase(c) /\ Provided(c))'
<1>1. place = "whole"  BY DEF InPhase
<1>2. CASE phase[c] = "base"
  <2>1. Heading(c)' = "inventory" /\ phase'[c] = "objects"
    BY <1>2, HeadingGoes DEF Continue, CloneTypeOK
  <2>. QED  BY <1>1, <1>2, <2>1 DEF InPhase, Provided, Counting, Inside
<1>3. CASE phase[c] # "base"
  <2>1. phase[c] = "reference"
    BY <1>3 DEF InPhase, CloneTypeOK, Inside, Counting, Ends
  <2>2. Heading(c)' = "ok" /\ phase' = phase
    BY <1>3, HeadingGoes DEF Continue
  <2>. QED  BY <1>1, <2>1, <2>2 DEF InPhase, Provided, Counting, Inside
<1>. QED  BY <1>2, <1>3

\* Fetching: a command is past its bases when each resolves or is known not to.
LEMMA EnsureCommitsSound ==
  ASSUME CloneTypeOK, CloneTypeOK', ClonedIsThere, Grows, NEW c \in Commands,
         InPhase(c), Provided(c), EnsureCommits(c)
  PROVE  (InPhase(c) /\ Provided(c))'
<1>1. CASE ResolveRevisions(c)
  <2>1. Heading(c) = "resolve" /\ place = "whole"
    BY <1>1 DEF ResolveRevisions, Heading, InPhase, Inside
  <2>2. /\ UNCHANGED <<place, commits, objects, inventory>>
        /\ Needed(c) \subseteq commits \cup unresolved'[c]
        /\ missing'[c] = IF phase[c] = "base" THEN {} ELSE missing[c]
    BY <1>1 DEF ResolveRevisions, cloneDisk, CloneTypeOK
  <2>3. CASE unresolved'[c] = {}
    <3>1. Continue(c)  BY <1>1, <2>3 DEF ResolveRevisions
    <3>2. phase[c] = "base" => BaseOf[c] \subseteq commits  BY <2>2, <2>3 DEF Needed
    <3>. QED  BY <2>1, <2>2, <3>1, <3>2, ContinueSound DEF Inside
  <2>4. CASE unresolved'[c] # {}
    <3>1. PICK w \in {"fetch hashes", "fetch names"} : Goes(c, w) /\ UNCHANGED phase
      BY <1>1, <2>4 DEF ResolveRevisions
    <3>2. Heading(c)' = w  BY <3>1, HeadingGoes
    <3>3. phase[c] # "objects"  BY <2>1 DEF InPhase, Counting, Ends
    <3>4. InPhase(c)'  BY <2>1, <2>2, <3>1, <3>2, <3>3 DEF InPhase, Counting, Inside
    <3>5. phase[c] = "base" => BaseOf[c] \subseteq commits \cup unresolved'[c]
      BY <2>2 DEF Needed
    <3>. QED  BY <2>2, <3>1, <3>4, <3>5 DEF Provided
  <2>. QED  BY <2>3, <2>4
<1>2. CASE BeginFetch(c)
  <2>1. UNCHANGED <<phase, unresolved, missing, inventory>>  BY <1>2 DEF BeginFetch
  <2>2. /\ Heading(c) \in {"fetch hashes", "fetch names"}
        /\ Heading(c)' \in {"fetching hashes", "fetching names", Fails(c), "cancelled"}
    BY <1>2, HeadingAcquires DEF BeginFetch, Heading
  <2>. QED  BY <2>1, <2>2, MoveSound DEF Fetching, Inside
<1>3. CASE FetchEnds(c)
  <2>1. UNCHANGED <<phase, unresolved, missing, inventory>>  BY <1>3 DEF FetchEnds
  <2>2. Heading(c) \in {"fetching hashes", "fetching names"}  BY <1>3 DEF FetchEnds, Heading
  <2>3. Heading(c)' \in {"fetch names", "recheck", Fails(c), "cancelled"}
    BY <1>3, HeadingProbes, HeadingReleases DEF FetchEnds, AfterFetch
  <2>. QED  BY <2>1, <2>2, <2>3, MoveSound DEF Fetching, Inside
<1>4. CASE RecheckRevisions(c)
  <2>1. Heading(c) = "recheck" /\ place = "whole"
    BY <1>4 DEF RecheckRevisions, Heading, InPhase, Inside
  <2>2. /\ UNCHANGED <<place, commits, objects, inventory>> /\ Continue(c)
        /\ missing'[c] = IF phase[c] = "base" THEN unresolved[c] \ commits ELSE missing[c]
    BY <1>4 DEF RecheckRevisions, cloneDisk, CloneTypeOK
  <2>3. Cloned \subseteq commits  BY <2>1 DEF ClonedIsThere
  <2>4. phase[c] = "base" => BaseOf[c] \subseteq commits \cup unresolved[c]
    BY <2>1 DEF Provided, Fetching, Inside
  <2>. QED  BY <2>1, <2>2, <2>3, <2>4, ContinueSound DEF Inside
<1>. QED  BY <1>1, <1>2, <1>3, <1>4 DEF EnsureCommits

\* Counting: a command is past the objects with all of them, or without a count.
LEMMA EnsureObjectsSound ==
  ASSUME CloneTypeOK, CloneTypeOK', Grows, NEW c \in Commands, InPhase(c), Provided(c),
         EnsureObjects(c)
  PROVE  (InPhase(c) /\ Provided(c))'
<1>1. CASE InspectLfsObjects(c)
  <2>1. Heading(c) \in {"inventory", "recount"}  BY <1>1 DEF InspectLfsObjects, Heading
  <2>2. phase[c] = "objects" /\ place = "whole"  BY <2>1 DEF InPhase, Counting
  <2>3. UNCHANGED <<place, commits, objects, unresolved, missing>>
    BY <1>1 DEF InspectLfsObjects, cloneDisk
  <2>4. CASE NextPhase(c)
    <3>1. Heading(c)' = "inspect" /\ phase'[c] = "reference"
      BY <2>4, HeadingGoes DEF NextPhase, CloneTypeOK
    <3>2. inventory'[c] => objects = Objects
      BY <1>1, <2>2, <3>1 DEF InspectLfsObjects, CloneTypeOK
    <3>3. InPhase(c)'  BY <2>2, <2>3, <3>1 DEF InPhase, Counting, Inside
    <3>. QED  BY <2>2, <2>3, <3>1, <3>2, <3>3 DEF Provided
  <2>5. CASE \E w \in {"lfs", "failed"} : Goes(c, w) /\ UNCHANGED phase
    <3>1. Heading(c)' \in {"lfs", "failed"} /\ phase' = phase  BY <2>5, HeadingGoes
    <3>2. InPhase(c)'  BY <2>2, <2>3, <3>1 DEF InPhase, Counting, Inside, Ends
    <3>. QED  BY <2>2, <2>3, <3>1, <3>2 DEF Provided
  <2>. QED  BY <1>1, <2>4, <2>5 DEF InspectLfsObjects
<1>2. CASE BeginLfsFetch(c)
  <2>1. UNCHANGED <<phase, unresolved, missing, inventory>>  BY <1>2 DEF BeginLfsFetch
  <2>2. Heading(c) = "lfs" /\ Heading(c)' \in {"lfs fetching", Fails(c), "cancelled"}
    BY <1>2, HeadingAcquires DEF BeginLfsFetch, Heading
  <2>. QED  BY <2>1, <2>2, MoveSound DEF Counting
<1>3. CASE LfsObjectArrives(c)
  <2>1. UNCHANGED <<phase, unresolved, missing, inventory>> /\ Heading(c)' = Heading(c)
    BY <1>3 DEF LfsObjectArrives, Heading
  <2>. QED  BY <2>1, MoveSound
<1>4. CASE LfsFetchEnds(c)
  <2>1. UNCHANGED <<phase, unresolved, missing, inventory>>  BY <1>4 DEF LfsFetchEnds
  <2>2. Heading(c) = "lfs fetching" /\ Heading(c)' \in {"recount", Fails(c), "cancelled"}
    BY <1>4, HeadingProbes, HeadingReleases DEF LfsFetchEnds, Heading
  <2>. QED  BY <2>1, <2>2, MoveSound DEF Counting
<1>. QED  BY <1>1, <1>2, <1>3, <1>4 DEF EnsureObjects

LEMMA CommandsStep ==
  ASSUME CloneInv, [CloneNext]_cloneVars
  PROVE  CommandsSound'
<1>1. /\ CloneTypeOK /\ CloneTypeOK' /\ ClonedIsThere /\ Grows /\ CommandsSound
  BY TypeStep, StepGrows DEF CloneInv
<1>2. ASSUME NEW c \in Commands,
             EnsureClone(c) \/ EnsureCommits(c) \/ EnsureObjects(c) \/ ReleaseLock(c) \/ Kill(c)
               \/ RunAgain(c)
      PROVE  (InPhase(c) /\ Provided(c))'
  <2>1. InPhase(c) /\ Provided(c)  BY <1>1 DEF CommandsSound
  <2>2. CASE EnsureClone(c)  BY <1>1, <2>1, <2>2, EnsureCloneSound
  <2>3. CASE EnsureCommits(c)  BY <1>1, <2>1, <2>3, EnsureCommitsSound
  <2>4. CASE EnsureObjects(c)  BY <1>1, <2>1, <2>4, EnsureObjectsSound
  <2>5. CASE ReleaseLock(c)
    <3>1. UNCHANGED <<phase, unresolved, missing, inventory>>  BY <2>5 DEF ReleaseLock
    <3>2. Heading(c) = next[c] /\ next[c] \notin {"clean up", "release"} /\ Goes(c, next[c])
      BY <1>1, <2>5 DEF ReleaseLock, Heading, CloneTypeOK, Unlocked, Ends
    <3>3. Heading(c)' = Heading(c)  BY <1>1, <3>2, HeadingGoes
    <3>. QED  BY <1>1, <2>1, <3>1, <3>3, MoveSound
  <2>6. CASE Kill(c)
    <3>1. UNCHANGED <<phase, unresolved, missing, inventory>> /\ Goes(c, "killed")
      BY <2>6 DEF Kill
    <3>2. Heading(c)' = "killed"  BY <1>1, <3>1, HeadingGoes
    <3>. QED  BY <1>1, <2>1, <3>1, <3>2, MoveSound
  <2>7. CASE RunAgain(c)
    <3>1. Heading(c)' = "inspect" /\ phase'[c] = "base"
      BY <1>1, <2>7, HeadingGoes DEF RunAgain, CloneTypeOK
    <3>. QED  BY <3>1 DEF InPhase, Provided, Counting, Inside, Fetching
  <2>. QED  BY <1>2, <2>2, <2>3, <2>4, <2>5, <2>6, <2>7
<1>3. CASE \E c \in Commands :
             EnsureClone(c) \/ EnsureCommits(c) \/ EnsureObjects(c) \/ ReleaseLock(c) \/ Kill(c)
               \/ RunAgain(c)
  <2>1. PICK c \in Commands :
               EnsureClone(c) \/ EnsureCommits(c) \/ EnsureObjects(c) \/ ReleaseLock(c) \/ Kill(c)
                 \/ RunAgain(c)
    BY <1>3
  <2>2. OwnStep(c)  BY <1>1, <2>1, StepIsOwn
  <2>. QED  BY <1>1, <1>2, <2>1, <2>2, OthersSound DEF CommandsSound
<1>4. CASE OrphanWrites \/ OperatorRemoves \/ UNCHANGED cloneVars
  <2>1. UNCHANGED commandVars
    BY <1>4 DEF OrphanWrites, OperatorRemoves, cloneVars
  <2>2. ASSUME NEW c \in Commands  PROVE (InPhase(c) /\ Provided(c))'
    <3>1. UNCHANGED <<phase, unresolved, missing, inventory>> /\ Heading(c)' = Heading(c)
      BY <2>1 DEF commandVars, Heading
    <3>. QED  BY <1>1, <3>1, MoveSound DEF CommandsSound
  <2>. QED  BY <2>2 DEF CommandsSound
<1>. QED  BY <1>3, <1>4 DEF CloneNext

-----------------------------------------------------------------------------
(* The theorem.                                                            *)

LEMMA CloneInvHolds == CloneSpec => []CloneInv
<1>1. CloneInit => OneWriter /\ ClonedIsThere /\ CommandsSound
  BY DEF CloneInit, OneWriter, Holds, Locked, Writing, ClonedIsThere, CommandsSound, InPhase,
         Provided, Heading, Counting, Inside, Fetching
<1>2. CloneTypeOK /\ CloneInit => CloneInv  BY <1>1 DEF CloneInv
<1>3. CloneTypeOK' /\ CloneInv /\ [CloneNext]_cloneVars => CloneInv'
  BY OneWriterStep, ClonedStays, CommandsStep DEF CloneInv
<1>. QED  BY <1>2, <1>3, CloneTypeCorrect, PTL DEF CloneSpec

\* Two commands never hold the lock, killed ones and the operator that clears up after
\* them included; git fetches into nothing but a clone; and a command that succeeded has
\* every base but those the fetch did not bring, none of which a clone brings along, and,
\* when it could count them, every Git LFS object, although other commands wrote to the
\* clone whenever it did not hold the lock.
THEOREM CloneIsSound == CloneSpec => []CloneSound
<1>1. CloneInv => CloneSound
  <2>. SUFFICES ASSUME CloneInv, NEW c \in Commands
                PROVE  /\ Holds(c) => lock /\ \A d \in Commands \ {c} : ~Holds(d)
                       /\ doing[c] \in Writing \ {"cloning", "landing"} => place = "whole"
                       /\ doing[c] = "ok" =>
                            /\ place = "whole" /\ BaseOf[c] \subseteq commits \cup missing[c]
                            /\ missing[c] \cap Cloned = {}
                            /\ inventory[c] => objects = Objects
    BY DEF CloneSound
  <2>1. InPhase(c) /\ Provided(c)  BY DEF CloneInv, CommandsSound
  <2>2. doing[c] \in Writing \ {"cloning", "landing"} => place = "whole"
    BY <2>1 DEF InPhase, Heading, Writing, Inside, Counting
  <2>3. doing[c] = "ok" => phase[c] = "reference"  BY <2>1 DEF InPhase, Heading
  <2>4. phase[c] = "reference" => place = "whole"  BY <2>1 DEF InPhase
  <2>. QED  BY <2>1, <2>2, <2>3, <2>4 DEF CloneInv, OneWriter, Provided
<1>. QED  BY <1>1, CloneInvHolds, PTL

-----------------------------------------------------------------------------
(***************************************************************************)
(* What validation and the wizard promise of the base of a task, for any   *)
(* graph of commits and any moves of the pull request: the base does not   *)
(* hold the reference, BaseIsBeforeReference. The proof is about pasts:    *)
(* what precedes a commit of a past is in it, so that a base in the past   *)
(* of the target holds nothing the target did not. The two pages of a      *)
(* list are one list since a target only moves on: the later list is a     *)
(* part of the earlier one, and as large.                                  *)
(***************************************************************************)

-----------------------------------------------------------------------------
(* The past of a commit.                                                   *)

\* Some member of a set of naturals is the least: induction over the naturals.
LEMMA LeastNumber ==
  ASSUME NEW T, T \subseteq Nat, T # {}
  PROVE  \E x \in T : \A y \in T : x <= y
<1>1. IsWellFoundedOn(OpToRel(<,Nat), Nat)  BY NatLessThanWellFounded
<1>2. PICK x \in T : \A y \in T : ~(<<y, x>> \in OpToRel(<,Nat))
  BY <1>1, WFMin, Zenon
<1>3. \A y \in T : ~(y < x) BY <1>2 DEF OpToRel
<1>. QED BY <1>3

LEMMA CommitsAre ==
  /\ NumCommits \in Nat /\ Commits \subseteq Nat /\ NoCommit \notin Commits
  /\ \A c \in Commits : 1..c \subseteq Commits
  /\ IsFiniteSet(Commits)
<1>1. NumCommits \in Nat  BY TaskBaseAssumption DEF TaskBaseAssumption
<1>2. IsFiniteSet(1..NumCommits)  BY <1>1, FS_Interval
<1>. QED  BY <1>1, <1>2 DEF Commits, NoCommit

LEMMA ElementsAre ==
  ASSUME NEW S, NEW h \in Seq(S)
  PROVE  /\ Elements(h) \subseteq S
         /\ h # <<>> => h[1] \in Elements(h)
<1>1. \A i \in DOMAIN h : h[i] \in S  OBVIOUS
<1>2. h # <<>> => 1 \in DOMAIN h  OBVIOUS
<1>. QED  BY <1>1, <1>2 DEF Elements

\* The parents of a commit come before it.
LEMMA ParentsAre ==
  ASSUME history \in Histories, NEW c \in Commits
  PROVE  /\ history[c] \in Seq(1..(c - 1))
         /\ \A p \in Elements(history[c]) : p \in Commits /\ p < c
         /\ history[c] # <<>> => history[c][1] \in Elements(history[c])
<1>1. history[c] \in Seq(1..(c - 1))  BY TaskBaseAssumption DEF TaskBaseAssumption
<1>2. c \in Nat /\ 1..c \subseteq Commits  BY CommitsAre
<1>3. /\ Elements(history[c]) \subseteq 1..(c - 1)
      /\ history[c] # <<>> => history[c][1] \in Elements(history[c])
  BY <1>1, ElementsAre
<1>. QED  BY <1>1, <1>2, <1>3

\* The past of a commit is what its definition asks for.
LEMMA PastIs ==
  ASSUME history \in Histories
  PROVE  \A c \in Commits : Past(c) = {c} \cup UNION {Past(p) : p \in Elements(history[c])}
<1>. DEFINE Step(g, k) == {k} \cup UNION {g[p] : p \in Elements(history[k])}
            Bad == {m \in Commits : ~\E g : g = [k \in 1..m |-> Step(g, k)]}
<1>0. /\ NumCommits \in Nat /\ Commits \subseteq Nat
      /\ \A m \in Commits : 1..m \subseteq Commits
      /\ \A k \in Commits : \A p \in Elements(history[k]) : p \in Commits /\ p < k
  BY CommitsAre, ParentsAre
<1>1. Bad = {}
  <2>1. SUFFICES ASSUME Bad # {} PROVE FALSE  OBVIOUS
  <2>2. Bad \subseteq Nat  BY <1>0
  <2>3. PICK m \in Bad : \A k \in Bad : m <= k
    <3>. HIDE DEF Bad
    <3>. QED  BY <2>1, <2>2, LeastNumber
  <2>4. m \in Commits /\ m \in Nat /\ ~\E g : g = [k \in 1..m |-> Step(g, k)]  BY <1>0
  <2>5. \E g : g = [k \in 1..(m - 1) |-> Step(g, k)]
    <3>1. CASE m = 1
      <4>. DEFINE g == [k \in 1..(1 - 1) |-> {}]
      <4>1. 1..(1 - 1) = {}  OBVIOUS
      <4>2. g = [k \in 1..(1 - 1) |-> Step(g, k)]  BY <4>1
      <4>. QED  BY <3>1, <4>2
    <3>2. CASE m # 1
      <4>1. m - 1 \in Commits /\ ~(m <= m - 1)  BY <1>0, <2>4, <3>2 DEF Commits
      <4>2. m - 1 \notin Bad
        <5>. HIDE DEF Bad
        <5>. QED  BY <2>3, <4>1
      <4>. QED  BY <4>1, <4>2
    <3>. QED  BY <3>1, <3>2
  <2>6. PICK g : g = [k \in 1..(m - 1) |-> Step(g, k)]  BY <2>5
  <2>. DEFINE h == [k \in 1..m |-> IF k = m THEN Step(g, m) ELSE g[k]]
  <2>7. \A k \in 1..(m - 1) : g[k] = Step(g, k)  BY <2>6
  <2>8. \A k \in 1..m : h[k] = Step(h, k)
    <3>1. TAKE k \in 1..m
    <3>2. k \in Commits  BY <1>0, <2>4
    <3>3. \A p \in Elements(history[k]) : h[p] = g[p]
      <4>1. TAKE p \in Elements(history[k])
      <4>2. p \in Commits /\ p < k  BY <1>0, <3>2
      <4>3. p \in 1..m /\ p # m  BY <2>4, <4>2 DEF Commits
      <4>. QED  BY <4>3
    <3>4. Step(h, k) = Step(g, k)
      <4>. HIDE DEF h
      <4>1. {h[p] : p \in Elements(history[k])} = {g[p] : p \in Elements(history[k])}  BY <3>3
      <4>. QED  BY <4>1
    <3>5. CASE k = m  BY <3>4, <3>5
    <3>6. CASE k # m
      <4>1. k \in 1..(m - 1)  BY <2>4, <3>6
      <4>2. h[k] = g[k]  BY <3>6
      <4>. QED  BY <2>7, <3>4, <4>1, <4>2
    <3>. QED  BY <3>5, <3>6
  <2>9. h = [k \in 1..m |-> h[k]]  OBVIOUS
  <2>10. h = [k \in 1..m |-> Step(h, k)]
    <3>. HIDE DEF h, Step
    <3>. QED  BY <2>8, <2>9
  <2>. QED  BY <2>4, <2>10
<1>2. \E g : g = [k \in Commits |-> Step(g, k)]
  <2>1. NumCommits \in Commits  BY TaskBaseAssumption DEF TaskBaseAssumption, Commits
  <2>2. Commits = 1..NumCommits  BY DEF Commits
  <2>. HIDE DEF Step
  <2>. QED  BY <1>1, <2>1, <2>2
<1>. DEFINE past == CHOOSE g : g = [k \in Commits |-> Step(g, k)]
<1>3. \A c \in Commits : Past(c) = past[c]
  BY CommitsAre DEF Past
<1>. HIDE DEF Bad
<1>4. past = [k \in Commits |-> Step(past, k)]
  <2>. HIDE DEF Step
  <2>. QED  BY <1>2
<1>. HIDE DEF past
<1>5. \A c \in Commits : past[c] = Step(past, c)
  <2>. HIDE DEF Step
  <2>. QED  BY <1>4
<1>6. ASSUME NEW c \in Commits  PROVE Past(c) = {c} \cup UNION {Past(p) : p \in Elements(history[c])}
  <2>1. \A p \in Elements(history[c]) : Past(p) = past[p]  BY <1>0, <1>3
  <2>2. {Past(p) : p \in Elements(history[c])} = {past[p] : p \in Elements(history[c])}  BY <2>1
  <2>. QED  BY <1>3, <1>5, <2>2
<1>. QED  BY <1>6

\* A commit is in its past, with nothing that comes after it.
LEMMA PastBelow ==
  ASSUME history \in Histories
  PROVE  \A c \in Commits : c \in Past(c) /\ Past(c) \subseteq 1..c
<1>. DEFINE Bad == {c \in Commits : ~(c \in Past(c) /\ Past(c) \subseteq 1..c)}
<1>1. SUFFICES ASSUME Bad # {}  PROVE FALSE  OBVIOUS
<1>2. Bad \subseteq Nat  BY CommitsAre
<1>3. PICK c \in Bad : \A k \in Bad : c <= k
  <2>. HIDE DEF Bad
  <2>. QED  BY <1>1, <1>2, LeastNumber
<1>4. c \in Commits /\ c \in Nat /\ c \in 1..c  BY CommitsAre DEF Commits
<1>5. ASSUME NEW p \in Elements(history[c])  PROVE Past(p) \subseteq 1..c
  <2>1. p \in Commits /\ p \in Nat /\ p < c  BY <1>4, ParentsAre, CommitsAre
  <2>2. p \notin Bad
    <3>. HIDE DEF Bad
    <3>. QED  BY <1>3, <1>4, <2>1
  <2>3. Past(p) \subseteq 1..p  BY <2>1, <2>2
  <2>4. 1..p \subseteq 1..c  BY <1>4, <2>1
  <2>. QED  BY <2>3, <2>4
<1>6. Past(c) = {c} \cup UNION {Past(p) : p \in Elements(history[c])}  BY <1>4, PastIs
<1>7. c \in Past(c) /\ Past(c) \subseteq 1..c  BY <1>4, <1>5, <1>6
<1>. QED  BY <1>7

LEMMA PastType ==
  ASSUME history \in Histories, NEW c \in Commits \cup {NoCommit}
  PROVE  Past(c) \subseteq Commits
<1>1. CASE c = NoCommit  BY <1>1 DEF Past
<1>2. CASE c \in Commits  BY <1>2, PastBelow, CommitsAre
<1>. QED  BY <1>1, <1>2

\* What precedes a commit of the past is in the past.
LEMMA PastOfPast ==
  ASSUME history \in Histories
  PROVE  \A c \in Commits : \A b \in Past(c) : Past(b) \subseteq Past(c)
<1>. DEFINE Bad == {c \in Commits : ~\A b \in Past(c) : Past(b) \subseteq Past(c)}
<1>1. SUFFICES ASSUME Bad # {}  PROVE FALSE  OBVIOUS
<1>2. Bad \subseteq Nat  BY CommitsAre
<1>3. PICK c \in Bad : \A k \in Bad : c <= k
  <2>. HIDE DEF Bad
  <2>. QED  BY <1>1, <1>2, LeastNumber
<1>4. c \in Commits /\ c \in Nat  BY CommitsAre
<1>5. Past(c) = {c} \cup UNION {Past(p) : p \in Elements(history[c])}  BY <1>4, PastIs
<1>6. ASSUME NEW b \in Past(c)  PROVE Past(b) \subseteq Past(c)
  <2>1. CASE b = c  BY <2>1
  <2>2. CASE b # c
    <3>1. PICK p \in Elements(history[c]) : b \in Past(p)  BY <1>5, <2>2
    <3>2. p \in Commits /\ p \in Nat /\ p < c  BY <1>4, ParentsAre, CommitsAre
    <3>3. p \notin Bad
      <4>. HIDE DEF Bad
      <4>. QED  BY <1>3, <1>4, <3>2
    <3>4. Past(b) \subseteq Past(p)  BY <3>1, <3>2, <3>3
    <3>. QED  BY <1>5, <3>4
  <2>. QED  BY <2>1, <2>2
<1>. QED  BY <1>6

\* The parents of what precedes a commit precede it.
LEMMA PastOfParents ==
  ASSUME history \in Histories, NEW c \in Commits, NEW f \in Past(c), NEW q \in Elements(history[f])
  PROVE  /\ f \in Commits /\ q \in Commits /\ q < f
         /\ q \in Past(c) /\ q \in Past(f)
<1>1. f \in Commits  BY PastType
<1>2. q \in Commits /\ q < f  BY <1>1, ParentsAre
<1>3. Past(f) \subseteq Past(c)  BY PastOfPast
<1>4. q \in Past(q)  BY <1>2, PastBelow
<1>5. Past(q) \subseteq Past(f)  BY <1>1, PastIs
<1>. QED  BY <1>1, <1>2, <1>3, <1>4, <1>5

LEMMA PastStays ==
  ASSUME history' = history
  PROVE  \A c : Past(c)' = Past(c)
<1>. DEFINE PastIn(h, c) ==
              IF c = NoCommit THEN {}
              ELSE (CHOOSE g : g = [k \in Commits |-> {k} \cup UNION {g[p] : p \in Elements(h[k])}])[c]
<1>1. \A c : Past(c) = PastIn(history, c)  BY DEF Past
<1>2. \A c : Past(c)' = PastIn(history', c)  BY DEF Past
<1>. HIDE DEF PastIn
<1>. QED  BY <1>1, <1>2

-----------------------------------------------------------------------------
(* Pull requests.                                                          *)

PullFields == [state : {"open", "closed", "merged"}, head : Commits, since : Commits,
               target : Commits \cup {NoCommit}, merge : Commits \cup {NoCommit}, mergeability : Mergeabilities]

\* What the proofs need of a pull request that GitHub can hold.
PullFits(p) ==
  /\ p \in PullFields
  /\ p.state = "open" => p.target \in {p.since, NoCommit}
  /\ p.merge # NoCommit => p.state = "merged" /\ p.merge # p.since /\ p.since \in Past(p.merge)

LEMMA PullRequestIs ==
  ASSUME NEW p \in PullRequests
  PROVE  PullFits(p)
<1>1. p \in Unmerged \cup Merged  BY DEF PullRequests
<1>2. p.merge # NoCommit => p.merge # p.since /\ p.since \in Past(p.merge)
  BY DEF PullRequests, IsAncestor
<1>3. \A d \in Commits : Later(d) \subseteq Commits \cup {NoCommit}  BY DEF Later
<1>4. CASE p \in Unmerged
  <2>1. PICK c, d \in Commits :
          \/ p \in [state : {"open"}, head : {c}, since : {d}, target : {d, NoCommit}, merge : {NoCommit},
                    mergeability : Mergeabilities]
          \/ p \in [state : {"closed"}, head : {c}, since : {d}, target : Later(d), merge : {NoCommit},
                    mergeability : Mergeabilities]
    BY <1>4 DEF Unmerged
  <2>2. Later(d) \subseteq Commits \cup {NoCommit}  BY <1>3
  <2>3. CASE p \in [state : {"open"}, head : {c}, since : {d}, target : {d, NoCommit}, merge : {NoCommit},
                    mergeability : Mergeabilities]
    BY <1>2, <2>3 DEF PullFields, PullFits
  <2>4. CASE p \in [state : {"closed"}, head : {c}, since : {d}, target : Later(d), merge : {NoCommit},
                    mergeability : Mergeabilities]
    BY <1>2, <2>2, <2>4 DEF PullFields, PullFits
  <2>. QED  BY <2>1, <2>3, <2>4
<1>5. CASE p \in Merged
  <2>1. PICK c, d, m \in Commits :
          p \in [state : {"merged"}, head : {c}, since : {d}, target : Later(m), merge : {m, NoCommit},
                 mergeability : {"unknown"}]
    <3>. DEFINE Pulls(c, d, m) ==
                  [state : {"merged"}, head : {c}, since : {d}, target : Later(m), merge : {m, NoCommit},
                   mergeability : {"unknown"}]
    <3>1. Merged = UNION {Pulls(c, d, m) : c, d \in Commits, m \in Commits}  BY DEF Merged
    <3>. HIDE DEF Pulls
    <3>2. PICK S \in {Pulls(c, d, m) : c, d \in Commits, m \in Commits} : p \in S  BY <1>5, <3>1
    <3>3. \E c, d, m \in Commits : S = Pulls(c, d, m)  BY <3>2
    <3>. QED  BY <3>2, <3>3 DEF Pulls
  <2>2. Later(m) \subseteq Commits \cup {NoCommit}  BY <1>3
  <2>3. p \in PullFields /\ p.state = "merged"  BY <2>1, <2>2 DEF PullFields, Mergeabilities
  <2>. QED  BY <1>2, <2>3 DEF PullFits
<1>. QED  BY <1>1, <1>2, <1>4, <1>5 DEF PullFits

-----------------------------------------------------------------------------
(* The invariant.                                                          *)

\* The commits that a pull request holds are what a first page fixed, unless it has
\* moved; a target only moves on.
PageFits ==
  IF asking = "paging"
  THEN /\ hub \in PullFields /\ PullFits(page.pr)
       /\ page.pr.since \in Past(hub.since)
       /\ page.total = Cardinality(Listed(page.pr)) /\ page.commits = FirstPage(Listed(page.pr))
  ELSE hub = Unread

\* The recorded commits of a pull request are those of some head and target.
ReferenceFits ==
  reference.kind = "pull-request" => \E c, d \in Commits : reference.commits = Past(c) \ Past(d)

\* A proposal without a warning holds nothing of the solution.
ProposalFits ==
  proposed # NoCommit /\ warning \notin {"closed", "mergeability-unknown"} =>
     /\ \A c \in reference.commits :
          IF reference.kind = "pull-request" THEN c \notin Past(proposed) ELSE proposed \in Past(c)
     /\ proposed \notin RecordedCommits
     /\ reference.merge # NoCommit => proposed \in Past(reference.merge)

\* What validation found before it compares.
ComparisonFits ==
  asking = "comparing" =>
    /\ baseCommit \in local /\ available = RecordedCommits \cap local
    /\ "in-prompt" \notin reported => named \notin RecordedCommits \cup {baseCommit}
    /\ available # RecordedCommits => "missing-references" \in reported

ValidFits ==
  asking = "done" /\ reported \cap Errors = {} =>
    /\ baseCommit \in local /\ named \notin RecordedCommits \cup {baseCommit}
    /\ \A c \in available :
         IF reference.kind = "pull-request" /\ c \in reference.commits
         THEN c \notin Past(baseCommit)
         ELSE c # baseCommit /\ baseCommit \in Past(c)
    /\ available # RecordedCommits => "missing-references" \in reported

BaseInv == BaseTypeOK /\ PageFits /\ ReferenceFits /\ ProposalFits /\ ComparisonFits /\ ValidFits

-----------------------------------------------------------------------------
(* The pages.                                                              *)

\* A list that was read on two pages of one pull request is the list of that request.
LEMMA ListIsOne ==
  ASSUME BaseInv, asking = "paging", CollectCommits
  PROVE  Joined = Listed(page.pr)
<1>. DEFINE old == Listed(page.pr)
            new == Listed(hub)
<1>1. /\ hub \in PullFields /\ page.pr \in PullFields /\ history \in Histories
      /\ page.pr.since \in Past(hub.since)
      /\ page.total = Cardinality(old) /\ page.commits = FirstPage(old)
  BY DEF BaseInv, BaseTypeOK, PageFits, PullFits
<1>2. hub.head \in Commits /\ hub.since \in Commits /\ page.pr.since \in Commits  BY <1>1 DEF PullFields
<1>3. new \subseteq old
  <2>1. Past(page.pr.since) \subseteq Past(hub.since)  BY <1>1, <1>2, PastOfPast
  <2>2. hub.head = page.pr.head  BY DEF CollectCommits
  <2>. QED  BY <2>1, <2>2 DEF Listed
<1>4. IsFiniteSet(old) /\ IsFiniteSet(new)
  <2>1. Past(hub.head) \subseteq Commits /\ hub.head = page.pr.head  BY <1>1, <1>2, PastType DEF CollectCommits
  <2>2. old \subseteq Commits /\ new \subseteq Commits  BY <2>1 DEF Listed
  <2>. HIDE DEF old, new
  <2>. QED  BY <2>2, CommitsAre, FS_Subset
<1>5. new = old
  <2>1. Cardinality(new) = Cardinality(old)  BY <1>1 DEF CollectCommits
  <2>. HIDE DEF old, new
  <2>. QED  BY <1>3, <1>4, <2>1, FS_Subset
<1>6. page.commits \subseteq old /\ LaterPage(new) \subseteq old \ page.commits
  BY <1>1, <1>5 DEF FirstPage, LaterPage
<1>7. Cardinality(page.commits) + Cardinality(LaterPage(new)) = Cardinality(old)
  BY <1>1 DEF CollectCommits
<1>8. Joined = page.commits \cup LaterPage(new)  BY DEF Joined
<1>. DEFINE first == page.commits
            later == LaterPage(new)
<1>. HIDE DEF old, new, first, later
<1>9. first \subseteq old /\ later \subseteq old /\ first \cap later = {}
      /\ Cardinality(first) + Cardinality(later) = Cardinality(old)
  BY <1>6, <1>7 DEF first, later
<1>10. IsFiniteSet(first) /\ IsFiniteSet(later) /\ first \cup later \subseteq old  BY <1>4, <1>9, FS_Subset
<1>11. Cardinality(first \cup later) = Cardinality(first) + Cardinality(later) - Cardinality(first \cap later)
  BY <1>10, FS_Union
<1>12. Cardinality(first \cap later) = 0  BY <1>9, FS_EmptySet
<1>13. Cardinality(first) \in Nat /\ Cardinality(later) \in Nat  BY <1>10, FS_CardinalityType
<1>14. Cardinality(first \cup later) = Cardinality(old)  BY <1>9, <1>11, <1>12, <1>13
<1>15. first \cup later = old  BY <1>4, <1>10, <1>14, FS_Subset
<1>. QED  BY <1>8, <1>15 DEF first, later, old

\* The proposal of a list of commits.
LEMMA ProposalIs ==
  ASSUME history \in Histories, NEW p, PullFits(p),
         NEW list, list = Listed(p), NEW proposal, proposal = ResolveProposedBase(p, FirstCommitParent(list))
  PROVE  /\ proposal.commit \in Commits \cup {NoCommit} /\ proposal.warning \in Warnings
         /\ proposal.commit # NoCommit /\ proposal.warning \notin {"closed", "mergeability-unknown"} =>
              /\ proposal.commit \in Past(p.since)
              /\ proposal.commit \notin list
<1>1. /\ p \in PullFields
      /\ p.state = "open" => p.target \in {p.since, NoCommit}
  BY DEF PullFits
<1>2. p.head \in Commits /\ p.since \in Commits /\ p.target \in Commits \cup {NoCommit}  BY <1>1 DEF PullFields
<1>. DEFINE parents == FirstCommitParent(list)
            Good(c) == c \in Commits /\ c \in Past(p.since) /\ c \notin list
<1>3. \A q \in parents : Good(q)
  <2>1. SUFFICES ASSUME NEW q \in parents  PROVE Good(q)  OBVIOUS
  <2>2. PICK f \in list : Elements(history[f]) \cap list = {} /\ q \in Elements(history[f])
    BY <2>1 DEF FirstCommitParent
  <2>3. f \in Past(p.head)  BY <2>2 DEF Listed
  <2>4. q \in Commits /\ q \in Past(p.head)  BY <1>2, <2>2, <2>3, PastOfParents
  <2>5. q \notin list  BY <2>2
  <2>. QED  BY <2>4, <2>5 DEF Listed
<1>4. Good(p.since)  BY <1>2, PastBelow DEF Listed
<1>. HIDE DEF parents
<1>. DEFINE FromParent(w) == IF Cardinality(parents) = 1
                             THEN [commit |-> CHOOSE c \in parents : TRUE, warning |-> w]
                             ELSE [commit |-> NoCommit, warning |-> "no-base"]
<1>5. ASSUME NEW w \in Warnings, proposal = FromParent(w)
      PROVE  /\ proposal.commit \in Commits \cup {NoCommit} /\ proposal.warning \in Warnings
             /\ proposal.commit # NoCommit => Good(proposal.commit)
  <2>1. CASE Cardinality(parents) = 1
    <3>1. parents # {}  BY <2>1, FS_EmptySet
    <3>2. (CHOOSE c \in parents : TRUE) \in parents  BY <3>1
    <3>. QED  BY <1>3, <1>5, <2>1, <3>2
  <2>2. CASE Cardinality(parents) # 1  BY <1>5, <2>2 DEF Warnings
  <2>. QED  BY <2>1, <2>2
<1>6. CASE proposal = FromParent("none") \/ proposal = FromParent("target-deleted") \/ proposal = FromParent("conflicting")
  <2>1. {"none", "target-deleted", "conflicting"} \subseteq Warnings  BY DEF Warnings
  <2>. HIDE DEF FromParent
  <2>. QED  BY <1>5, <1>6, <2>1
<1>7. CASE proposal = [commit |-> p.target, warning |-> "mergeability-unknown"]
  BY <1>2, <1>7 DEF Warnings
<1>8. CASE p.state # "merged" /\ p.target # NoCommit
           /\ proposal = [commit |-> p.target, warning |-> IF p.state = "closed" THEN "closed" ELSE "none"]
  <2>1. p.state = "closed" \/ p.state = "open"  BY <1>1, <1>8 DEF PullFields
  <2>2. CASE p.state = "closed"  BY <1>2, <1>8, <2>2 DEF Warnings
  <2>3. CASE p.state = "open"
    <3>1. p.target = p.since  BY <1>1, <1>8, <2>3
    <3>. QED  BY <1>2, <1>4, <1>8, <2>3, <3>1 DEF Warnings
  <2>. QED  BY <2>1, <2>2, <2>3
<1>9. \/ proposal = FromParent("none") \/ proposal = FromParent("target-deleted") \/ proposal = FromParent("conflicting")
      \/ proposal = [commit |-> p.target, warning |-> "mergeability-unknown"]
      \/ p.state # "merged" /\ p.target # NoCommit
           /\ proposal = [commit |-> p.target, warning |-> IF p.state = "closed" THEN "closed" ELSE "none"]
  BY Zenon DEF ResolveProposedBase, parents
<1>. QED  BY <1>6, <1>7, <1>8, <1>9

-----------------------------------------------------------------------------
(* The steps.                                                              *)

LEMMA BaseTypes ==
  ASSUME BaseInv
  PROVE  /\ history \in Histories /\ local \subseteq Commits /\ reference.commits \subseteq Commits
         /\ available \subseteq Commits
         /\ reference.merge \in Commits \cup {NoCommit} /\ proposed \in Commits \cup {NoCommit}
         /\ baseCommit \in Commits \cup {NoCommit} /\ RecordedCommits \subseteq Commits
BY DEF BaseInv, BaseTypeOK, RecordedCommits

LEMMA HistoryStays ==
  ASSUME BaseNext
  PROVE  history' = history
BY DEF BaseNext, ReadPullRequest, RefusePullRequest, ResolvePullRequest, FetchPullRequestCommits, ResolveCommit,
   SettleBaseCommit, ValidateWithoutClone, RefuseTaskBase, ResolveTaskBaseForValidation,
   CollectReferenceCommitFindings, MovePullRequest, Fetch

\* The commit of a reference that is one.
LEMMA CommitResolved ==
  ASSUME BaseInv, NEW c \in Commits, ResolveCommit(c)
  PROVE  /\ proposed' \in Elements(history[c]) /\ proposed' \in Commits
         /\ local' \subseteq Commits
<1>1. proposed' = history[c][1] /\ history[c] # <<>>  BY DEF ResolveCommit
<1>2. history \in Histories /\ local \subseteq Commits  BY BaseTypes
<1>3. Past(c) \subseteq Commits  BY <1>2, PastType
<1>4. local' = IF managed THEN local \cup Past(c) ELSE local  BY DEF ResolveCommit
<1>. QED  BY <1>1, <1>2, <1>3, <1>4, ParentsAre

\* The pull request that was read.
LEMMA PullResolved ==
  ASSUME BaseInv, ResolvePullRequest
  PROVE  /\ reference' = [kind |-> "pull-request", commits |-> Listed(page.pr),
                          merge |-> IF page.pr.merge \in Listed(page.pr) THEN NoCommit ELSE page.pr.merge]
         /\ PullFits(page.pr)
         /\ proposed' \in Commits \cup {NoCommit} /\ warning' \in Warnings
         /\ proposed' # NoCommit /\ warning' \notin {"closed", "mergeability-unknown"} =>
              proposed' \in Past(page.pr.since) /\ proposed' \notin Listed(page.pr)
<1>1. asking = "paging" /\ CollectCommits  BY DEF ResolvePullRequest
<1>2. Joined = Listed(page.pr)  BY <1>1, ListIsOne
<1>3. PullFits(page.pr) /\ history \in Histories  BY <1>1, BaseTypes DEF BaseInv, PageFits
<1>. DEFINE proposal == ResolveProposedBase(page.pr, FirstCommitParent(Joined))
<1>4. proposed' = proposal.commit /\ warning' = proposal.warning  BY DEF ResolvePullRequest
<1>5. reference' = [kind |-> "pull-request", commits |-> Joined,
                    merge |-> IF page.pr.merge \in Joined THEN NoCommit ELSE page.pr.merge]
  BY DEF ResolvePullRequest
<1>. HIDE DEF proposal
<1>6. proposal = ResolveProposedBase(page.pr, FirstCommitParent(Joined))  BY DEF proposal
<1>7. /\ proposal.commit \in Commits \cup {NoCommit} /\ proposal.warning \in Warnings
      /\ proposal.commit # NoCommit /\ proposal.warning \notin {"closed", "mergeability-unknown"} =>
              /\ proposal.commit \in Past(page.pr.since)
              /\ proposal.commit \notin Joined
  BY <1>2, <1>3, <1>6, ProposalIs
<1>. QED  BY <1>2, <1>3, <1>4, <1>5, <1>7

LEMMA PageKeeps ==
  ASSUME BaseInv, BaseNext
  PROVE  PageFits' /\ hub'.state \in {"unread", "open", "closed", "merged"}
<1>0. \A c : Past(c)' = Past(c)  BY HistoryStays, PastStays
<1>1. history \in Histories  BY BaseTypes
<1>2. CASE ReadPullRequest
  <2>1. /\ hub' \in PullRequests /\ asking' = "paging"
        /\ page' = [pr |-> hub', total |-> Cardinality(Listed(hub')), commits |-> FirstPage(Listed(hub'))]
    BY <1>2 DEF ReadPullRequest
  <2>2. PullFits(hub')  BY <2>1, PullRequestIs
  <2>3. hub' \in PullFields /\ hub'.since \in Commits  BY <2>2 DEF PullFits, PullFields
  <2>4. hub'.since \in Past(hub'.since)  BY <1>1, <2>3, PastBelow
  <2>5. page'.pr = hub' /\ page'.total = Cardinality(Listed(hub')) /\ page'.commits = FirstPage(Listed(hub'))
    BY <2>1
  <2>6. PullFits(page.pr)'  BY <1>0, <2>2, <2>5 DEF PullFits
  <2>7. Listed(page.pr)' = Listed(hub')  BY <1>0, <2>5 DEF Listed
  <2>8. FirstPage(Listed(page.pr))' = FirstPage(Listed(hub'))  BY <2>7 DEF FirstPage
  <2>9. page'.pr.since \in Past(hub.since)'  BY <1>0, <2>4, <2>5
  <2>10. hub'.state \in {"open", "closed", "merged"}  BY <2>3 DEF PullFields
  <2>. QED  BY <2>1, <2>3, <2>5, <2>6, <2>7, <2>8, <2>9, <2>10 DEF PageFits
<1>3. CASE MovePullRequest
  <2>1. asking = "paging" /\ asking' = asking /\ page' = page  BY <1>3 DEF MovePullRequest
  <2>2. /\ hub \in PullFields /\ PullFits(page.pr) /\ page.pr.since \in Past(hub.since)
        /\ page.total = Cardinality(Listed(page.pr)) /\ page.commits = FirstPage(Listed(page.pr))
    BY <2>1 DEF BaseInv, PageFits
  <2>3. \/ \E c \in Commits : hub' = [hub EXCEPT !.head = c]
        \/ \E c \in Later(hub.since) \ {NoCommit} : hub' = [hub EXCEPT !.since = c, !.target = c]
    BY <1>3 DEF MovePullRequest
  <2>4. hub.since \in Commits /\ page.pr.since \in Commits  BY <2>2 DEF PullFields, PullFits
  <2>5. hub' \in PullFields /\ page.pr.since \in Past(hub'.since)
    <3>1. CASE \E c \in Commits : hub' = [hub EXCEPT !.head = c]  BY <2>2, <3>1 DEF PullFields
    <3>2. ASSUME NEW c \in Later(hub.since) \ {NoCommit}, hub' = [hub EXCEPT !.since = c, !.target = c]
          PROVE  hub' \in PullFields /\ page.pr.since \in Past(hub'.since)
      <4>1. c \in Commits /\ hub.since \in Past(c)  BY DEF Later, IsAncestor
      <4>2. hub' \in PullFields /\ hub'.since = c  BY <2>2, <3>2, <4>1 DEF PullFields
      <4>3. page.pr.since \in Past(c)  BY <1>1, <2>2, <2>4, <4>1, PastOfPast
      <4>. QED  BY <4>2, <4>3
    <3>. QED  BY <2>3, <3>1, <3>2
  <2>6. PullFits(page.pr)'  BY <1>0, <2>1, <2>2 DEF PullFits
  <2>7. Listed(page.pr)' = Listed(page.pr)  BY <1>0, <2>1 DEF Listed
  <2>8. FirstPage(Listed(page.pr))' = FirstPage(Listed(page.pr))  BY <2>7 DEF FirstPage
  <2>9. page'.pr.since \in Past(hub.since)'  BY <1>0, <2>1, <2>5
  <2>10. hub'.state \in {"open", "closed", "merged"}  BY <2>5 DEF PullFields
  <2>. QED  BY <2>1, <2>2, <2>5, <2>6, <2>7, <2>8, <2>9, <2>10 DEF PageFits
<1>4. CASE ~ReadPullRequest /\ ~MovePullRequest
  <2>1. asking' # "paging" /\ hub' = Unread
    <3>1. CASE RefusePullRequest \/ ResolvePullRequest  BY <3>1 DEF RefusePullRequest, ResolvePullRequest
    <3>2. CASE ~RefusePullRequest /\ ~ResolvePullRequest
      <4>1. asking # "paging" /\ asking' # "paging" /\ hub' = hub
        BY <1>4, <3>2 DEF BaseNext, FetchPullRequestCommits, ResolveCommit, SettleBaseCommit, ValidateWithoutClone,
          RefuseTaskBase, ResolveTaskBaseForValidation, CollectReferenceCommitFindings, Fetch
      <4>. QED  BY <4>1 DEF BaseInv, PageFits
    <3>. QED  BY <3>1, <3>2
  <2>. QED  BY <2>1 DEF PageFits, Unread
<1>. QED  BY <1>2, <1>3, <1>4

LEMMA ReferenceKeeps ==
  ASSUME BaseInv, BaseNext
  PROVE  ReferenceFits'
<1>0. \A c : Past(c)' = Past(c)  BY HistoryStays, PastStays
<1>1. CASE ResolvePullRequest
  <2>1. reference'.commits = Listed(page.pr) /\ PullFits(page.pr)  BY <1>1, PullResolved
  <2>2. page.pr.head \in Commits /\ page.pr.since \in Commits  BY <2>1 DEF PullFits, PullFields
  <2>. QED  BY <1>0, <2>1, <2>2 DEF ReferenceFits, Listed
<1>2. CASE \E c \in Commits : ResolveCommit(c)
  <2>1. reference'.kind = "commit"  BY <1>2 DEF ResolveCommit
  <2>. QED  BY <2>1 DEF ReferenceFits
<1>3. CASE reference' = reference  BY <1>0, <1>3 DEF BaseInv, ReferenceFits
<1>4. ResolvePullRequest \/ (\E c \in Commits : ResolveCommit(c)) \/ reference' = reference
  BY DEF BaseNext, ReadPullRequest, RefusePullRequest, FetchPullRequestCommits, SettleBaseCommit,
     ValidateWithoutClone, RefuseTaskBase, ResolveTaskBaseForValidation, CollectReferenceCommitFindings,
     MovePullRequest, Fetch
<1>. QED  BY <1>1, <1>2, <1>3, <1>4

LEMMA ProposalKeeps ==
  ASSUME BaseInv, BaseNext
  PROVE  ProposalFits'
<1>0. \A c : Past(c)' = Past(c)  BY HistoryStays, PastStays
<1>1. history \in Histories  BY BaseTypes
<1>2. CASE ResolvePullRequest
  <2>. DEFINE pr == page.pr
              list == Listed(pr)
  <2>1. /\ reference' = [kind |-> "pull-request", commits |-> list,
                         merge |-> IF pr.merge \in list THEN NoCommit ELSE pr.merge]
        /\ PullFits(pr) /\ proposed' \in Commits \cup {NoCommit}
        /\ proposed' # NoCommit /\ warning' \notin {"closed", "mergeability-unknown"} =>
              proposed' \in Past(pr.since) /\ proposed' \notin list
    BY <1>2, PullResolved
  <2>2. pr.since \in Commits /\ pr.merge \in Commits \cup {NoCommit}  BY <2>1 DEF PullFits, PullFields
  <2>3. ASSUME proposed' # NoCommit, warning' \notin {"closed", "mergeability-unknown"}
        PROVE  /\ \A c \in list : c \notin Past(proposed')
               /\ proposed' \notin list
               /\ pr.merge # NoCommit => proposed' \in Past(pr.merge) /\ proposed' # pr.merge
    <3>1. proposed' \in Past(pr.since) /\ proposed' \notin list  BY <2>1, <2>3
    <3>2. Past(proposed') \subseteq Past(pr.since)  BY <1>1, <2>2, <3>1, PastOfPast
    <3>3. \A c \in list : c \notin Past(proposed')  BY <3>2 DEF Listed
    <3>4. ASSUME pr.merge # NoCommit  PROVE proposed' \in Past(pr.merge) /\ proposed' # pr.merge
      <4>1. pr.merge # pr.since /\ pr.since \in Past(pr.merge) /\ pr.merge \in Commits
        BY <2>1, <2>2, <3>4 DEF PullFits
      <4>2. Past(pr.since) \subseteq Past(pr.merge)  BY <1>1, <4>1, PastOfPast
      <4>3. proposed' \in 1..pr.since /\ pr.since \in 1..pr.merge  BY <1>1, <2>2, <3>1, <4>1, PastBelow
      <4>4. pr.merge \in Nat /\ pr.since \in Nat  BY <2>2, <4>1, CommitsAre
      <4>5. proposed' # pr.merge  BY <4>1, <4>3, <4>4
      <4>. QED  BY <3>1, <4>2, <4>5
    <3>. QED  BY <3>1, <3>3, <3>4
  <2>. HIDE DEF pr, list
  <2>4. reference'.commits = list /\ reference'.kind = "pull-request"
        /\ reference'.merge \in {NoCommit, pr.merge}
    BY <2>1
  <2>5. RecordedCommits' = list \cup ({reference'.merge} \ {NoCommit})  BY <2>4 DEF RecordedCommits
  <2>6. \A c : c \in RecordedCommits' => c \in list \/ (c = pr.merge /\ pr.merge # NoCommit)  BY <2>4, <2>5
  <2>. QED  BY <1>0, <2>3, <2>4, <2>6 DEF ProposalFits
<1>3. ASSUME NEW c \in Commits, ResolveCommit(c)  PROVE ProposalFits'
  <2>1. proposed' \in Elements(history[c]) /\ proposed' \in Commits  BY <1>3, CommitResolved, BaseTypes
  <2>2. reference' = [kind |-> "commit", commits |-> {c}, merge |-> NoCommit]  BY <1>3 DEF ResolveCommit
  <2>3. c \in Past(c)  BY <1>1, PastBelow
  <2>4. proposed' \in Past(c) /\ proposed' < c /\ c \in Nat  BY <1>1, <2>1, <2>3, PastOfParents, CommitsAre
  <2>5. proposed' # c  BY <2>4
  <2>6. reference'.commits = {c} /\ reference'.kind = "commit" /\ reference'.merge = NoCommit  BY <2>2
  <2>7. RecordedCommits' = {c}  BY <2>6 DEF RecordedCommits
  <2>. QED  BY <1>0, <2>4, <2>5, <2>6, <2>7 DEF ProposalFits
<1>4. CASE proposed' = NoCommit  BY <1>4 DEF ProposalFits
<1>5. CASE UNCHANGED <<proposed, warning, reference>>
  BY <1>0, <1>5 DEF BaseInv, ProposalFits, RecordedCommits
<1>6. \/ ResolvePullRequest \/ (\E c \in Commits : ResolveCommit(c))
      \/ proposed' = NoCommit \/ UNCHANGED <<proposed, warning, reference>>
  BY DEF BaseNext, ReadPullRequest, RefusePullRequest, FetchPullRequestCommits, SettleBaseCommit,
     ValidateWithoutClone, RefuseTaskBase, ResolveTaskBaseForValidation, CollectReferenceCommitFindings,
     MovePullRequest, Fetch
<1>. QED  BY <1>2, <1>3, <1>4, <1>5, <1>6

LEMMA ComparisonKeeps ==
  ASSUME BaseInv, BaseNext
  PROVE  ComparisonFits'
<1>1. CASE ResolveTaskBaseForValidation
  <2>1. /\ baseCommit \in local /\ available' = RecordedCommits \cap local
        /\ reported' = InPrompt(RecordedCommits \cup {baseCommit})
             \cup (IF RecordedCommits \subseteq local THEN {} ELSE {"missing-references"})
             \cup (IF reference.merge \in local \cup {NoCommit} THEN {} ELSE {"missing-merge"})
        /\ UNCHANGED <<local, reference, baseCommit, named>>
    BY <1>1 DEF ResolveTaskBaseForValidation
  <2>2. RecordedCommits' = RecordedCommits  BY <2>1 DEF RecordedCommits
  <2>3. "in-prompt" \notin reported' => named \notin RecordedCommits \cup {baseCommit}
    BY <2>1 DEF InPrompt
  <2>4. available' # RecordedCommits => "missing-references" \in reported'  BY <2>1
  <2>. QED  BY <2>1, <2>2, <2>3, <2>4 DEF ComparisonFits
<1>2. CASE ~ResolveTaskBaseForValidation
  <2>1. asking' # "comparing"
    BY <1>2 DEF BaseNext, ReadPullRequest, RefusePullRequest, ResolvePullRequest, FetchPullRequestCommits, ResolveCommit,
     SettleBaseCommit, ValidateWithoutClone, RefuseTaskBase, CollectReferenceCommitFindings,
     MovePullRequest, Fetch
  <2>. QED  BY <2>1 DEF ComparisonFits
<1>. QED  BY <1>1, <1>2

LEMMA ValidKeeps ==
  ASSUME BaseInv, BaseNext
  PROVE  ValidFits'
<1>0. \A c : Past(c)' = Past(c)  BY HistoryStays, PastStays
<1>1. CASE CollectReferenceCommitFindings
  <2>1. /\ asking = "comparing" /\ UNCHANGED <<local, reference, baseCommit, named, available>>
        /\ \/ reported' = reported \cup IF \E c \in available : Violates(c) THEN {"violation"} ELSE {}
           \/ reported' = reported \cup {"violation"}
    BY <1>1 DEF CollectReferenceCommitFindings
  <2>2. /\ baseCommit \in local
        /\ "in-prompt" \notin reported => named \notin RecordedCommits \cup {baseCommit}
        /\ available # RecordedCommits => "missing-references" \in reported
    BY <2>1 DEF BaseInv, ComparisonFits
  <2>3. RecordedCommits' = RecordedCommits  BY <2>1 DEF RecordedCommits
  <2>4. ASSUME reported' \cap Errors = {}
        PROVE  /\ "in-prompt" \notin reported /\ \A c \in available : ~Violates(c)
    BY <2>1, <2>4 DEF Errors
  <2>5. ASSUME reported' \cap Errors = {}, NEW c \in available
        PROVE  IF reference.kind = "pull-request" /\ c \in reference.commits
               THEN c \notin Past(baseCommit)
               ELSE c # baseCommit /\ baseCommit \in Past(c)
    BY <2>4, <2>5 DEF Violates, IsAncestor
  <2>. QED  BY <1>0, <2>1, <2>2, <2>3, <2>4, <2>5 DEF ValidFits
<1>2. CASE ValidateWithoutClone \/ RefuseTaskBase
  <2>1. "no-clone" \in reported' \/ "missing-base" \in reported'
    BY <1>2 DEF ValidateWithoutClone, RefuseTaskBase
  <2>. QED  BY <2>1 DEF ValidFits, Errors
<1>3. CASE ~CollectReferenceCommitFindings /\ ~ValidateWithoutClone /\ ~RefuseTaskBase
  <2>1. asking' # "done"
    BY <1>3 DEF BaseNext, ReadPullRequest, RefusePullRequest, ResolvePullRequest, FetchPullRequestCommits, ResolveCommit,
     SettleBaseCommit, ResolveTaskBaseForValidation, MovePullRequest, Fetch
  <2>. QED  BY <2>1 DEF ValidFits
<1>. QED  BY <1>1, <1>2, <1>3

LEMMA LocalKeeps ==
  ASSUME BaseInv, BaseNext
  PROVE  local' \subseteq Commits
<1>0. /\ history \in Histories /\ local \subseteq Commits /\ reference.commits \subseteq Commits
      /\ reference.merge \in Commits \cup {NoCommit} /\ proposed \in Commits \cup {NoCommit}
  BY BaseTypes
<1>1. CASE FetchPullRequestCommits
  <2>. DEFINE wanted == reference.commits \cup ({reference.merge, proposed} \ {NoCommit})
  <2>1. local' \in {local, local \cup UNION {Past(c) : c \in wanted}}  BY <1>1 DEF FetchPullRequestCommits
  <2>2. \A c \in wanted : Past(c) \subseteq Commits  BY <1>0, PastType
  <2>. HIDE DEF wanted
  <2>. QED  BY <1>0, <2>1, <2>2
<1>2. CASE \E c \in Commits : ResolveCommit(c)  BY <1>2, CommitResolved
<1>3. ASSUME NEW c \in Commits, local' \in {local, local \cup Past(c)}
      PROVE  local' \subseteq Commits
  BY <1>0, <1>3, PastType
<1>4. \/ FetchPullRequestCommits \/ (\E c \in Commits : ResolveCommit(c))
      \/ local' = local \/ \E c \in Commits : local' \in {local, local \cup Past(c)}
  BY DEF BaseNext, ReadPullRequest, RefusePullRequest, ResolvePullRequest, SettleBaseCommit,
     ValidateWithoutClone, RefuseTaskBase, ResolveTaskBaseForValidation, CollectReferenceCommitFindings,
     MovePullRequest, Fetch
<1>. QED  BY <1>0, <1>1, <1>2, <1>3, <1>4

LEMMA BaseTypesKeep ==
  ASSUME BaseInv, BaseNext
  PROVE  BaseTypeOK'
<1>0. BaseTypeOK  BY DEF BaseInv
<1>1. /\ history' \in Histories /\ local' \subseteq Commits
      /\ hub'.state \in {"unread", "open", "closed", "merged"}
  BY HistoryStays, LocalKeeps, PageKeeps, BaseTypes
<1>2. managed' \in BOOLEAN
  <2>1. managed' = managed
    BY DEF BaseNext, ReadPullRequest, RefusePullRequest, ResolvePullRequest, FetchPullRequestCommits, ResolveCommit,
     SettleBaseCommit, ValidateWithoutClone, RefuseTaskBase, ResolveTaskBaseForValidation,
     CollectReferenceCommitFindings, MovePullRequest, Fetch
  <2>. QED  BY <1>0, <2>1 DEF BaseTypeOK
<1>3. moves' \in 0..MaxMoves
  <2>1. moves' = moves \/ (moves < MaxMoves /\ moves' = moves + 1)
    BY DEF BaseNext, ReadPullRequest, RefusePullRequest, ResolvePullRequest, FetchPullRequestCommits, ResolveCommit,
     SettleBaseCommit, ValidateWithoutClone, RefuseTaskBase, ResolveTaskBaseForValidation,
     CollectReferenceCommitFindings, MovePullRequest, Fetch
  <2>2. MaxMoves \in Nat  BY TaskBaseAssumption DEF TaskBaseAssumption
  <2>. QED  BY <1>0, <2>1, <2>2 DEF BaseTypeOK
<1>4. asking' \in {"reference", "paging", "fetching", "base", "saved", "comparing", "done"}
  BY <1>0 DEF BaseTypeOK, BaseNext, ReadPullRequest, RefusePullRequest, ResolvePullRequest, FetchPullRequestCommits,
     ResolveCommit, SettleBaseCommit, ValidateWithoutClone, RefuseTaskBase, ResolveTaskBaseForValidation,
     CollectReferenceCommitFindings, MovePullRequest, Fetch
<1>5. /\ reference'.kind \in {"none", "commit", "pull-request"} /\ reference'.commits \subseteq Commits
      /\ reference'.merge \in Commits \cup {NoCommit}
      /\ proposed' \in Commits \cup {NoCommit} /\ warning' \in Warnings
  <2>1. CASE ResolvePullRequest
    <3>1. /\ reference' = [kind |-> "pull-request", commits |-> Listed(page.pr),
                           merge |-> IF page.pr.merge \in Listed(page.pr) THEN NoCommit ELSE page.pr.merge]
          /\ PullFits(page.pr) /\ proposed' \in Commits \cup {NoCommit} /\ warning' \in Warnings
      BY <2>1, PullResolved
    <3>2. page.pr.head \in Commits /\ page.pr.merge \in Commits \cup {NoCommit}  BY <3>1 DEF PullFits, PullFields
    <3>3. Listed(page.pr) \subseteq Commits  BY <3>2, BaseTypes, PastType DEF Listed
    <3>. QED  BY <3>1, <3>2, <3>3
  <2>2. ASSUME NEW c \in Commits, ResolveCommit(c)
        PROVE  /\ reference'.kind = "commit" /\ reference'.commits \subseteq Commits
               /\ reference'.merge = NoCommit /\ proposed' \in Commits /\ warning' = "none"
    <3>1. reference' = [kind |-> "commit", commits |-> {c}, merge |-> NoCommit] /\ warning' = "none"
      BY <2>2 DEF ResolveCommit
    <3>. QED  BY <2>2, <3>1, CommitResolved
  <2>3. CASE reference' = reference /\ (UNCHANGED <<proposed, warning>> \/ (proposed' = NoCommit /\ warning' = "none"))
    BY <1>0, <2>3 DEF BaseTypeOK, Warnings
  <2>4. \/ ResolvePullRequest \/ (\E c \in Commits : ResolveCommit(c))
        \/ reference' = reference /\ (UNCHANGED <<proposed, warning>> \/ (proposed' = NoCommit /\ warning' = "none"))
    BY DEF BaseNext, ReadPullRequest, RefusePullRequest, FetchPullRequestCommits, SettleBaseCommit,
     ValidateWithoutClone, RefuseTaskBase, ResolveTaskBaseForValidation, CollectReferenceCommitFindings,
     MovePullRequest, Fetch
  <2>5. "none" \in Warnings  BY DEF Warnings
  <2>. QED  BY <2>1, <2>2, <2>3, <2>4, <2>5
<1>6. /\ baseCommit' \in Commits \cup {NoCommit} /\ named' \in Commits \cup {NoCommit}
  <2>1. \/ UNCHANGED <<baseCommit, named>>
        \/ \E c \in Commits, text \in Named \cup {NoCommit} : baseCommit' = c /\ named' = text
    BY DEF BaseNext, ReadPullRequest, RefusePullRequest, ResolvePullRequest, FetchPullRequestCommits, ResolveCommit,
     SettleBaseCommit, ValidateWithoutClone, RefuseTaskBase, ResolveTaskBaseForValidation,
     CollectReferenceCommitFindings, MovePullRequest, Fetch
  <2>2. Named \subseteq Commits  BY TaskBaseAssumption DEF TaskBaseAssumption
  <2>. QED  BY <1>0, <2>1, <2>2 DEF BaseTypeOK
<1>7. available' \subseteq Commits
  <2>1. available' = available \/ available' = RecordedCommits \cap local
    BY DEF BaseNext, ReadPullRequest, RefusePullRequest, ResolvePullRequest, FetchPullRequestCommits, ResolveCommit,
     SettleBaseCommit, ValidateWithoutClone, RefuseTaskBase, ResolveTaskBaseForValidation,
     CollectReferenceCommitFindings, MovePullRequest, Fetch
  <2>. QED  BY <2>1, BaseTypes
<1>8. reported' \subseteq Errors \cup Notes
  <2>1. \A list : InPrompt(list) \subseteq {"in-prompt"}  BY DEF InPrompt
  <2>2. \/ reported' = reported
        \/ reported' \subseteq reported \cup {"violation"}
        \/ reported' \subseteq {"no-clone", "missing-base", "in-prompt", "missing-references", "missing-merge"}
    BY <2>1 DEF BaseNext, ReadPullRequest, RefusePullRequest, ResolvePullRequest, FetchPullRequestCommits, ResolveCommit,
     SettleBaseCommit, ValidateWithoutClone, RefuseTaskBase, ResolveTaskBaseForValidation,
     CollectReferenceCommitFindings, MovePullRequest, Fetch
  <2>. QED  BY <1>0, <2>2 DEF BaseTypeOK, Errors, Notes
<1>. QED  BY <1>1, <1>2, <1>3, <1>4, <1>5, <1>6, <1>7, <1>8 DEF BaseTypeOK

-----------------------------------------------------------------------------
(* The theorems.                                                           *)

LEMMA BaseBegins ==
  ASSUME BaseInit
  PROVE  BaseInv
<1>1. /\ history \in Histories /\ hub = Unread /\ moves = 0 /\ managed \in BOOLEAN /\ asking = "reference"
      /\ reference = NoReference /\ proposed = NoCommit /\ warning = "none" /\ baseCommit = NoCommit
      /\ named = NoCommit /\ available = {} /\ reported = {}
  BY DEF BaseInit
<1>2. local \subseteq Commits
  <2>1. PICK c \in Held : local = Past(c)  BY DEF BaseInit
  <2>2. c \in Commits  BY TaskBaseAssumption DEF TaskBaseAssumption
  <2>. QED  BY <1>1, <2>1, <2>2, PastType
<1>3. BaseTypeOK
  <2>1. MaxMoves \in Nat  BY TaskBaseAssumption DEF TaskBaseAssumption
  <2>. QED  BY <1>1, <1>2, <2>1 DEF BaseTypeOK, Unread, NoReference, Warnings
<1>4. PageFits /\ ComparisonFits /\ ValidFits /\ ProposalFits
  BY <1>1 DEF PageFits, ComparisonFits, ValidFits, ProposalFits
<1>5. ReferenceFits  BY <1>1 DEF ReferenceFits, NoReference
<1>. QED  BY <1>3, <1>4, <1>5 DEF BaseInv

LEMMA BaseStutters ==
  ASSUME BaseInv, UNCHANGED baseVars
  PROVE  BaseInv'
<1>1. /\ history' = history /\ hub' = hub /\ moves' = moves /\ managed' = managed /\ local' = local
      /\ asking' = asking /\ page' = page /\ reference' = reference /\ proposed' = proposed
      /\ warning' = warning /\ baseCommit' = baseCommit /\ named' = named /\ available' = available
      /\ reported' = reported
  BY DEF baseVars
<1>2. \A c : Past(c)' = Past(c)  BY <1>1, PastStays
<1>3. BaseTypeOK'  BY <1>1 DEF BaseInv, BaseTypeOK
<1>4. PageFits'
  <2>1. PullFits(page.pr)' <=> PullFits(page.pr)  BY <1>1, <1>2 DEF PullFits
  <2>2. Listed(page.pr)' = Listed(page.pr)  BY <1>1, <1>2 DEF Listed
  <2>3. FirstPage(Listed(page.pr))' = FirstPage(Listed(page.pr))  BY <2>2 DEF FirstPage
  <2>. QED  BY <1>1, <1>2, <2>1, <2>2, <2>3 DEF BaseInv, PageFits
<1>5. ReferenceFits'  BY <1>1, <1>2 DEF BaseInv, ReferenceFits
<1>6. ProposalFits'  BY <1>1, <1>2 DEF BaseInv, ProposalFits, RecordedCommits
<1>7. ComparisonFits'  BY <1>1 DEF BaseInv, ComparisonFits, RecordedCommits
<1>8. ValidFits'  BY <1>1, <1>2 DEF BaseInv, ValidFits, RecordedCommits
<1>. QED  BY <1>3, <1>4, <1>5, <1>6, <1>7, <1>8 DEF BaseInv

LEMMA BaseHolds == BaseSpec => []BaseInv
<1>1. BaseInv /\ BaseNext => BaseInv'
  BY BaseTypesKeep, PageKeeps, ReferenceKeeps, ProposalKeeps, ComparisonKeeps, ValidKeeps DEF BaseInv
<1>2. BaseInv /\ [BaseNext]_baseVars => BaseInv'  BY <1>1, BaseStutters
<1>. QED  BY <1>2, BaseBegins, PTL DEF BaseSpec

\* Every variable of the base and its reference keeps its type.
THEOREM BaseTypeCorrect == BaseSpec => []BaseTypeOK
<1>1. BaseInv => BaseTypeOK  BY DEF BaseInv
<1>. QED  BY <1>1, BaseHolds, PTL

\* For any graph of commits and any moves of the pull request, a base that is found
\* valid holds nothing of the reference, what is proposed without a warning would be,
\* and the recorded commits are a list GitHub had.
THEOREM BaseComesBefore == BaseSpec => []BaseIsBeforeReference
<1>1. BaseInv => BaseIsBeforeReference
  BY DEF BaseInv, ReferenceFits, ProposalFits, ValidFits, BaseIsBeforeReference
<1>. QED  BY <1>1, BaseHolds, PTL
=============================================================================
