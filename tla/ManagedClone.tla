------------------------------ MODULE ManagedClone ------------------------------
(***************************************************************************)
(* The managed clone of one GitHub repository, which every tevu command of *)
(* the operator shares. A command makes the clone when it is missing, then *)
(* fetches the base commits of its tasks, the Git LFS objects of the base, *)
(* and the commits of their references (prepareManagedRepositories). All   *)
(* writing is done under a lock directory, for which nobody waits; reading *)
(* takes no lock. What git wrote is there whole or not at all, except for  *)
(* Git LFS objects, which arrive one by one.                               *)
(***************************************************************************)
EXTENDS Integers, FiniteSets

CONSTANTS
  Commands,      \* the commands that share the clone
  BaseOf,        \* BaseOf[c]: the base revisions of the tasks of command c
  ReferenceOf,   \* ReferenceOf[c]: the reference commits of its tasks
  Hashes,        \* the revisions that are full hashes; the others are names
  Cloned,        \* what a clone brings along
  Remote,        \* what a fetch can bring
  Objects,       \* the Git LFS objects of the base
  MaxDeaths      \* bound: commands that are killed

ASSUME CloneAssumption ==
  /\ IsFiniteSet(Commands) /\ Cloned \subseteq Remote /\ MaxDeaths \in Nat

VARIABLES
  place,      \* what is at the clone's path
  commits,    \* the revisions that resolve in it
  objects,    \* the Git LFS objects in it
  lock,       \* the lock directory exists
  temps,      \* temporary clones on disk, by their command
  doing,      \* how far each command is
  phase,      \* which of its three tasks a command is at
  next,       \* where a command goes when it has released the lock
  unresolved, \* the revisions a command found missing
  probed,     \* the commands that know that gh runs
  missing,    \* history: the base revisions that were not there after the fetch
  inventory,  \* whether the last inventory of Git LFS objects was complete
  orphans,    \* what git processes of killed commands may still write
  deaths

cloneDisk == <<place, commits, objects, lock, temps>>
commandVars == <<doing, phase, next, unresolved, probed, missing, inventory>>
cloneVars == <<cloneDisk, commandVars, orphans, deaths>>

Ends == {"ok", "failed", "cancelled", "killed"}
Unlocked == {"inspect", "clone", "resolve", "fetch hashes", "fetch names", "recheck",
             "inventory", "lfs", "recount"}
Writing == {"cloning", "landing", "fetching hashes", "fetching names", "lfs fetching"}
Locked == {"locked", "clean up", "release"} \cup Writing
Revisions == UNION {BaseOf[c] \cup ReferenceOf[c] : c \in Commands}

\* The one type invariant.
CloneTypeOK ==
  /\ place \in {"missing", "whole", "other"}
  /\ commits \subseteq Remote /\ objects \subseteq Objects /\ lock \in BOOLEAN
  /\ temps \subseteq Commands /\ probed \subseteq Commands
  /\ doing \in [Commands -> Unlocked \cup Locked \cup Ends]
  /\ phase \in [Commands -> {"base", "objects", "reference"}]
  /\ next \in [Commands -> Unlocked \cup Ends]
  /\ unresolved \in [Commands -> SUBSET Revisions] /\ missing \in [Commands -> SUBSET Revisions]
  /\ inventory \in [Commands -> BOOLEAN]
  /\ orphans \subseteq Remote \cup Objects /\ deaths \in 0..MaxDeaths

CloneInit ==
  /\ place \in {"missing", "other"} /\ commits = {} /\ objects = {} /\ lock = FALSE /\ temps = {}
  /\ doing = [c \in Commands |-> "inspect"] /\ phase = [c \in Commands |-> "base"]
  /\ next = [c \in Commands |-> "inspect"]
  /\ unresolved = [c \in Commands |-> {}] /\ missing = [c \in Commands |-> {}]
  /\ inventory = [c \in Commands |-> FALSE]
  /\ probed = {} /\ orphans = {} /\ deaths = 0

Goes(c, where) == doing' = [doing EXCEPT ![c] = where]
Releases(c, then) == Goes(c, "release") /\ next' = [next EXCEPT ![c] = then]
Needed(c) == IF phase[c] = "reference" THEN ReferenceOf[c] ELSE BaseOf[c]

\* A reference that cannot be fetched is a warning; anything else ends the command.
Fails(c) == IF phase[c] = "reference" THEN "ok" ELSE "failed"

-----------------------------------------------------------------------------
(* The lock.                                                               *)

\* Mutant: the lock is made inside the block that releases it.
AcquireInside(c, then) ==
  \/ ~lock /\ lock' = TRUE /\ Goes(c, then) /\ UNCHANGED next
  \/ Releases(c, Fails(c)) /\ UNCHANGED lock
  \/ Goes(c, "cancelled") /\ UNCHANGED <<lock, next>>

\* mkdir, for which a directory that exists, or any other failure, is the end; the
\* signal is looked at before.
AcquireLock(c, then) ==
  \/ ~lock /\ lock' = TRUE /\ Goes(c, then) /\ UNCHANGED next
  \/ Goes(c, Fails(c)) /\ UNCHANGED <<lock, next>>
  \/ Goes(c, "cancelled") /\ UNCHANGED <<lock, next>>

\* A lock that cannot be removed stays, and nobody is told.
ReleaseLock(c) ==
  /\ doing[c] = "release"
  /\ lock' \in {FALSE, lock}
  /\ Goes(c, next[c]) /\ next' = [next EXCEPT ![c] = "inspect"]
  /\ UNCHANGED <<place, commits, objects, temps, phase, unresolved, probed, missing, inventory, orphans, deaths>>

\* gh is asked for once; a failure and a cancellation of that release the lock.
ProbeGh(c) ==
  /\ c \notin probed /\ UNCHANGED probed
  /\ \E end \in {Fails(c), "cancelled"} : Releases(c, end)

-----------------------------------------------------------------------------
(* ensureManagedCommits.                                                   *)

\* What is there is no clone, or looking at it failed: a clone that cannot be read is
\* taken for one tevu did not make (inspectCloneState).
InspectClone(c) ==
  /\ doing[c] = "inspect"
  /\ \/ place = "missing" /\ Goes(c, "clone")
     \/ place = "whole" /\ Goes(c, "resolve")
     \/ Goes(c, Fails(c))
  /\ UNCHANGED <<cloneDisk, phase, next, unresolved, probed, missing, inventory, orphans, deaths>>

BeginClone(c) ==
  /\ doing[c] = "clone" /\ AcquireLock(c, "locked")
  /\ UNCHANGED <<place, commits, objects, temps, phase, unresolved, probed, missing, inventory, orphans, deaths>>

\* Under the lock the path is looked at again; the clone is made beside it.
CloneBeside(c) ==
  /\ doing[c] = "locked"
  /\ \/ /\ Releases(c, Fails(c)) \/ (place = "whole" /\ Releases(c, "resolve"))
        /\ UNCHANGED <<temps, probed>>
     \/ place = "missing" /\ ProbeGh(c) /\ UNCHANGED temps
     \/ /\ place = "missing" /\ probed' = probed \cup {c}
        /\ \/ temps' = temps \cup {c} /\ Goes(c, "cloning") /\ UNCHANGED next
           \/ Releases(c, Fails(c)) /\ UNCHANGED temps
  /\ UNCHANGED <<place, commits, objects, lock, phase, unresolved, missing, inventory, orphans, deaths>>

\* git clone ends; a signal that arrived in the meantime makes its success void.
CloneEnds(c) ==
  /\ doing[c] = "cloning"
  /\ \/ Goes(c, "landing") /\ UNCHANGED next
     \/ Goes(c, "clean up") /\ \E e \in {Fails(c), "cancelled"} : next' = [next EXCEPT ![c] = e]
  /\ UNCHANGED <<cloneDisk, phase, unresolved, probed, missing, inventory, orphans, deaths>>

\* rename moves the whole clone into its place, or fails.
LandClone(c) ==
  /\ doing[c] = "landing"
  /\ \/ /\ place = "missing" /\ place' = "whole" /\ commits' = Cloned
        /\ temps' = temps \ {c} /\ Releases(c, "resolve")
     \/ Goes(c, "clean up") /\ next' = [next EXCEPT ![c] = Fails(c)] /\ UNCHANGED <<place, commits, temps>>
  /\ UNCHANGED <<objects, lock, phase, unresolved, probed, missing, inventory, orphans, deaths>>

CleanUp(c) ==
  /\ doing[c] = "clean up" /\ Goes(c, "release")
  /\ temps' \in {temps, temps \ {c}}
  /\ UNCHANGED <<place, commits, objects, lock, phase, next, unresolved, probed, missing, inventory, orphans, deaths>>

\* What comes after the commits of a phase are there, or known not to be.
Continue(c) ==
  IF phase[c] = "base"
  THEN Goes(c, "inventory") /\ phase' = [phase EXCEPT ![c] = "objects"]
  ELSE Goes(c, "ok") /\ UNCHANGED phase

\* unresolvedRevisions, without a lock: a lookup that fails counts as one that found
\* nothing.
ResolveRevisions(c) ==
  /\ doing[c] = "resolve"
  /\ \E failed \in SUBSET (Needed(c) \cap commits) :
       unresolved' = [unresolved EXCEPT ![c] = (Needed(c) \ commits) \cup failed]
  /\ missing' = IF phase[c] = "base" THEN [missing EXCEPT ![c] = {}] ELSE missing
  /\ CASE unresolved'[c] = {} -> Continue(c)
       [] unresolved'[c] \cap Hashes # {} -> Goes(c, "fetch hashes") /\ UNCHANGED phase
       [] OTHER -> Goes(c, "fetch names") /\ UNCHANGED phase
  /\ UNCHANGED <<cloneDisk, next, probed, inventory, orphans, deaths>>

BeginFetch(c) ==
  /\ \/ doing[c] = "fetch hashes" /\ AcquireLock(c, "fetching hashes")
     \/ doing[c] = "fetch names" /\ AcquireLock(c, "fetching names")
  /\ UNCHANGED <<place, commits, objects, temps, phase, unresolved, probed, missing, inventory, orphans, deaths>>

\* A fetch of hashes fails for one that is not there, a fetch of all branches and
\* tags does not. Either may have fetched when its command is cancelled.
Asked(c) == IF doing[c] = "fetching hashes" THEN unresolved[c] \cap Hashes ELSE unresolved[c] \ Hashes
Brought(c) == commits \cup (Asked(c) \cap Remote)
AfterFetch(c) ==
  IF doing[c] = "fetching hashes" /\ ~unresolved[c] \subseteq Hashes THEN "fetch names" ELSE "recheck"

FetchEnds(c) ==
  /\ doing[c] \in {"fetching hashes", "fetching names"}
  /\ \/ ProbeGh(c) /\ UNCHANGED commits
     \/ /\ probed' = probed \cup {c}
        /\ \/ /\ Asked(c) \cap Hashes \subseteq Remote
              /\ commits' = Brought(c) /\ Releases(c, AfterFetch(c))
           \/ Releases(c, Fails(c)) /\ UNCHANGED commits
           \/ Releases(c, "cancelled") /\ commits' \in {commits, Brought(c)}
  /\ UNCHANGED <<place, objects, lock, temps, phase, unresolved, missing, inventory, orphans, deaths>>

\* No command reads which revisions the second look did not find, so a lookup that
\* fails there changes nothing; missing holds those that were not there.
RecheckRevisions(c) ==
  /\ doing[c] = "recheck"
  /\ missing' = IF phase[c] = "base" THEN [missing EXCEPT ![c] = unresolved[c] \ commits] ELSE missing
  /\ Continue(c)
  /\ UNCHANGED <<cloneDisk, next, unresolved, probed, inventory, orphans, deaths>>

-----------------------------------------------------------------------------
(* ensureManagedLfsObjects.                                                *)

NextPhase(c) == Goes(c, "inspect") /\ phase' = [phase EXCEPT ![c] = "reference"]

\* An inventory that fails, as that of a base that is missing does, is left to the
\* validation of the source.
InspectLfsObjects(c) ==
  /\ doing[c] \in {"inventory", "recount"}
  /\ \/ /\ missing[c] = {} /\ inventory' = [inventory EXCEPT ![c] = TRUE]
        /\ CASE objects = Objects -> NextPhase(c)
             [] objects # Objects /\ doing[c] = "inventory" -> Goes(c, "lfs") /\ UNCHANGED phase
             [] OTHER -> Goes(c, "failed") /\ UNCHANGED phase
     \/ inventory' = [inventory EXCEPT ![c] = FALSE] /\ NextPhase(c)
  /\ UNCHANGED <<cloneDisk, next, unresolved, probed, missing, orphans, deaths>>

\* git lfs is asked for before the lock is taken.
BeginLfsFetch(c) ==
  /\ doing[c] = "lfs" /\ AcquireLock(c, "lfs fetching")
  /\ UNCHANGED <<place, commits, objects, temps, phase, unresolved, probed, missing, inventory, orphans, deaths>>

LfsObjectArrives(c) ==
  /\ doing[c] = "lfs fetching"
  /\ \E o \in Objects \ objects : objects' = objects \cup {o}
  /\ probed' = probed \cup {c}
  /\ UNCHANGED <<place, commits, lock, temps, doing, phase, next, unresolved, missing, inventory, orphans, deaths>>

LfsFetchEnds(c) ==
  /\ doing[c] = "lfs fetching"
  /\ \/ ProbeGh(c)
     \/ /\ probed' = probed \cup {c}
        /\ \E end \in {"recount", Fails(c), "cancelled"} : Releases(c, end)
  /\ UNCHANGED <<cloneDisk, phase, unresolved, missing, inventory, orphans, deaths>>

-----------------------------------------------------------------------------
(* What happens to the commands and to the directory.                      *)

\* A killed command leaves everything behind, and git may go on without it.
Kill(c) ==
  /\ doing[c] \notin Ends /\ deaths < MaxDeaths
  /\ deaths' = deaths + 1 /\ Goes(c, "killed") /\ next' = [next EXCEPT ![c] = "inspect"]
  /\ orphans' = orphans \cup CASE doing[c] \in {"fetching hashes", "fetching names"} -> Asked(c) \cap Remote
                               [] doing[c] = "lfs fetching" -> Objects
                               [] OTHER -> {}
  /\ UNCHANGED <<cloneDisk, phase, unresolved, probed, missing, inventory>>

OrphanWrites ==
  /\ \E x \in orphans :
       /\ commits' = IF x \in Remote THEN commits \cup {x} ELSE commits
       /\ objects' = IF x \in Objects THEN objects \cup {x} ELSE objects
  /\ UNCHANGED <<place, lock, temps, commandVars, orphans, deaths>>

Holds(c) == doing[c] \in Locked

\* The operator removes what a message asked for: a lock that no command holds, or
\* what is there and is no clone.
OperatorRemoves ==
  /\ \/ lock /\ (\A c \in Commands : ~Holds(c)) /\ lock' = FALSE /\ UNCHANGED place
     \/ place = "other" /\ place' = "missing" /\ UNCHANGED lock
  /\ UNCHANGED <<commits, objects, temps, commandVars, orphans, deaths>>

\* The operator runs the command again.
RunAgain(c) ==
  /\ doing[c] \in Ends \ {"ok"}
  /\ Goes(c, "inspect") /\ phase' = [phase EXCEPT ![c] = "base"]
  /\ probed' = probed \ {c} /\ inventory' = [inventory EXCEPT ![c] = FALSE]
  /\ unresolved' = [unresolved EXCEPT ![c] = {}] /\ missing' = [missing EXCEPT ![c] = {}]
  /\ UNCHANGED <<cloneDisk, next, orphans, deaths>>

EnsureClone(c) ==
  InspectClone(c) \/ BeginClone(c) \/ CloneBeside(c) \/ CloneEnds(c) \/ LandClone(c) \/ CleanUp(c)
EnsureCommits(c) == ResolveRevisions(c) \/ BeginFetch(c) \/ FetchEnds(c) \/ RecheckRevisions(c)
EnsureObjects(c) ==
  InspectLfsObjects(c) \/ BeginLfsFetch(c) \/ LfsObjectArrives(c) \/ LfsFetchEnds(c)

CloneNext ==
  \/ \E c \in Commands :
       EnsureClone(c) \/ EnsureCommits(c) \/ EnsureObjects(c) \/ ReleaseLock(c) \/ Kill(c) \/ RunAgain(c)
  \/ OrphanWrites \/ OperatorRemoves

CloneSpec == CloneInit /\ [][CloneNext]_cloneVars

-----------------------------------------------------------------------------
\* Two commands never hold the lock, and nobody removes the lock of another, also
\* when one is killed and the operator clears up; git fetches into nothing but a
\* clone; a command that succeeded has every base commit but those the fetch did not
\* bring, and every Git LFS object of the base, when it could count them.
CloneSound ==
  \A c \in Commands :
       /\ Holds(c) => lock /\ \A d \in Commands \ {c} : ~Holds(d)
       /\ doing[c] \in Writing \ {"cloning", "landing"} => place = "whole"
       /\ doing[c] = "ok" =>
            /\ place = "whole" /\ BaseOf[c] \subseteq commits \cup missing[c]
            /\ missing[c] \cap Cloned = {}
            /\ inventory[c] => objects = Objects
=============================================================================
