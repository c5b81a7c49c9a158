----------------------------- MODULE CaseExecutables -----------------------------
(***************************************************************************)
(* The probe of the commands that the cases of a configuration will start. *)
(* Each is run once in a replica of its case environment and, when that    *)
(* fails, once in tevu's own; a command that runs only in the latter is an *)
(* error. In the operator's own directory the files are compared before    *)
(* and after each run by what git status lists, and what changed is told.  *)
(* Validation takes the commands in order, probes equal ones once, and     *)
(* asks an agent for its capabilities only when its command was not found  *)
(* wanting.                                                                *)
(***************************************************************************)
EXTENDS Integers, FiniteSets, SequencesExt

CONSTANTS
  ProbeConfig,    \* the agents in use, the repositories and the tasks, in order
  ParentNames,    \* the variables of tevu's own environment
  CaseNames,      \* the variables every case has
  WithheldNames,  \* the credentials that no probe is given
  Needs,          \* Needs[x]: the variables that executable x reads
  TrackedFiles,   \* the files of the operator's directory that git tracks
  UntrackedFiles, \* others there
  MaxWrites,      \* bound: changes that the probed commands make
  MaxIntrusions   \* bound: changes that another program makes meanwhile

IsList(s) == s \in Seq(ToSet(s))
ProbeFiles == TrackedFiles \cup UntrackedFiles

ASSUME ProbeAssumption ==
  /\ WithheldNames \subseteq ParentNames /\ TrackedFiles \cap UntrackedFiles = {} /\ "unread" \notin ProbeFiles
  /\ {MaxWrites, MaxIntrusions} \subseteq Nat
  /\ IsList(ProbeConfig.agents)
  /\ IsList(ProbeConfig.repositories) /\ \A r \in ToSet(ProbeConfig.repositories) : IsList(r.setup)
  /\ IsList(ProbeConfig.tasks) /\ \A t \in ToSet(ProbeConfig.tasks) : IsList(t.checks)

FileStates == {"absent", "base", "edited"}

-----------------------------------------------------------------------------
(* The commands of a configuration.                                        *)

\* The commands of the agents, the setup commands of the repositories that tasks
\* name, and the checks; those of a path entry run in its directory.
CaseExecutableLocations ==
  LET path(id) == \E r \in ToSet(ProbeConfig.repositories) : r.id = id /\ ~r.github
      used(id) == \E t \in ToSet(ProbeConfig.tasks) : t.repo = id
      command(c, directory, agent) ==
        [executable |-> c.executable, additions |-> c.names, inDirectory |-> directory, agent |-> agent]
      agents == [i \in DOMAIN ProbeConfig.agents |->
                   command(ProbeConfig.agents[i], FALSE, ProbeConfig.agents[i].name)]
      setup == [i \in DOMAIN ProbeConfig.repositories |->
                  LET r == ProbeConfig.repositories[i]
                  IN [j \in DOMAIN r.setup |-> command(r.setup[j], path(r.id), "none")]]
      inUse == [i \in DOMAIN setup |-> IF used(ProbeConfig.repositories[i].id) THEN setup[i] ELSE <<>>]
      run == [i \in DOMAIN ProbeConfig.tasks |->
                LET t == ProbeConfig.tasks[i]
                IN [j \in DOMAIN t.checks |-> command(t.checks[j], path(t.repo), "none")]]
  IN agents \o FlattenSeq(inUse) \o FlattenSeq(run)

Located == DOMAIN CaseExecutableLocations
Where(i) == CaseExecutableLocations[i]

\* A relative path is looked for in a worktree that is not there yet, and a string
\* whose first word is not plain names no executable.
Judged(i) == Where(i).executable \notin {"relative", "not plain"}

\* Mutant: what the executable is given is not part of the key.
CaseExecutableProbeKeyByName(i) ==
  [executable |-> Where(i).executable, inDirectory |-> Where(i).inDirectory, additions |-> {}]

\* Locations with one key share a probe.
CaseExecutableProbeKey(i) ==
  [executable |-> Where(i).executable, inDirectory |-> Where(i).inDirectory,
   additions |-> Where(i).additions]

\* What is added never replaces what every case has; tevu's own run lacks only the
\* credentials.
ReplicaEnvironment(i) == CaseNames \cup Where(i).additions
ParentEnvironment == ParentNames \ WithheldNames
EnvironmentOf(run, i) == IF run = "replica" THEN ReplicaEnvironment(i) ELSE ParentEnvironment

VARIABLES
  validating, \* how far validation is
  location,   \* the location it is at
  probe,      \* how far the probe of that location is
  running,    \* the run it is at
  fate,       \* what the probe came to
  verdicts,   \* the verdict of each key that was probed
  files,      \* the state of each file in the operator's directory
  hidden,     \* the files that git is told to ignore
  listing,    \* what git status listed, when the states are not read yet
  previous,   \* the snapshot before
  unchecked,  \* whether a snapshot of this probe failed
  observed,   \* what each run of this probe changed, by its snapshots
  leftover,   \* whether a probe directory stayed behind
  notices,    \* the findings
  capable,    \* the agents that were asked for their capabilities
  writings,   \* how many changes the commands made
  intrusions, \* and how many another program
  truth,      \* history: the files, and the hidden ones, at the last snapshot
  torn,       \* history: the files that changed between the halves of one
  altered,    \* history: what each run really changed
  slow        \* history: whether a run reached its limit

probeSteps == <<validating, location, probe, running, fate>>
directoryVars == <<files, hidden, writings, intrusions, torn>>
snapshotVars == <<listing, previous, unchecked, observed, truth, altered>>
reportVars == <<verdicts, leftover, notices, capable, slow>>
probeVars == <<probeSteps, directoryVars, snapshotVars, reportVars>>

NoSnapshot == [listed |-> {}, states |-> [f \in {} |-> "absent"]]
Keys == {CaseExecutableProbeKey(i) : i \in Located}
Verdicts == {"runs", "parent-only", "undetermined"}
AgentsAt == {ProbeConfig.agents[i].name : i \in DOMAIN ProbeConfig.agents}

\* The one type invariant.
ProbeTypeOK ==
  /\ validating \in {"environment", "executables", "capabilities", "done"}
  /\ location \in Nat \ {0} /\ location <= Len(CaseExecutableLocations) + 1
  /\ probe \in {"none", "before", "run", "after", "removing"} /\ running \in {"replica", "parent"}
  /\ fate \in Verdicts \cup {"none", "error"}
  /\ DOMAIN verdicts \subseteq Keys /\ \A k \in DOMAIN verdicts : verdicts[k] \in Verdicts
  /\ files \in [ProbeFiles -> FileStates] /\ hidden \subseteq UntrackedFiles
  /\ listing \subseteq ProbeFiles \cup {"unread"} /\ previous.listed \subseteq ProbeFiles
  /\ {unchecked, leftover, slow} \subseteq BOOLEAN /\ torn \subseteq ProbeFiles
  /\ capable \subseteq AgentsAt /\ writings \in 0..MaxWrites /\ intrusions \in 0..MaxIntrusions

ProbeInit ==
  /\ validating = "environment" /\ location = 1 /\ probe = "none" /\ running = "replica"
  /\ fate = "none" /\ verdicts = [k \in {} |-> "runs"]
  /\ files = [f \in ProbeFiles |-> IF f \in TrackedFiles THEN "base" ELSE "absent"]
  /\ hidden = {} /\ listing = {"unread"} /\ previous = NoSnapshot /\ unchecked = FALSE
  /\ observed = {} /\ leftover = FALSE /\ notices = {} /\ capable = {} /\ writings = 0
  /\ intrusions = 0 /\ truth = [files |-> files, hidden |-> {}] /\ torn = {} /\ altered = {}
  /\ slow = FALSE

-----------------------------------------------------------------------------
(* The snapshots of the operator's directory.                              *)

\* git status: the tracked files that are not as committed, and the others there.
GitStatus ==
  {f \in TrackedFiles : files[f] # "base"} \cup {f \in UntrackedFiles \ hidden : files[f] # "absent"}

\* Mutant: only what is listed now is looked at.
StatesOfListed(listed, carried) == [f \in listed |-> files[f]]

\* lstat of what is listed, and of what was.
StatesOf(listed, carried) == [f \in listed \cup carried |-> files[f]]

\* What the lists and the states of two snapshots make of a file.
ClassifyPath(old, new, f) ==
  LET after == IF f \in DOMAIN new.states THEN new.states[f] ELSE "absent"
  IN IF f \in old.listed
     THEN LET was == old.states[f]
          IN CASE was = "absent" -> IF after = "absent" THEN "none" ELSE "added"
               [] was # "absent" /\ after = "absent" -> "removed"
               [] OTHER -> IF was = after THEN "none" ELSE "modified"
     ELSE CASE f \notin new.listed -> "none"
            [] f \in new.listed /\ after = "absent" -> "removed"
            [] OTHER -> IF f \in UntrackedFiles THEN "added" ELSE "modified"

\* What happened to a file, of which a hidden one counts as not there.
Difference(f) ==
  LET was == IF f \in truth.hidden THEN "absent" ELSE truth.files[f]
      is == IF f \in hidden /\ (f \in truth.hidden \/ truth.files[f] = "absent")
            THEN "absent" ELSE files[f]
  IN CASE was = is -> "none"
       [] was = "absent" /\ is # "absent" -> "added"
       [] was # "absent" /\ is = "absent" -> "removed"
       [] OTHER -> "modified"

Happened(known) ==
  [at |-> location, run |-> running, known |-> known,
   change |-> [f \in ProbeFiles |-> Difference(f)], torn |-> torn]

\* Once a snapshot has failed no other is taken.
Watching == Where(location).inDirectory /\ ~unchecked

\* A run that no snapshot follows.
Unobserved ==
  altered' = IF probe = "after" /\ Where(location).inDirectory
             THEN altered \cup {Happened(FALSE)} ELSE altered

\* After the first snapshot comes the first run, after a run the second or the end.
Resume ==
  /\ probe' = IF probe = "before" \/ fate = "none" THEN "run" ELSE "removing"
  /\ running' = IF probe = "before" THEN "replica" ELSE "parent"

\* git rev-parse, git status or lstat fails, git does not end in time, or it lists too
\* much.
SnapshotFails ==
  /\ probe \in {"before", "after"} /\ Watching
  /\ unchecked' = TRUE /\ listing' = {"unread"} /\ Unobserved /\ Resume
  /\ UNCHANGED <<validating, location, fate, directoryVars, previous, observed, truth, reportVars>>

SnapshotLists ==
  /\ probe \in {"before", "after"} /\ Watching /\ listing = {"unread"}
  /\ listing' = GitStatus
  /\ UNCHANGED <<probeSteps, directoryVars, previous, unchecked, observed, truth, altered, reportVars>>

\* The states are read, and compared with the snapshot before.
DirectorySnapshot ==
  /\ probe \in {"before", "after"} /\ Watching /\ listing # {"unread"}
  /\ LET new == [listed |-> listing, states |-> StatesOf(listing, previous.listed)]
     IN /\ previous' = new
        /\ IF probe = "before" THEN UNCHANGED <<observed, altered>>
           ELSE /\ observed' = observed \cup
                     {[run |-> running,
                       change |-> [f \in ProbeFiles |-> ClassifyPath(previous, new, f)]]}
                /\ altered' = altered \cup {Happened(TRUE)}
  /\ truth' = [files |-> files, hidden |-> hidden] /\ listing' = {"unread"} /\ Resume
  /\ UNCHANGED <<validating, location, fate, directoryVars, unchecked, reportVars>>

\* An empty directory is not watched, and one whose snapshot failed no more.
SnapshotSkipped ==
  /\ probe \in {"before", "after"} /\ ~Watching
  /\ Unobserved /\ Resume
  /\ UNCHANGED <<validating, location, fate, directoryVars, listing, previous, unchecked, observed,
                 truth, reportVars>>

-----------------------------------------------------------------------------
(* One probe.                                                              *)

TheKey == CaseExecutableProbeKey(location)

\* The probe directory is made; a verdict that is known is not asked for again.
BeginProbe ==
  /\ validating = "executables" /\ probe = "none" /\ location \in Located
  /\ Judged(location) /\ TheKey \notin DOMAIN verdicts
  /\ probe' = "before" /\ running' = "replica" /\ fate' = "none"
  /\ UNCHANGED <<validating, location, directoryVars, snapshotVars, reportVars>>

\* The directory of the case environment cannot be made.
EnvironmentFails ==
  /\ probe = "run" /\ running = "replica"
  /\ probe' = "removing" /\ fate' = "error"
  /\ UNCHANGED <<validating, location, running, directoryVars, snapshotVars, reportVars>>

\* What a run does to the files: nothing, one change, or another ignore rule.
RunWrites ==
  \/ UNCHANGED <<files, hidden, writings>>
  \/ /\ Where(location).inDirectory /\ writings < MaxWrites /\ writings' = writings + 1
     /\ \/ \E f \in ProbeFiles, x \in FileStates : files' = [files EXCEPT ![f] = x] /\ UNCHANGED hidden
        \/ hidden' \in SUBSET UntrackedFiles /\ UNCHANGED files

\* The first run decides when it exits 0 or reaches its limit, which a download may
\* be the reason of; otherwise the second does.
OutcomeOf(run, result) ==
  CASE run = "replica" /\ result = "zero" -> "runs"
    [] run = "replica" /\ result = "nonzero" -> "none"
    [] run = "parent" /\ result = "zero" -> "parent-only"
    [] OTHER -> "undetermined"

\* An executable exits 0 where it finds what it needs, unless it reaches its limit.
RunProbe ==
  /\ probe = "run" /\ probe' = "after"
  /\ \E result \in {"zero", "nonzero", "timeout"} :
       /\ result = "zero" => Needs[Where(location).executable] \subseteq EnvironmentOf(running, location)
       /\ result = "nonzero" => ~(Needs[Where(location).executable] \subseteq EnvironmentOf(running, location))
       /\ fate' = OutcomeOf(running, result) /\ slow' = (slow \/ result = "timeout")
  /\ RunWrites
  /\ UNCHANGED <<validating, location, running, intrusions, torn, snapshotVars, verdicts, leftover,
                 notices, capable>>

-----------------------------------------------------------------------------
(* The findings.                                                           *)

\* The warnings of a probe, at the location that was probed: one for each run that
\* changed something, and one when a snapshot failed.
ChangeWarnings ==
  {[kind |-> "changed", at |-> location, run |-> o.run, change |-> o.change] :
     o \in {o \in observed : \E f \in ProbeFiles : o.change[f] # "none"}}
    \cup IF unchecked THEN {[kind |-> "unchecked", at |-> location]} ELSE {}

Verdict(verdict) ==
  IF verdict = "parent-only" THEN {[kind |-> "parent-only", at |-> location]} ELSE {}

\* A probe that fails ends the probing: its directory cannot be made, or cannot be
\* removed, which counts more than what was found.
StopProbing ==
  /\ notices' = notices \cup {[kind |-> "prerequisite"]}
  /\ validating' = "capabilities" /\ UNCHANGED <<location, verdicts>>

EndProbe ==
  /\ probe' = "none" /\ fate' = "none" /\ listing' = {"unread"} /\ previous' = NoSnapshot
  /\ unchecked' = FALSE /\ observed' = {} /\ torn' = {} /\ truth' = [files |-> files, hidden |-> hidden]

NoProbeDirectory ==
  /\ validating = "executables" /\ probe = "none" /\ location \in Located
  /\ Judged(location) /\ TheKey \notin DOMAIN verdicts
  /\ StopProbing
  /\ UNCHANGED <<probe, running, fate, directoryVars, snapshotVars, leftover, capable, slow>>

\* Mutant: the directory that stays is not told.
RemoveProbeDirectoryQuietly ==
  /\ probe = "removing" /\ leftover' \in {leftover, TRUE}
  /\ IF fate = "error" THEN StopProbing
     ELSE /\ verdicts' = [k \in DOMAIN verdicts \cup {TheKey} |-> IF k = TheKey THEN fate ELSE verdicts[k]]
          /\ notices' = notices \cup ChangeWarnings \cup Verdict(fate)
          /\ location' = location + 1 /\ UNCHANGED validating
  /\ EndProbe /\ running' = "replica"
  /\ UNCHANGED <<files, hidden, writings, intrusions, altered, capable, slow>>

RemoveProbeDirectory ==
  /\ probe = "removing"
  /\ \/ fate # "error" /\ UNCHANGED leftover
        /\ verdicts' = [k \in DOMAIN verdicts \cup {TheKey} |-> IF k = TheKey THEN fate ELSE verdicts[k]]
        /\ notices' = notices \cup ChangeWarnings \cup Verdict(fate)
        /\ location' = location + 1 /\ UNCHANGED validating
     \/ fate = "error" /\ StopProbing /\ UNCHANGED leftover
     \/ leftover' = TRUE /\ StopProbing
  /\ EndProbe /\ running' = "replica"
  /\ UNCHANGED <<files, hidden, writings, intrusions, altered, capable, slow>>

\* A location that is not judged, or whose key has a verdict.
PassLocation ==
  /\ validating = "executables" /\ probe = "none" /\ location \in Located
  /\ \/ ~Judged(location) /\ UNCHANGED notices
     \/ /\ Judged(location) /\ TheKey \in DOMAIN verdicts
        /\ notices' = notices \cup Verdict(verdicts[TheKey])
  /\ location' = location + 1
  /\ UNCHANGED <<validating, probe, running, fate, directoryVars, snapshotVars, verdicts, leftover,
                 capable, slow>>

EndLocations ==
  /\ validating = "executables" /\ probe = "none" /\ location \notin Located
  /\ validating' = "capabilities"
  /\ UNCHANGED <<location, probe, running, fate, directoryVars, snapshotVars, reportVars>>

\* A variable that is not set ends the probing before it begins.
CollectEnvironmentFindings ==
  /\ validating = "environment"
  /\ \/ validating' = "executables" /\ UNCHANGED notices
     \/ validating' = "capabilities" /\ notices' = notices \cup {[kind |-> "environment"]}
  /\ UNCHANGED <<location, probe, running, fate, directoryVars, snapshotVars, verdicts, leftover,
                 capable, slow>>

\* Mutant: every agent is asked.
ReportedAgentsNone == {}

\* The agents whose command is found wanting.
ReportedAgents ==
  {Where(i).agent : i \in {i \in Located : [kind |-> "parent-only", at |-> i] \in notices}}

\* The others are asked; one that fails is an error.
ProbeAgents ==
  /\ validating = "capabilities" /\ validating' = "done"
  /\ capable' = AgentsAt \ ReportedAgents
  /\ \E failing \in SUBSET capable' :
       notices' = notices \cup {[kind |-> "agent", name |-> a] : a \in failing}
  /\ UNCHANGED <<location, probe, running, fate, directoryVars, snapshotVars, verdicts, leftover, slow>>

\* Another program changes a file.
Intrude ==
  /\ validating = "executables" /\ probe # "none" /\ intrusions < MaxIntrusions
  /\ intrusions' = intrusions + 1
  /\ \E f \in ProbeFiles, x \in FileStates :
       /\ x # files[f] /\ files' = [files EXCEPT ![f] = x]
       /\ torn' = IF listing = {"unread"} THEN torn ELSE torn \cup {f}
  /\ UNCHANGED <<probeSteps, hidden, writings, snapshotVars, reportVars>>

ProbeNext ==
  \/ CollectEnvironmentFindings \/ BeginProbe \/ NoProbeDirectory \/ PassLocation \/ EndLocations
  \/ SnapshotFails \/ SnapshotLists \/ DirectorySnapshot \/ SnapshotSkipped
  \/ EnvironmentFails \/ RunProbe \/ RemoveProbeDirectory \/ ProbeAgents \/ Intrude

ProbeSpec == ProbeInit /\ [][ProbeNext]_probeVars

-----------------------------------------------------------------------------
Stopped == [kind |-> "prerequisite"] \in notices \/ [kind |-> "environment"] \in notices
Wanting(i) == [kind |-> "parent-only", at |-> i] \in notices
Finds(i, environment) == Needs[Where(i).executable] \subseteq environment

\* What validation says of the commands is true of each of them, although it probes only
\* one of those that share a key: an error names a command that runs in tevu's own
\* environment and lacks something in its case, every such command is named when no run
\* reached its limit and nothing failed, and the agent of one is not asked. No probe
\* directory stays behind silently (collectCaseExecutableFindings, probe).
\* What a run changed in the operator's directory, of what git can see, is told as it
\* happened, by two lists and the states of two files each, or it is told that nobody
\* can tell; but for a file that another program changes between list and state, and
\* for a probe that fails in the end (createDirectorySnapshotWatcher).
ProbesTellTheTruth ==
  /\ \A i \in Located : Wanting(i) =>
       Finds(i, ParentEnvironment) /\ ~Finds(i, ReplicaEnvironment(i))
  /\ validating = "done" /\ ~Stopped /\ ~slow =>
       \A i \in Located : Judged(i) =>
         (Wanting(i) <=> Finds(i, ParentEnvironment) /\ ~Finds(i, ReplicaEnvironment(i)))
  /\ \A i \in Located : Wanting(i) => Where(i).agent \notin capable
  /\ leftover => [kind |-> "prerequisite"] \in notices
  /\ \A n \in notices : n.kind = "changed" =>
       \E a \in altered : a.at = n.at /\ a.run = n.run /\ a.known
                          /\ \A f \in ProbeFiles \ a.torn : a.change[f] = n.change[f]
  /\ \A a \in altered : a.at < location =>
       IF a.known
       THEN \/ \A f \in ProbeFiles \ a.torn : a.change[f] = "none"
            \/ \E n \in notices : n.kind = "changed" /\ n.at = a.at /\ n.run = a.run
       ELSE [kind |-> "unchecked", at |-> a.at] \in notices
=============================================================================
