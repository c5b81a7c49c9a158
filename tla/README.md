# A formal model of tevu

tevu benchmarks coding agents. For every task of a config file it seals a git
workspace, lets an agent work in it, captures the agent's patch and session,
runs declared checks and an optional model-graded check, and leaves a run
directory with one result per case, a run record and a report. These TLA+
modules model the parts of it whose correctness depends on the order in which
things happen. Every definition is translated from the TypeScript under
`src/src`; `PROJECT.json` names the lines of each.

## The system

| component | state it keeps | operations | hard behaviour |
|---|---|---|---|
| run orchestration (`application/run-benchmark.ts`, `interface/commands/run.ts`) | results, findings, the cancelled and stop flags, one AbortController per case, the case's stage | one `tevu run`: preflight, start, case pipelines in a pool, finalize, report | interrupts, failing stores, cases side by side |
| managed processes (`adapters/process.ts`) | timers, the cause of termination, captures, the process group | one supervised child; redaction and capture of its streams | time limit, abort, exit, stream ends and survivors race; a secret split between chunks |
| artifact store (`adapters/artifact-store.ts`) | the run directory, append chains, the manifest queue, the assessment lock | start, append, write, finalize, read back | chained promises, atomic replacement, crashes, locks |
| assessment and report rebuild (`application/assess.ts`) | the records of a finished run | grade one case again, rewrite metrics and the report | two assessments of one run, partly failed rewrites |
| OpenCode adapter (`adapters/agents/opencode`) | what the output of one agent showed so far, two delivery chains | run, list models, probe, export | output order, a delivery that fails, what an ending means |
| git workspaces (`adapters/git.ts`) | the directory of a case | validate, seal, take the patch base, capture the patch, apply the check state, dispose | partial failure of a seal, what setup and agent left in the worktree |
| managed clones (`adapters/managed-clone.ts`) | a clone shared by tevu processes, a lock | clone, fetch commits, fetch Git LFS objects | locking between processes, stale locks, git running on after a kill |
| repository setup (`application/repository-setup.ts`) | none | run commands until one fails | abort against exit and time limit |
| checks and grading (`evaluation`, `application/grade-case.ts`) | verdicts so far | run checks, grade, reduce | silent stop on an abort |
| model roles (`model-call.ts`, `draft-criteria.ts`, `effort-check.ts`, `model-access.ts`, `write-conclusions.ts`) | a call's directories | call, retry, clean up | cleanup after each failure |
| configuration (`config`) | the config text | load, locate, append a task | text offsets |
| task creation (`create-task.ts`, `interface/task-wizard`) | the answers so far, the agent block, what the save read | ask, check, draft, propose a base, write once | lost update, a refused answer that leaves something behind |
| interactive wizard (`interface/task-wizard/wait.ts`, `exit-press.ts`) | raw mode, the exit window, a held interrupt | prompts and waits | Ctrl-C against the end of a wait |
| validation (`validate.ts`, the probes in `process.ts`) | verdicts by probe key, snapshots of the operator's directory | compare a base with its reference, probe commands, ask agents | a probe that changes files, results shared by key |
| trackers (`adapters/trackers`) | a pull request's pages | one request, or a paged list | the pull request moves between two pages |
| rendering, command line | none | pure functions | error mapping |

`runBenchmark` calls the store, git, the agent adapter, the setup runner and
the evaluation through injected ports and awaits each call; the adapter, the
setup runner, the checks and every model role run their commands through
`runManagedProcess`. The command's AbortSignal is the only thing shared from
outside: index.ts aborts it on SIGINT or SIGTERM and arms a forced exit.

## Modules

| module | what it is |
|---|---|
| `RunBenchmark` | the run and the pipelines of its cases |
| `RunBenchmarkProperties` | what a run must guarantee, and the mapping to the ledger; the module the runs check |
| `CaseLedger` | abstract specification: what a run promises about its planned cases |
| `RunBenchmarkProofs` | proofs for every number of cases, slots and checks: types and interrupts, what a run leaves behind, and that it implements the ledger |
| `ManagedProcess` | one call of `runManagedProcess`, with its properties |
| `ManagedProcessProofs` | proofs for every set of descendants |
| `Assessment` | `tevu assess`, `tevu report` and the rebuild that ends a run, on one shared run directory |
| `AssessmentMC` | small finished runs to check them on |
| `AssessmentProofs` | proofs for every number of cases, checks and commands: the lock, the commit, the rebuild |
| `GitWorkspace` | the directory of one case of a run |
| `GitWorkspaceProofs` | proofs for any trees, overlays and restored paths |
| `ManagedClone` | the clone of a GitHub repository, shared by commands |
| `ManagedCloneProofs` | proofs for any commands, revisions and deaths, and of `TaskBase` for any graphs of commits |
| `TaskAdd` | `tevu task add`: its waits, prompts and interrupts, and its one write |
| `TaskAddProofs` | proofs for any wizards and any number of edits, of `TaskInterview` for any repositories and answers, and of `ConfigDocument` for texts of any length |
| `TaskInterview` | `tevu task add`: what it asks and checks |
| `ConfigDocument` | the text a task is appended to |
| `TaskBase` | the reference solution of a task, the base proposed for it, its validation |
| `CaseExecutables` | the probe of the commands the cases will start |
| `SourcesMC` | `GitWorkspace` to `CaseExecutables`, one per behaviour, on small instances |
| `SourcesProofs` | proofs of `CaseExecutables` for every configuration, and of the seven components side by side |
| `ArtifactStore` | the run directory under failing and crashing writers |
| `ProcessEnding` | what `runManagedProcess` answers, as its callers tell the answers apart |
| `AgentSession` | the OpenCode adapter over one process |
| `ModelCalls` | the calls of the model roles and the directories they make |
| `EvidenceProofs` | proofs of the store, the session, the calls and the redaction, for any requests, crashes, lines, callers and secrets |
| `StreamRedaction` | what a stream lets through, and what is captured of it |
| `EvidenceMC` | the store, the session, the calls and the redaction, one per behaviour, on small instances |

### RunBenchmark

Node runs one callback at a time. A step is therefore one awaited call coming
back, together with all the synchronous code up to the next await: `pc[c]`
names the call case `c` awaits, and each action is named for that call or for
the function that awaits it. Everything the code decides in that stretch
belongs to the action: the look at the run's flags or at the case's own
controller, the announcement of a lifecycle, the record that is put together,
the evidence index of it. `local[c]` is what the pipeline hands from stage to
stage, `disk[c]` and `workspace[c]` are what is on disk, `abort[c]` is the
entry of `run.activeAborts`, and `results`, `findings`, `cancelled` and
`stopScheduling` are the fields of the `RunContext` of the same names.

Every call may fail, and calls under an aborted controller may end because of
it. A patch, a log, an event stream or a session is the name of a file; a check
is a verdict. p-limit's queue is in order, so `HasSlot` gives a free slot to
the first queued case. Which stages look at the run's flag, which at the case's
controller and which at neither differs in the code and is kept: it is what the
interrupt properties are about.

An append that fails aborts the case through the same controller an interrupt
uses (`AppendRecord`), and the ending of the agent is told from the flags in
the order the code reads them (`AgentEnds`).

### ManagedProcess

A step is one callback (`TimeoutFires`, `GraceEnds`, `SurvivorGraceEnds`,
`Abort`, `ExitSeen`, `EndSeen`), one awaited call coming back
(`OpenUnnamedCaptureFile`, `SettlePipe`, `AwaitGroup`, `GroupEmpties`,
`GiveUpOnGroup`, `DrainCaptureFile`), or a step of the processes: they fork,
die, close streams, and ignore SIGTERM as long as they like; a process that was
sent SIGKILL dies in its own time. `cut` is a history variable: the streams
that still had a writer in the group when the call signalled it. With
`Escapes` a descendant may leave the process group; no signal of the call
reaches it then.

The redaction of the streams and the byte limit of a capture are the module
`StreamRedaction`; `stdinText` and the times in the result are left out.

### Assessment

Here the concurrency is between operating system processes: each command is
started once, and all they share is the run directory. `assessment[c]`,
`results[c]`, `run`, `normalized`, `report`, `conclusions` and `summary` are its
files, `lock[c]` is the lock directory of a case, and the other variables belong
to one command each. A step is one awaited call on the directory with the code
after it. `pc[p]` follows `assessCase` (`ask` the wizard, take the `lock`,
`read` under it, `commit`, rebuild, `release`) and the calls of
`rebuildRunDerived`, which every command shares; a file is replaced atomically,
so each write is one step. Any call may fail, which is `GiveUp` inside the lock
(`releaseAndReturn`), `RefuseAssessment` before it and `Stop` without a lock,
and a process may die, inside the lock with the directory left behind
(`LeaveLock`). `RemoveStaleLock` is the manual step of the guide: an operator
removes the directory once no assess of the case runs.

`Overlap` says which commands are run at the same time. It is not an assumption
on the code, which lets any two commands overlap: it separates what holds when
only assessments of one case overlap, which the lock is for, from what holds
when anything overlaps. The proofs assume nothing about it.

A verdict keeps who gave it (`by`), because the history has to tell a replaced
verdict of one operator from that of another; times, notes and revisions' ids
are left out. The manifest, the checks, the grades and the session of a case are
never written after the run, so `Saved` and `Ended` are constants. Recomputing
the metrics from them is a function of what does not change and is left out.

### GitWorkspace

`stage` is the git or file call that a case awaits on its way through
`validateSource`, `createIsolatedCase`, `sealCase`, `snapshotPatchBase`,
`capturePatch`, `applyCheckState` and the disposal. A worktree is a map from
paths to what lies there: the pinned file, one of setup's or the agent's, the
overlay's, a directory, or a link out of the tree; `Trees` are the maps a file
system can hold. Setup and the agent make any change to the paths within their
reach, the ignore rules among them. Between the inspection of a source and the
sealing of a Git LFS object its bytes in the storage may change
(`StorageChanges`), because the code reads them twice. `ApplyCheckState` follows
the loops of restoring and overlaying path by path, as each of them makes and
clears directories for the next.

The directory is the case's own: every adapter works below a random
`tevu-workspaces` directory (`src/index.ts`), and a run plans a case once. So one
case is modelled, and its `mkdir` meets nothing. What others can still change
meanwhile is the source: its objects, its Git LFS storage.

### ManagedClone

Two commands that prepare the clones of their configurations. The lock is a
directory made by an exclusive `mkdir`; nobody waits for it, a command that
finds it gives up. `Kill` ends a command at any point; the git process it had
started may write on (`OrphanWrites`), its lock stays until the operator
removes it, and the operator may run the command again. Revisions are model
values; a fetch of `Hashes` asks for each and fails for one that is not there, a
fetch of names asks for all branches and tags (`Asked`). Looking may fail on what
is there: a clone that cannot be looked at (`rev-parse`, `realpath`) ends the
command, a revision whose lookup fails counts as unresolved and is fetched again.
Nobody reads the answer of the lookup after a fetch, so a command goes on without
a base commit that the fetch did not bring; `missing` is history and names these.

### TaskAdd, TaskInterview, ConfigDocument

`tevu task add` in three parts, which only share what they hand over. `TaskAdd`
is about time: a wizard is asking, waiting or saving; a signal is taken by the
open wait or held; a key counts as the second only within the window, whose
timer is one of the racing callbacks; the file is read and replaced without a
lock, while another wizard saves or the operator edits it. `TaskInterview` is
about answers: what a refused model, a changed repository or a drafted list
leaves in what will be saved. `ConfigDocument` is about text: the offset at
which a new item is spliced in, line by line, for every short text.

### TaskBase

Commits are numbered, parents before children, and a history maps each to its
parents. The reader asks GitHub for the pull request and its commits page by
page, while the pull request may be pushed to or its target move
(`MovePullRequest`); the base is proposed from what was read, the operator may
answer any commit, and validation compares the two with what the local
repository holds by then. `local` is either a repository of the operator or a
managed clone.

### CaseExecutables

The probe of each command: a replica of the case's environment first, tevu's own
second, a verdict shared by all commands with the same key. In the operator's
own directory two snapshots surround every run. A snapshot is a list, then the
state of each listed file: these are two steps, and another program may change
a file between them (`Intrude`).

### ArtifactStore, AgentSession, ProcessEnding

`ArtifactStore` is what two store instances, one after a crash of the other or
beside it, make of one directory. A request is queued in its chain and answered
when its own link ends; a replacement opens a temporary file, writes and syncs it
and renames it, and a crash or a failure may come between any two of these. The
directory is not synced; a crash of the models is one of tevu, after which what was
renamed stays renamed. A file holds the number of the request that wrote it. Requests are
numbered in the order they are made, so a chain of promises is the set of the
numbers that wait in it, and `First`, the least, is the link under way. `AgentSession` is
the consumer of one process' output: a decoder, a chain of deliveries for each
stream, and the reading of how the process ended, in the order of
`ProcessEnding`. `Modes` separates a run of a case, which stores its evidence,
from a model call, which returns it.

### ModelCalls

A call directory is made, prepared, shown to deny every tool, used once and
removed; every one of these steps may fail or be aborted. The four jobs are the
callers: grading repeats a call that is unfinished up to three times
(`GraderCallLimit`), conclusions are written task by task, drafting first checks
that the role's effort is offered, validation lists models and checks the denial.

### StreamRedaction

A byte is a model letter, of which one character takes two, so that a chunk may
end inside a character or inside a secret. The module redacts and captures chunk
by chunk as the code does; the reference masks the whole output at once. The two
agree where no secret of the set overlaps another (`Apart`), and only there: see
the limits of the code below. No
secret holds a character of the mask: every mask would contain a secret that is a
part of it, and the code would mask it again in the masks of the others.

## What the runs check

| run | instance | shows |
|---|---|---|
| `pipeline` | 2 cases, 2 slots, between them both setups, check state and grading, 2 checks; event streams never fail | `WorkspaceAccounted`, `NoInterruptLost`, `CancelReachesEveryCase`, `NothingStartsAfterCancel`, `EveryCaseAccounted`, `ExitCodeIsHonest` |
| `draining` | the same cases in 1 slot, with an event stream, fair | `CompletedIsWhole`, `CancelledMeansInterrupted`; `ImplementsLedger`: every step of the run is a step of `CaseLedger` or a stutter; `RunTerminates` |
| `absence` | 1 case | violated: `AbsenceIsRecorded` |
| `process` | a child, 2 descendants that may escape, pipe and file, fair | `FirstCauseStands`, `CutShortIsMarked`, `NoSurvivor`, `NothingLeftBehind`, `Returns` |
| `process_file` | stdout as a file | violated: `CancellationTerminates` |
| `assessing` | 2 cases, a manual and a graded check, two operators on case 1 at once, then a report and the end of the run alone | `LockAccounted`, `VerdictsKept`, `ReplacementChosen`, `EndsCurrent`, `ExitCodeKept` |
| `assessing_replaced` | two operators on one graded check | violated: `ConfirmedReplacement` |
| `assessing_stale` | two operators on two cases | violated: `DifferenceIsEvidence` |
| `recounted` | a cancelled run whose recorded cases all completed | violated: `ExitCodeKept` |
| `sources` | the seven components of `SourcesMC` | `SealedIsWhole`, `PatchIsAgentsWork`, `CheckStateExact` (workspace), `CloneSound` (clone), `ConfigKept`, `InterruptsHonoured` (task add), `InterviewSound`, `DocumentKept`, `BaseIsBeforeReference`, `ProbesTellTheTruth` |
| `evidence` | the four components of `EvidenceMC` | `AcknowledgedIsReadable` (store), `EvidenceIsOutput`, `OutcomeIsHonest` (session), `CallsAccounted`, `StreamRedactsWhole` |
| `appended` | every short text | violated: `EarlierItemsKept` |

`pipeline`, `process`, `assessing`, `sources` and `evidence` also check a type
invariant. `SourcesMC` and `EvidenceMC` put
components that share no state into one run: the first state chooses the
component of the behaviour, and the others rest in one state.

Bounds. Cases interact through the pool, the two run flags and the findings
only, so two cases show each interaction and a third adds none; one slot and
two slots differ in whether they overlap. `CompletedIsWhole` and
`CancelledMeansInterrupted` are about one case and the run's flags, so `draining`
checks them, where an event stream may fail and abort a case; `pipeline` leaves
the streams out so that all the interleavings of two slots stay in reach. Two checks are the first and the last
of a list. The optional phases are each on in one case and off in the other. A
child and two descendants are a parent, one that survives it, and one it forks
later. Two operators of one case are every interaction of the lock; a second
case, which nobody assesses, is there so that a rebuild loops and can stop
between cases. In `assessing` a dead command's half written files are met by the
next command, whichever it is. `seen` and `decision` make a check that was
pending for one operator and judged by the other, the case `ReplacementChosen`
is about. No bound cuts these modules off: all counters are bounded by the
constants, and the revision of an assessment by the number of commands, each
started once.

In `sources`: five paths are a directory with a pinned file and an ignored path,
and a Git LFS file that the overlay turns into a directory: the smallest tree in which a path's parent may be
a file, a link or missing, and in which one step of the check state makes or
removes what the next one needs. Setup reaches the ignored path, the agent all
(`SetupReach`, `AgentReach`). Two commands on a clone, one killed once
(`MaxDeaths`), are an owner, a contender and a lock nobody owns; a revision is
there, fetchable or gone. Two wizards and one edit (`MaxEdits`) race from both
sides of a save. Three local or GitHub places, two of them of one name, fill a
configuration of one entry (`MaxEntries`) so that a new one may clash in name or
place. Three lines below the last check of the last task and one below the last
repository (`MaxTaskLines`, `MaxTrailing`) put every kind of line before, between
and after the others. Five commits hold a fork, a merge into either side and a
second root; `ListLimit` 3 makes a list that GitHub truncates and pages of it,
and one move (`MaxMoves`) separates two pages. One write by the probed commands
and one by somebody else (`MaxWrites`, `MaxIntrusions`) meet in every order with
the four steps of two snapshots.

In `evidence`: two instances, five requests and one crash (`MaxRequests`,
`MaxCrashes`) are a start, a chain of two with a failed link, and a reader after
a restart. The instances are symmetric: nothing tells one from the other before
one of them wins the `mkdir`. Three lines and one note (`MaxLines`, `MaxNotes`) are a record before,
at and after one that cannot be stored, with the other stream's chain open. Two
tasks are the first and the last that conclusions are written of. Six bytes
(`MaxReceived`) hold two overlapping secrets of the families with a byte on
either side, in every split; four captured bytes cut them anywhere.

The sets of secrets of `StreamRedactsWhole` hold pairs that overlap as well. Of
them its other clauses are checked: no secret comes out whole, the text held
back is short, and the capture is the longest prefix.

Terminal states have no successors, so deadlock is not checked; `RunTerminates`
and `Returns` check that nothing else stops a run or a call.

Fairness. `RunBenchmark` assumes that awaited calls come back: git, setup
commands, checks and the agent run with time limits of their own, and file
calls return. No fairness is assumed for an interrupt and none for the forced
exit. `ManagedProcess` assumes that timers fire, awaited calls return and a
killed process dies; no process has to end by itself. A descendant that leaves
the process group and keeps a pipe open is out of reach of all of these, and the
code awaits it without a limit: `Returns` excepts such a call. The other modules state
safety only: what they wait for is a person or one of these two.

### Disagreements met

* `absence`: an event is counted before it is appended, and the index of the
  result is built from the counts. When the first append fails, the index names
  a file that does not exist, while `docs/reference/artifacts.md` says that
  absence is recorded. `tevu report` cannot read such a case back.
* `process_file`: with stdout as a file, an abort that arrives while the
  capture file is prepared is never heard, although the comments say that
  cancellation terminates the group: the signal is looked at before that await
  and the listener registered after it.
* `assessing_replaced`: the wizard reads the verdicts before the lock is taken,
  and the validation under the lock only compares whether there is a verdict,
  not which. A verdict recorded in between is replaced by an operator who was
  shown another one, while `docs/reference/cli.md` says that replacing an
  existing verdict requires confirmation. It is kept in the history
  (`VerdictsKept`).
* `assessing_stale`: the lock is a case's, the rebuild rewrites the records of
  the whole run. Two assessments of two cases both succeed and leave a report
  without one of the verdicts, so that a report regenerated later differs with
  no change of the evidence, against
  `docs/concepts/evidence-and-reports.md`.
* `recounted`: a rebuild reduces the exit code as if the run had not been
  cancelled. It finds the cancellation again from a case that was cancelled, but
  a run may be cancelled without one: its 130 becomes 0, although the rule is
  said to be shared by the run and the regeneration.
* `appended`: the search for the end of a list stops at the first line that is
  not indented deeper than the dash, also at a comment in the middle of the last
  task. The new task is put there and takes over the lines that follow; when the
  text still satisfies the schema it is written, although
  `docs/reference/configuration.md` says that everything there stays.

Limits of the code that the models show and the properties except, by name:

* `createTask` says that a configuration that appeared after the wizard started
  is never overwritten. It looks for the file once more before it writes, and a
  write between that look and the replacement is lost: `ConfigKept` excepts what
  was `raced` and nothing else.
* `callModelRole` says that a failed removal after the call directory exists is
  reported. A directory whose preparation fails is removed silently
  (`createModelCallEnvironment`), and stays unreported when that fails too:
  `CallsAccounted` excepts the `partial` ones.
* `createStreamingRedactor` says that it is safe for chunked streams. When one
  secret is the start of another, or overlaps it, and a chunk ends between them,
  the shorter is masked at once, and the rest of the longer, which no longer
  begins like a secret, is let through with the next chunk. With both in one chunk
  the longer is masked first, and whole. `StreamRedactsWhole` claims equality with
  that only under `Apart`.
* A descendant outside the process group that holds a pipe keeps
  `runManagedProcess` waiting: neither the time limit nor an abort reaches it.
  `Returns` excepts the `escaped`.
* Two wizards that derive an identifier from the same file derive the same one;
  the second save then finds the clash or, in the window above, replaces the
  first.
* `capturePatch` returns its failures, but the removal of a leftover index file
  may throw out of it, and nothing up to `runBenchmark` catches that. The models
  have the returned failures only.
* A probe's warning tells what git lists. A file that a probed command makes
  visible by changing the ignore rules is told as added. When the probe directory
  cannot be removed, what the probe changed is not told.
* A closed pull request's target may hold its commits already; the proposal is
  then only warned of.

## What is proved

TLAPS checks these for every value of the constants under the assumption that
the module of each component states and TLC evaluates in the runs
(`RunAssumption`, `ProcessAssumption`, `AssessmentAssumption`,
`WorkspaceAssumption`, `CloneAssumption`, `TaskAddAssumption`,
`InterviewAssumption`, `TaskBaseAssumption`, `ProbeAssumption`,
`StoreAssumption`, `SessionAssumption`, `CallsAssumption`, `RedactionAssumption`,
`DocumentAssumption`).
They say what the constants are: that the wizards and the secrets are finitely many,
that no secret holds a character of the mask, that a path's leading
directories are its parents in order, that a commit's parents come before it,
that no file is called what stands for a missing list. Each inductive invariant
was checked by TLC first, but for `DocumentIs`, which speaks of texts of any length.

`RunBenchmarkProofs`. `TypeCorrect` needs one thing more than the types: a
check is only evaluated while one is left (`CheckCount`). The interrupt
theorems share `InterruptInv`. `CancelReachesEveryCase` is inductive with the
fact that a controller is only live in an uncancelled run, which rests on
`CreateCaseEnvironments` aborting by hand the one it registers too late;
`NoInterruptLost` needs that the signal and the flag agree once the listener is
there; `CancelledMeansInterrupted` needs that an ending that is under way as
cancelled (`Guarded`) belongs to a cancelled run; and `NothingStarts` is the
action property from the same invariant: at every call site that starts
something, the flag or the fired controller is seen first (`Quiet`).

The same module proves what a run leaves behind. `EvidenceInv` adds to the above what
is on disk at each call: what the pipeline object claims was saved, except what a failed append
lost, which nobody claims once the agent is over (`Backed`); a record claims only
what was saved, and a completed one is whole (`RecordWhole`). The loop over the
checks ends early only in a cancelled run, and the look at the flag after
checks.json is written sees that; so `CompletedRecordsAreWhole` rests on the
interrupt invariant. `Accounted` follows a case to its end: a result on disk or a
finding of it, and a workspace that stays only with a finding. `RunWhole` says what the exit code means from the
moment it is computed, when no case can change any more (`ReducedExitCode`). From
these, `WorkspacesAccounted`, `CasesAccounted` and `ExitCodeHonest`.
`RunImplementsLedger` is the refinement: every step of one case changes the
ledger's status of that case alone (`StatusOfOthers`) and is a step of the ledger
or a stutter.

`ManagedProcessProofs`. `IInv` has two halves. `CallInv` follows the call:
nothing is armed before the launch, polling and draining happen with a file
only, and the last await has nothing but the file left; it gives `TypeCorrect`
and `LeavesNothingBehind`. `GroupInv` follows the processes: a stream whose
end was seen has no writer in the group (`Captured`), so a signal marks every
stream it may cut; the final SIGKILL does not mark, and it needs no mark
because with a pipe both streams have ended and with a file the survivors were
sent SIGKILL before. It gives `NoCutCapturePasses` and `NobodySurvives`, also
with descendants that escape. `CauseIsFinal` follows from the actions alone.

`AssessmentProofs`. `IInv` is the types with the fact that a rebuild stores
what it has read, `LockAccounted`, and what a command may rely on between two
steps: a wizard decides only about checks it may assess, and what is about to be
committed was built from the assessment as it still is (`CommitReady`). The last
is the heart of it: no other command can commit to the same case meanwhile,
because both would hold its lock (`OneAssessor`), so reading and committing are
one step as far as the file is concerned. `NoVerdictLost` and
`NoUnaskedReplacement` then follow from what one call of `BuildNextAssessment`
does to the assessment it was given (`NextKeepsVerdicts`, `NextReplacesChosen`).
They hold for any overlap of commands.

Two theorems about the rebuild have a hypothesis on the constants, and the runs
show that neither can be dropped. `ExitCodeStays` wants a cancelled run to have a
cancelled case (`CancellationShows`; the run `recounted` has none): until
somebody commits, a rebuild reads nothing but missing files (`RecountIsSame`),
and whoever commits leaves a revision, so the state never comes back.
`SuccessIsCurrent` wants that nothing but assessments of one case overlaps
(`OnlyOneCaseOverlaps`; in `assessing_stale` two cases do, and the last to
succeed leaves a stale report): then the commands under way share one lock
(`OneCaseShared`), so one command writes at a time (`OneCommandWrites`), and what
its rebuild has read and written so far is what the saved assessments give
(`Current`), to the last file.

`GitWorkspaceProofs`. `WorkspaceInv` follows the case through its stages: `RepoAt`
is what the sealed repository holds at each, and the objects of the pointers are good
from the moment they are written, although the storage they come from may change
(`SealFits`); it gives `SealedCaseIsWhole`. Nobody touches the index before setup
(`StartsUntouched`), and the base of the patch lacks at most what the rules of the
pinned tree match (`BaseFits`), so the patch is the agent's work (`PatchIsTheAgents`).
The check state is the longest argument. Restoring and overlaying are one
algorithm over two plans: between two paths the worktree is what the phase
started from with the finished paths laid over it (`Between`, `Laid`), and in the
middle of a path its leading directories are real up to where it stands and the
next may be cleared already (`Entry`); what was removed is what is lost since the
start, but for a file that its own path replaces (`Replaced`). That a path
reaches nothing outside the tree follows (`CheckStateIsExact`): a directory is real before the next
step passes it.

`ManagedCloneProofs`. The lock gives `OneWriter` only. What a command promises
when it succeeds rests on more, because most of what it knows it read without the
lock: a clone that is whole stays and nothing in it ever goes (`Grows`), so what
was seen there is there; and a command is past a phase only with what that phase
is for: past the base commits, each of them is there or one the fetch did not bring, and
none that the clone was made with is of these (`Provided`). A clean-up is on the way to an end it
has decided (`Heading`).

The same module proves the base of a task (`BaseComesBefore`). The pages that were
read are of a head and a target the pull request had, unless it moved, which the
second read of its head shows (`PageFits`, `ReferenceFits`): two lists of equal
length of which one holds the other are one list. A proposal without a warning
holds nothing of the solution (`ProposalFits`), and validation compares with
what was there when it looked (`ComparisonFits`, `ValidFits`). The past of a
commit is a recursive function over its parents, and is unfolded by taking the
least commit that a claim fails for.

`EvidenceProofs`. `StoreInv`, of the store, has three parts. One instance alone starts,
finalizes and appends (`OneRunner`), because only one ever wins the `mkdir`, and
until it has, nobody is active (`StartsFirst`). In a chain only the first link
is under way, and what was answered is before it (`WritesFit`, `ChainsInOrder`).
A file holds the whole of a version that was renamed into place
(`FilesWhole`), so a crash leaves the old or the new one, and an acknowledged
manifest is replaced only by a later one or by another instance's
(`ResultStands`); a stream grows in order and ahead of its queue. A crash empties chains and takes away no file.

`SessionInv`, of the session: what waits in a chain is the end of what was
printed (`WaitingFit`), what is stored is the start of what was dealt with, and
all of it until something was refused (`StoredFit`, `NotedFit`); the session is
that of the first record (`SessionFits`), and a flag that is down says of every
line so far that it was not of that kind (`FailureFits`). `EvidenceIsTheOutput` and
`SessionOutcomeIsHonest` follow when the ending is told from the flags in their order
(`SettledFits`). The lines kept are an own recursive function, and what holds of
the kept ones is shown by the least number of lines it could fail for. `CallsInv`, of
the calls: the directories on disk are the retained ones, the one in use and
those whose preparation failed (`DirsFit`); a model is called once in a
directory that was shown to deny every tool, and once for each record
(`CalledFits`), and each caller is within its limit (`CallerFits`).

`RedactionInv`, of the redaction, says of what is held back that it begins a
secret and that no secret is in what was given away and it (`Held`), that it is the
longest such end (`Longest`), and that, whatever bytes follow, what was given away
is the start of what the whole would come out as (`Decides`); the capture is the
longest prefix that fits (`Captured`). Under it lies a theory of masked text. One
mask is shown by the shortest text that a claim fails for: a secret that is in a
masked text was there before (`MaskCleans`), because none holds a letter of the
mask; what a masked text ends with, up to the mask, the text ended with
(`MaskBack`); and two texts that agree but for a held end are masked alike up to it
(`MaskSplits`). For the masks in a row the induction is over the number of the
secret: what a later mask could do to an end that an earlier secret may begin with
is an overlap of the two (`PassesKeepBeginning`), which is where `Apart` is needed, and
with that all masks agree up to the held end (`RedactSplits`). So
`StreamIsRedactedWhole`. The list of the secrets is the choice of a sorted one, and
any finite set of texts has one (`SortedExists`). `EvidenceTypeCorrect` is about
the four components as the run `evidence` puts them side by side (`SideBySide`).

`TaskAddProofs`. `AddInv` has two halves. `TalkInv` follows the interrupts: one
that is not answered is held by the signal or by the wait that took it
(`OwedFits`), and the window of a second press is open exactly with its timer
(`KeysFit`). `FileInv` follows the one file without a lock: what a save does not
know of it was written by others since the read (`SeesAll`), every task there
ever was is still there or lost to a named wizard (`EverFits`), and no two tasks
share a number. That a free number exists at all, however the file was edited,
is counted: there are at most as many tasks as wizards and edits; and the code
takes the least free one, which exists because the numbers up to a bound are
finite.

The same module proves the interview (`InterviewIsSound`): what is handed on is
what was checked, although a refused answer leads back to a question. Each
part of the invariant is about one thing an earlier answer may leave behind:
the repositories, whose identifiers and places differ (`RepositoriesFit`), the
entry that is new or refused (`EntryFits`), the clone that was prepared and the
base inspected in it (`CloneFits`, `InspectionFits`), the agent block with the
variables of the models accepted so far (`BlockFits`) and the checks (`ChecksFit`).
A free identifier exists because there are more candidates than entries.

And it proves what `task add` makes of a text (`DocumentIsKept`), for any number of
lines below the items (`MaxTaskLines`, `MaxTrailing`) and either order of the lists.
`DocumentInv` says that the text is two lists one behind the other, the first item
known by its dash (`TextOf`, `TwoLists`), and that what was put together is
`SpliceItems` of it. The rest is a theory of such texts. Where a list begins and
ends, which lines are its dashes and where its items lie is read from the positions
of its lines; what the lines of some kinds in a text are, which is a recursive
function of its length, splits where the text is split (`OfKindsJoins`, by the least
length it would fail for). A list that an item is spliced into is the list up to the
offset, the item, and the rest, in which no content is left when its last item is
undivided (`Grown`): so it has one item more, each earlier one is what it was, and
no remark moves. Splicing at the later offset first leaves the earlier one true,
whichever list comes first, so both splices together grow both lists (`SpliceItemsIs`).

`SourcesProofs`. `ProbeInv`, of the probe (`ProbesAreTrue`), follows the one probe
under way. Its verdict is right of the location it was made for
(`FateFits`), and so of every location with its key, because the key holds all
that decides it (`KeyShares`, `VerdictsFit`); a location that was passed is
named when it lacks something, unless a run reached its limit (`FindingsFit`). Of
the files: a list that is read and not yet used is right about what has not
changed since (`ListingFits`), so the snapshot made with it is right about all
files but the `torn` ones (`SnapshotFits`), and what two such snapshots make of
a file by their lists and states is what happened to it (`ChangeIs`: every
combination of tracked, hidden, listed and edited). A run's change is told, or
that nobody can tell (`ObservedFits`, `ToldFits`). The commands are three lists
put in a row (`CaseExecutableLocations`); that they are a list is `FlattenIsList`.

The same module puts the seven components side by side, as `SourcesMC` does: a
behaviour of `SourcesSpec` is one of each component (`SourcesSideBySide`), but for
the text of the configuration, which rests as no text at all (`DocumentAside`). So
all that the run `sources` checks holds of its behaviours for every value of the
constants (`SourcesTypeCorrect`, `SourcesAreSound`).

Only model-checked: liveness (`RunTerminates`, `Returns`), because fairness and
ENABLED are beyond this prover; and the six violations, which are counterexamples.

## Not modelled

* Formatting of records and reports, the metrics arithmetic, prices and token
  counts, argument parsing, help, and the wording of errors: pure functions of
  data, which unit tests reach.
* The schema of the configuration: declarative. Which texts it accepts is
  modelled as far as an appended task can change it.
* The refusal of a GitHub repository when the operator has no directory for managed
  clones (`missingManagedCloneRootFindings`): `TaskInterview` has an operator with
  one. The list of variables that are not secret, which is answered once
  and never changed; a name on it is not declared as a secret.
* The prompts of the model roles and the parsing of their replies: a reply is
  accepted, refused or unfinished.
* The environments of processes, variable by variable, except in
  `CaseExecutables`, where a variable decides. The agent's configuration files.
* Issue trackers other than the pull request reader: one request whose failures
  are mapped to wording.
* git's index: `CaseExecutables` takes a file's state for what `git status`
  compares. The read-only git queries of validation and report.
* `TaskBase` takes an answered base for a full hash; abbreviations and names are
  resolved when they are entered.
* The release and documentation scripts.

## Plan

The components of the table are modelled, and every safety property that a
run checks and finds to hold is proved, two of them under a hypothesis that the
runs show to be needed. What is left:

1. `ConfigDocument`: an item that is spliced in behind the content of the last
   one leaves the items before it as they were.
2. The variables of a process' environment, one by one, and the metrics.
