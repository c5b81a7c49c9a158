------------------------------ MODULE Assessment ------------------------------
(***************************************************************************)
(* The commands that work on a finished run: `tevu assess` records an      *)
(* operator's verdicts for one case, `tevu report` rebuilds what is        *)
(* derived, and `tevu run` itself rebuilds once its cases are over. Every  *)
(* command is a process of its own; all they share is the run's directory. *)
(* A step is one awaited call on that directory with the code that follows *)
(* it, so any other command may read or write between two of its steps.    *)
(* Each call may fail and each command may be killed. What a rebuild reads *)
(* besides the assessments (manifest, checks.json, grading.json, events,   *)
(* session export) is never written after the run and is a constant here.  *)
(***************************************************************************)
EXTENDS Integers, FiniteSets

CONSTANTS
  NumCases,    \* cases recorded in run.json, 1..NumCases
  Checks,      \* check names
  Assessable,  \* Assessable[c]: the manual and graded checks of case c
  Required,    \* the checks that decide a case's outcome
  Saved,       \* Saved[c][k]: verdict of checks.json with grading.json applied
  Ended,       \* Ended[c]: lifecycle case c ended with
  Faulty,      \* cases whose result preserves a failure
  Erroneous,   \* whether run.json holds a finding of severity error
  Interrupted, \* whether the run was cancelled
  Assessors,   \* `tevu assess` commands, each started at most once
  Target,      \* Target[p]: the case of assess command p
  Reporters,   \* `tevu report` commands, each started at most once
  Runs,        \* the `tevu run` command, when it still has to rebuild
  Overlap      \* pairs of commands the operator runs at the same time

Cases == 1..NumCases
Commands == Assessors \cup Reporters \cup Runs
Lifecycles == {"completed", "timed-out", "cancelled", "process-failed", "infrastructure-failed"}

ASSUME AssessmentAssumption ==
  /\ NumCases \in Nat \ {0}
  /\ Assessable \in [Cases -> SUBSET Checks]
  /\ Required \subseteq Checks
  /\ Saved \in [Cases -> [Checks -> {"passed", "failed", "pending"}]]
  /\ Ended \in [Cases -> Lifecycles]
  /\ Faulty \subseteq Cases
  /\ Erroneous \in BOOLEAN /\ Interrupted \in BOOLEAN
  /\ Target \in [Assessors -> Cases]
  /\ Assessors \cap (Reporters \cup Runs) = {} /\ Reporters \cap Runs = {}
  /\ "grader" \notin Assessors
  /\ Overlap \subseteq Commands \X Commands
  /\ Interrupted => Runs = {}   \* a cancelled run prints its hint and does not rebuild

VARIABLES
  assessment,  \* assessment.json of each case; revision 0 is no file
  results,     \* result.json of each case, its derived fields
  run,         \* run.json, its derived fields
  normalized,  \* the run's result.json
  report,      \* report.md
  conclusions, \* conclusions.json
  summary,     \* summary.md
  lock,        \* whether the lock directory of each case exists
  pc,          \* the call each command awaits
  seen,        \* the current verdicts each wizard showed
  decision,    \* the verdicts each wizard collected
  next,        \* the revision each assess is about to commit
  at,          \* the case each rebuild is at
  collected,   \* the assessments each rebuild read
  saved        \* the conclusions each rebuild read

assessVars == <<seen, decision, next>>
rebuildVars == <<at, collected, saved>>
derivedVars == <<results, run, normalized, report, conclusions, summary>>
vars == <<assessment, derivedVars, lock, pc, assessVars, rebuildVars>>

-----------------------------------------------------------------------------
(* The artifacts.                                                          *)

NoRecord == [verdict |-> "none", by |-> "nobody"]
Records == [verdict : {"passed", "failed"}, by : Assessors]
Entries == [check : Checks, verdict : {"passed", "failed"}, by : Assessors \cup {"grader"},
            replacedBy : Assessors]
Artifacts == [revision : Nat, current : [Checks -> Records \cup {NoRecord}],
              history : SUBSET Entries]
NoArtifact == [revision |-> 0, current |-> [k \in Checks |-> NoRecord], history |-> {}]
NoFile == [file |-> "absent"]

\* The verdict a check shows: the operator's current record, else what was saved.
Shown(c, k, current) ==
  IF current[k] # NoRecord THEN current[k] ELSE [verdict |-> Saved[c][k], by |-> "grader"]

CurrentVerdicts(c, artifact) == [k \in Checks |-> Shown(c, k, artifact.current)]

ReduceRequiredOutcome(verdicts) ==
  IF \E k \in Required : verdicts[k].verdict = "failed" THEN "failed"
  ELSE IF \A k \in Required : verdicts[k].verdict = "passed" THEN "passed" ELSE "pending"

CaseResults == [checks : [Checks -> [verdict : {"passed", "failed", "pending"},
                                     by : Assessors \cup {"grader"}]],
                outcome : {"passed", "failed", "pending", "not-evaluated"}, assessed : BOOLEAN]
CaseResult(c, artifact) ==
  [checks   |-> CurrentVerdicts(c, artifact),
   outcome  |-> IF Ended[c] = "completed"
                THEN ReduceRequiredOutcome(CurrentVerdicts(c, artifact)) ELSE "not-evaluated",
   assessed |-> artifact.revision > 0]

ReduceRunExitCode(cases, error, cancelled) ==
  IF cancelled \/ \E c \in Cases : Ended[c] = "cancelled" THEN 130
  ELSE IF error \/ \E c \in Cases : Ended[c] = "infrastructure-failed" THEN 1
  ELSE IF \E c \in Cases : \/ Ended[c] \in {"timed-out", "process-failed"}
                           \/ cases[c].outcome \in {"failed", "pending"}
                           \/ c \in Faulty
       THEN 2 ELSE 0

RunResult(artifacts, cancelled) ==
  LET cases == [c \in Cases |-> CaseResult(c, artifacts[c])]
  IN  [cases |-> cases, exitCode |-> ReduceRunExitCode(cases, Erroneous, cancelled)]

NormalizedRun(artifacts) == [run |-> RunResult(artifacts, FALSE), assessments |-> artifacts]
Report(artifacts, written) == [run |-> RunResult(artifacts, FALSE), conclusions |-> written]

Facts(artifacts) == [c \in Cases |-> CaseResult(c, artifacts[c]).outcome]
Conclusions(artifacts) == [facts |-> Facts(artifacts), sentences |-> "saved"]
Summary(artifacts, written) ==
  IF written # NoFile THEN written ELSE [facts |-> Facts(artifacts), sentences |-> "template"]

\* What the run left behind: no assessment, and the exit code it returned.
Unassessed == [c \in Cases |-> NoArtifact]
Recorded == RunResult(Unassessed, Interrupted)

-----------------------------------------------------------------------------
Rebuilding == {"collect", "store", "finalize", "conclusions", "result", "report", "summary"}
Holding == {"read", "commit", "release", "give-up"} \cup Rebuilding
Over == {"ok", "error", "lock-left"}

Live(p) == pc[p] \notin Over \cup {"idle"}
Holders(c) == {p \in Assessors : Target[p] = c /\ (pc[p] \in Holding \/ pc[p] = "lock-left")}

Undecided == [k \in Checks |-> "none"]
NothingCollected == [c \in Cases |-> NoFile]

\* The one type invariant: every artifact and every command is in a state the code can reach.
TypeOK ==
  /\ assessment \in [Cases -> Artifacts]
  /\ results \in [Cases -> CaseResults]
  /\ run.exitCode \in {0, 1, 2, 130}
  /\ lock \in [Cases -> BOOLEAN]
  /\ pc \in [Commands -> {"idle", "ask", "lock"} \cup Holding \cup Over]
  /\ seen \in [Assessors -> [Checks -> Records \cup {NoRecord}]]
  /\ decision \in [Assessors -> [Checks -> {"none", "passed", "failed"}]]
  /\ next \in [Assessors -> Artifacts]
  /\ at \in [Commands -> Cases]
  /\ collected \in [Commands -> [Cases -> Artifacts \cup {NoFile}]]

Init ==
  /\ assessment = Unassessed
  /\ results = [c \in Cases |-> CaseResult(c, NoArtifact)]
  /\ run = Recorded
  /\ normalized = NoFile /\ report = NoFile /\ conclusions = NoFile /\ summary = NoFile
  /\ lock = [c \in Cases |-> FALSE]
  /\ pc = [p \in Commands |-> IF p \in Runs THEN "collect" ELSE "idle"]
  /\ seen = [p \in Assessors |-> NoArtifact.current]
  /\ decision = [p \in Assessors |-> Undecided]
  /\ next = [p \in Assessors |-> NoArtifact]
  /\ at = [p \in Commands |-> 1]
  /\ collected = [p \in Commands |-> NothingCollected]
  /\ saved = [p \in Commands |-> NoFile]

Goto(p, call) == pc' = [pc EXCEPT ![p] = call]

\* A command that ends forgets what it carried.
End(p, how) ==
  /\ Goto(p, how)
  /\ seen' = [q \in Assessors |-> IF q = p THEN NoArtifact.current ELSE seen[q]]
  /\ decision' = [q \in Assessors |-> IF q = p THEN Undecided ELSE decision[q]]
  /\ next' = [q \in Assessors |-> IF q = p THEN NoArtifact ELSE next[q]]
  /\ at' = [at EXCEPT ![p] = 1]
  /\ collected' = [collected EXCEPT ![p] = NothingCollected]
  /\ saved' = [saved EXCEPT ![p] = NoFile]

Refused(p) == End(p, "error") /\ UNCHANGED <<assessment, derivedVars, lock>>

-----------------------------------------------------------------------------
(* tevu assess: the wizard, then assessCase.                               *)

MayStart(p) == pc[p] = "idle" /\ \A q \in Commands : Live(q) => <<p, q>> \in Overlap

ReadAssessmentContext(p) ==
  /\ MayStart(p)
  /\ Assessable[Target[p]] # {}
  /\ seen' = [seen EXCEPT ![p] = assessment[Target[p]].current]
  /\ Goto(p, "ask")
  /\ UNCHANGED <<assessment, derivedVars, lock, decision, next, rebuildVars>>

\* The checks that show no verdict need one; replacing a shown verdict is confirmed.
RunAssessmentWizard(p) ==
  /\ pc[p] = "ask"
  /\ Ended[Target[p]] = "completed"
  /\ \E answers \in [Checks -> {"none", "passed", "failed"}] :
       /\ \A k \in Checks \ Assessable[Target[p]] : answers[k] = "none"
       /\ \A k \in Assessable[Target[p]] :
            Shown(Target[p], k, seen[p]).verdict = "pending" => answers[k] # "none"
       /\ decision' = [decision EXCEPT ![p] = answers]
  /\ Goto(p, "lock")
  /\ UNCHANGED <<assessment, derivedVars, lock, seen, next, rebuildVars>>

\* Mutant: mkdir made recursive, so that an existing lock directory is no error.
AcquireLockRecursive(p) ==
  /\ pc[p] = "lock"
  /\ lock' = [lock EXCEPT ![Target[p]] = TRUE]
  /\ Goto(p, "read")
  /\ UNCHANGED <<assessment, derivedVars, assessVars, rebuildVars>>

AcquireAssessmentLock(p) ==
  /\ pc[p] = "lock" /\ ~lock[Target[p]]
  /\ lock' = [lock EXCEPT ![Target[p]] = TRUE]
  /\ Goto(p, "read")
  /\ UNCHANGED <<assessment, derivedVars, assessVars, rebuildVars>>

\* Nothing assessable, a cancelled wizard, a case that did not complete, a lock
\* that exists, or a call that fails, before the command holds the lock.
RefuseAssessment(p) ==
  /\ pc[p] \in {"ask", "lock"} \/ MayStart(p)
  /\ Refused(p)

\* The wizard asked to replace exactly the checks it saw a verdict for.
ReplaceExisting(p, k) == Shown(Target[p], k, seen[p]).verdict # "pending"

\* Mutant: a decision on a check that got a verdict meanwhile is accepted.
ValidateWithoutReplaceRule(p, current) ==
  /\ \E k \in Checks : decision[p][k] # "none"
  /\ \A k \in Assessable[Target[p]] :
       decision[p][k] = "none" => Shown(Target[p], k, current).verdict # "pending"

ValidateAssessmentInput(p, current) ==
  /\ \E k \in Checks : decision[p][k] # "none"
  /\ \A k \in Assessable[Target[p]] :
       LET existing == Shown(Target[p], k, current).verdict # "pending"
       IN  IF decision[p][k] = "none" THEN existing ELSE existing = ReplaceExisting(p, k)

\* Mutant: the grader's verdict is looked up before the operator's record.
BuildNextGradeFirst(p, existing) ==
  LET decided == {k \in Checks : decision[p][k] # "none"}
      prior(k) == IF Saved[Target[p]][k] # "pending"
                  THEN [verdict |-> Saved[Target[p]][k], by |-> "grader"]
                  ELSE Shown(Target[p], k, existing.current)
  IN  [revision |-> existing.revision + 1,
       current  |-> [k \in Checks |-> IF k \in decided
                                      THEN [verdict |-> decision[p][k], by |-> p]
                                      ELSE existing.current[k]],
       history  |-> existing.history \cup
                    {[check |-> k, verdict |-> prior(k).verdict, by |-> prior(k).by,
                      replacedBy |-> p] : k \in {d \in decided : prior(d).verdict # "pending"}}]

BuildNextAssessment(p, existing) ==
  LET decided == {k \in Checks : decision[p][k] # "none"}
      prior(k) == Shown(Target[p], k, existing.current)
  IN  [revision |-> existing.revision + 1,
       current  |-> [k \in Checks |-> IF k \in decided
                                      THEN [verdict |-> decision[p][k], by |-> p]
                                      ELSE existing.current[k]],
       history  |-> existing.history \cup
                    {[check |-> k, verdict |-> prior(k).verdict, by |-> prior(k).by,
                      replacedBy |-> p] : k \in {d \in decided : prior(d).verdict # "pending"}}]

ReadAssessment(p) ==
  /\ pc[p] = "read"
  /\ ValidateAssessmentInput(p, assessment[Target[p]].current)
  /\ next' = [next EXCEPT ![p] = BuildNextAssessment(p, assessment[Target[p]])]
  /\ Goto(p, "commit")
  /\ UNCHANGED <<assessment, derivedVars, lock, seen, decision, rebuildVars>>

\* Mutant: the lock is released at the commit, before the rebuild.
ReplaceAndRelease(p) ==
  /\ pc[p] = "commit"
  /\ assessment' = [assessment EXCEPT ![Target[p]] = next[p]]
  /\ lock' = [lock EXCEPT ![Target[p]] = FALSE]
  /\ Goto(p, "collect")
  /\ UNCHANGED <<derivedVars, assessVars, rebuildVars>>

ReplaceAssessment(p) ==
  /\ pc[p] = "commit"
  /\ assessment' = [assessment EXCEPT ![Target[p]] = next[p]]
  /\ Goto(p, "collect")
  /\ UNCHANGED <<derivedVars, lock, assessVars, rebuildVars>>

\* Findings, a cancellation seen before the commit, or a call that fails:
\* releaseAndReturn, or the release after a rebuild that failed.
GiveUp(p) ==
  /\ p \in Assessors /\ pc[p] \in {"read", "commit"} \cup Rebuilding
  /\ Goto(p, "give-up")
  /\ UNCHANGED <<assessment, derivedVars, lock, assessVars, rebuildVars>>

Release(p) ==
  /\ pc[p] \in {"release", "give-up"}
  /\ lock' = [lock EXCEPT ![Target[p]] = FALSE]
  /\ End(p, IF pc[p] = "release" THEN "ok" ELSE "error")
  /\ UNCHANGED <<assessment, derivedVars>>

\* rmdir fails, or the process dies inside the lock.
LeaveLock(p) ==
  /\ p \in Assessors /\ pc[p] \in Holding
  /\ End(p, "lock-left")
  /\ UNCHANGED <<assessment, derivedVars, lock>>

\* The guide's manual step: no assess of the case runs, and the directory goes.
RemoveStaleLock(c) ==
  /\ lock[c]
  /\ \A p \in Assessors : Target[p] = c => ~Live(p)
  /\ lock' = [lock EXCEPT ![c] = FALSE]
  /\ pc' = [p \in Commands |-> IF p \in Holders(c) THEN "error" ELSE pc[p]]
  /\ UNCHANGED <<assessment, derivedVars, assessVars, rebuildVars>>

-----------------------------------------------------------------------------
(* rebuildRunDerived, for every command.                                   *)

StartReport(p) ==
  /\ p \in Reporters /\ MayStart(p)
  /\ Goto(p, "collect")
  /\ UNCHANGED <<assessment, derivedVars, lock, assessVars, rebuildVars>>

RebuildCaseResult(p) ==
  /\ pc[p] = "collect"
  /\ collected' = [collected EXCEPT ![p][at[p]] = assessment[at[p]]]
  /\ Goto(p, "store")
  /\ UNCHANGED <<assessment, derivedVars, lock, assessVars, at, saved>>

\* Mutant: the loop runs once past the last case.
ReplaceCaseResultOneMore(p) ==
  /\ pc[p] = "store"
  /\ results' = [results EXCEPT ![at[p]] = CaseResult(at[p], collected[p][at[p]])]
  /\ IF at[p] <= NumCases
     THEN at' = [at EXCEPT ![p] = @ + 1] /\ Goto(p, "collect")
     ELSE at' = at /\ Goto(p, "finalize")
  /\ UNCHANGED <<assessment, run, normalized, report, conclusions, summary, lock, assessVars,
                 collected, saved>>

ReplaceCaseResult(p) ==
  /\ pc[p] = "store"
  /\ results' = [results EXCEPT ![at[p]] = CaseResult(at[p], collected[p][at[p]])]
  /\ IF at[p] < NumCases
     THEN at' = [at EXCEPT ![p] = @ + 1] /\ Goto(p, "collect")
     ELSE at' = at /\ Goto(p, "finalize")
  /\ UNCHANGED <<assessment, run, normalized, report, conclusions, summary, lock, assessVars,
                 collected, saved>>

\* Mutant: the rebuilt run is reduced without the findings of run.json.
FinalizeRunWithoutFindings(p) ==
  LET cases == RunResult(collected[p], FALSE).cases
  IN  /\ pc[p] = "finalize"
      /\ run' = [cases |-> cases, exitCode |-> ReduceRunExitCode(cases, FALSE, FALSE)]
      /\ Goto(p, "conclusions")
      /\ UNCHANGED <<assessment, results, normalized, report, conclusions, summary, lock,
                     assessVars, rebuildVars>>

FinalizeRun(p) ==
  /\ pc[p] = "finalize"
  /\ run' = RunResult(collected[p], FALSE)
  /\ Goto(p, "conclusions")
  /\ UNCHANGED <<assessment, results, normalized, report, conclusions, summary, lock, assessVars,
                 rebuildVars>>

\* Only the run writes conclusions, from what it collected; it then reads its own file.
WriteTaskConclusions(p) ==
  /\ pc[p] = "conclusions" /\ p \in Runs
  /\ conclusions' = Conclusions(collected[p])
  /\ saved' = [saved EXCEPT ![p] = conclusions']
  /\ Goto(p, "result")
  /\ UNCHANGED <<assessment, results, run, normalized, report, summary, lock, assessVars, at,
                 collected>>

ReadConclusions(p) ==
  /\ pc[p] = "conclusions" /\ p \notin Runs
  /\ saved' = [saved EXCEPT ![p] = conclusions]
  /\ Goto(p, "result")
  /\ UNCHANGED <<assessment, derivedVars, lock, assessVars, at, collected>>

WriteNormalizedRun(p) ==
  /\ pc[p] = "result"
  /\ normalized' = NormalizedRun(collected[p])
  /\ Goto(p, "report")
  /\ UNCHANGED <<assessment, results, run, report, conclusions, summary, lock, assessVars,
                 rebuildVars>>

\* assess keeps summary.md and goes on to its release.
WriteReport(p) ==
  /\ pc[p] = "report"
  /\ report' = Report(collected[p], saved[p])
  /\ Goto(p, IF p \in Assessors THEN "release" ELSE "summary")
  /\ UNCHANGED <<assessment, results, run, normalized, conclusions, summary, lock, assessVars,
                 rebuildVars>>

WriteSummary(p) ==
  /\ pc[p] = "summary"
  /\ summary' = Summary(collected[p], saved[p])
  /\ End(p, "ok")
  /\ UNCHANGED <<assessment, results, run, normalized, report, conclusions, lock>>

\* A call of a command without a lock fails, or the command is killed.
Stop(p) ==
  /\ p \notin Assessors /\ pc[p] \in Rebuilding
  /\ Refused(p)

-----------------------------------------------------------------------------
Rebuild(p) ==
  \/ RebuildCaseResult(p) \/ ReplaceCaseResult(p) \/ FinalizeRun(p)
  \/ WriteTaskConclusions(p) \/ ReadConclusions(p)
  \/ WriteNormalizedRun(p) \/ WriteReport(p) \/ WriteSummary(p)

AssessCase(p) ==
  \/ ReadAssessmentContext(p) \/ RunAssessmentWizard(p)
  \/ AcquireAssessmentLock(p) \/ RefuseAssessment(p)
  \/ ReadAssessment(p) \/ ReplaceAssessment(p)
  \/ GiveUp(p) \/ Release(p) \/ LeaveLock(p)

Next ==
  \/ \E p \in Assessors : AssessCase(p)
  \/ \E p \in Commands : Rebuild(p)
  \/ \E p \in Reporters : StartReport(p)
  \/ \E p \in Commands : Stop(p)
  \/ \E c \in Cases : RemoveStaleLock(c)

Spec == Init /\ [][Next]_vars

-----------------------------------------------------------------------------
(* What the commands must keep.                                            *)

\* A lock directory stands for exactly one command that is inside the lock or
\* left it behind: no early return of assessCase forgets it, no two commands share it.
LockAccounted ==
  \A c \in Cases :
    /\ lock[c] <=> Holders(c) # {}
    /\ \A p, q \in Holders(c) : p = q

Verdicts(artifact) ==
  {[check |-> k, verdict |-> artifact.current[k].verdict, by |-> artifact.current[k].by] :
     k \in {j \in Checks : artifact.current[j] # NoRecord}} \cup
  {[check |-> e.check, verdict |-> e.verdict, by |-> e.by] : e \in artifact.history}

\* A committed verdict is never lost: it stays current or goes to the history,
\* whatever commands overlap, fail or die (artifacts.md: replacing keeps the old verdict).
VerdictsKept ==
  [][\A c \in Cases : Verdicts(assessment[c]) \subseteq Verdicts(assessment'[c])]_assessment

Replaced(c) == assessment'[c].history \ assessment[c].history

\* assessCase replaces only verdicts of checks whose replacement its operator
\* chose: two operators who both judge a pending check never overwrite each other.
ReplacementChosen ==
  [][\A c \in Cases : \A e \in Replaced(c) : ReplaceExisting(e.replacedBy, e.check)]_assessment

\* The verdict replaced is the one the operator was shown and confirmed to
\* replace (cli.md: replacing an existing verdict requires confirmation).
ConfirmedReplacement ==
  [][\A c \in Cases : \A e \in Replaced(c) :
       Shown(c, e.check, seen[e.replacedBy])
         = [verdict |-> e.verdict, by |-> e.by]]_assessment

\* Every derived file is the one that the saved assessments give.
Derived ==
  /\ \A c \in Cases : results[c] = CaseResult(c, assessment[c])
  /\ run = RunResult(assessment, FALSE)
  /\ normalized = NormalizedRun(assessment)
  /\ report = Report(assessment, conclusions)

\* assess keeps summary.md; report and run render it.
Rendered(p) == p \in Assessors \/ summary = Summary(assessment, conclusions)

\* A command that reports success with no other left running leaves every
\* derived file current, so that regenerating changes nothing until the
\* evidence does, whatever earlier commands failed or died halfway.
EndsCurrent ==
  [][\A p \in Commands : pc[p] # "ok" /\ pc'[p] = "ok" /\ (\A q \in Commands \ {p} : ~Live(q))
       => Derived' /\ Rendered(p)']_pc

\* When every command that was started has succeeded, the derived files are those
\* of the saved assessments, so a report regenerated from then on differs only if
\* the evidence did (docs/concepts/evidence-and-reports.md).
DifferenceIsEvidence ==
  (\A p \in Commands : pc[p] \in {"idle", "ok"}) /\ (\E p \in Commands : pc[p] = "ok") => Derived

\* Rebuilding without any assessment keeps the exit code the run returned: the
\* comment of reduceRunExitCode says the rule is shared by run and regeneration.
ExitCodeKept == assessment = Unassessed => run.exitCode = Recorded.exitCode
=============================================================================
