----------------------- MODULE RunBenchmarkProperties -----------------------
(***************************************************************************)
(* What a benchmark run must guarantee: that an interrupt reaches every    *)
(* case, that no case is lost between its slot and the run record, that    *)
(* evidence is captured in the order the results rely on, and that the     *)
(* exit code tells the truth about what is on disk.                        *)
(***************************************************************************)
EXTENDS RunBenchmark

HasFinding(c, severities, subjects) ==
  \E f \in findings : f.case = c /\ f.severity \in severities /\ f.about \in subjects

Ended(c, endings) == HasResult(c) /\ results[c].lifecycle \in endings

(* Interrupts. *)

\* An interrupt that arrives between the abort check before the run directory
\* is created and the registration of the listener is not lost: once cases
\* run, the run knows of every signal (runBenchmark).
NoInterruptLost == phase = "cases" => (signal => cancelled)

\* An interrupt reaches every started case, also one whose workspace was being
\* prepared when it arrived and whose controller did not exist yet: no
\* registered controller of a cancelled run is still live (executeCase).
CancelReachesEveryCase ==
  cancelled => \A c \in Cases : abort[c] # "live"

\* A cancelled run starts nothing more: no agent, setup command, check-state
\* change, check or grader call begins once it knows of the interrupt. Some
\* stages look only at the case's controller, one at neither (runAgent,
\* applyCaseCheckState, runBeforeChecks, evaluateChecks, gradeChecks).
Working == {"setup-agent", "agent", "check-state", "setup-checks", "checks", "grading"}

NothingStartsAfterCancel ==
  [][\A c \in Cases :
       cancelled /\ pc'[c] \in Working
         => pc'[c] = pc[c] /\ local'[c].checked = local[c].checked]_vars

\* One controller serves both an interrupt and a failed append. A case is
\* recorded as cancelled only when the run was cancelled (runAgent, concludeCase).
CancelledMeansInterrupted ==
  \A c \in Cases : Ended(c, {"cancelled"}) => cancelled

(* Evidence. *)

\* A completed record is a whole evaluation of the agent's work alone: every check ran
\* although checks stop silently on an abort, and every file its index names is saved,
\* the patch and checks.json always and grading.json of a graded task. No check, setup
\* command before them or change of the check state touches the worktree before the patch
\* is saved, after a timeout of the agent either, so none can enter it. The index of any
\* other record names only files that exist too, whatever step the case ended at, but
\* for the agent's own records, which AbsenceIsRecorded is about
\* (captureSolutionPatch, evaluateReadableCase, finishCase).
CompletedIsWhole ==
  \A c \in Cases :
    /\ local[c].checked > 0 \/ pc[c] \in {"check-state", "setup-checks", "checks"}
         => "patch" \in disk[c]
    /\ HasResult(c) => results[c].artifacts \ Records \subseteq disk[c]
    /\ Ended(c, {"completed"}) =>
         /\ results[c].checks = NumChecks
         /\ {"patch", "checks"} \subseteq results[c].artifacts
         /\ c \in Graded => "grading" \in results[c].artifacts
         /\ results[c].artifacts \subseteq disk[c]

\* docs/reference/artifacts.md:27: "Some files are absent when the evidence was
\* unavailable. Their absence is recorded, not treated as a successful
\* measurement." Stated of every record, append failures included.
AbsenceIsRecorded ==
  \A c \in Cases : HasResult(c) => results[c].artifacts \subseteq disk[c]

(* Bookkeeping. *)

\* A finished run accounts for each planned case in exactly one way: a result,
\* saved or else reported as an error, or a finding that it was skipped
\* (executeCase, persistAndCleanup).
EveryCaseAccounted ==
  phase \in {"finalizing", "reporting"} =>
    \A c \in Cases :
      /\ HasResult(c) <=> ~HasFinding(c, {"warning", "error"}, {"skipped"})
      /\ HasResult(c) => "result" \in disk[c] \/ HasFinding(c, {"error"}, {"result"})

\* A sealed workspace is deleted only after the case's result is saved, and one
\* that stays behind is named by a finding (persistAndCleanup). What a failed
\* sealing leaves behind is not: its own cleanup reports nothing (sealCase).
WorkspaceAccounted ==
  \A c \in Cases :
    /\ workspace[c] = "removed" => "result" \in disk[c]
    /\ pc[c] = "over" /\ workspace[c] = "present"
         => HasFinding(c, {"warning", "error"}, {"result", "workspace"})

\* The exit code hides nothing: 0 and 2 only when every case's result is saved,
\* 0 only when each is a clean pass, and never after an interrupt that reached
\* the cases, although cases can be skipped silently after another case's store
\* failure and a run may end anywhere (executeCase, reduceRunExitCode).
ExitCodeIsHonest ==
  /\ exitCode \in {0, 2} => ~cancelled /\ \A c \in Cases : "result" \in disk[c]
  /\ exitCode = 0 => \A c \in Cases :
       results[c].lifecycle = "completed" /\ results[c].outcome = "passed" /\ ~results[c].failed

(* Progress. *)

\* A run always ends: no failure path loses a slot, and no interrupt leaves a
\* case waiting (runBenchmark, executeCase).
RunTerminates == <>(phase \in {"done", "killed"})

(* The abstract ledger. *)

LedgerStatus(c) ==
  IF pc[c] = "queued" THEN "planned"
  ELSE IF pc[c] # "over" THEN "open"
  ELSE IF ~HasResult(c) THEN "skipped"
  ELSE IF "result" \notin disk[c] THEN "unsaved"
  ELSE IF /\ results[c].lifecycle = "completed"
          /\ results[c].outcome = "passed"
          /\ ~results[c].failed THEN "clean"
  ELSE "recorded"

Ledger == INSTANCE CaseLedger WITH
  status     <- [c \in Cases |-> LedgerStatus(c)],
  scheduling <- ~(cancelled \/ stopScheduling),
  code       <- IF phase \in {"done", "killed"} THEN exitCode ELSE -1

\* The run implements the case ledger.
ImplementsLedger == Ledger!Spec
=============================================================================
