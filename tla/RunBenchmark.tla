---------------------------- MODULE RunBenchmark ----------------------------
(***************************************************************************)
(* One `tevu run`: runBenchmark of application/run-benchmark.ts over its   *)
(* injected adapters. Node runs one callback at a time, so a step of this  *)
(* module is one awaited call coming back together with the synchronous    *)
(* code that follows it, up to the next await. pc[c] names the call case c *)
(* is waiting for. Between two steps of a case any other case may step and *)
(* an interrupt may arrive.                                                *)
(***************************************************************************)
EXTENDS Integers, FiniteSets

CONSTANTS
  NumCases,      \* planned cases, 1..NumCases in plan order
  Concurrency,   \* run.concurrency, the size of the p-limit pool
  NumChecks,     \* declared checks of every task
  BeforeAgent,   \* cases whose repository declares setup.before_agent
  BeforeChecks,  \* cases whose repository declares setup.before_checks
  CheckState,    \* cases whose task declares checks.restore or checks.overlay
  Graded,        \* cases whose task declares a graded check
  Streams        \* the record streams the agents write: events, diagnostics

Cases == 1..NumCases

ASSUME RunAssumption ==
  /\ NumCases \in Nat \ {0}
  /\ Concurrency \in Nat \ {0}
  /\ NumChecks \in Nat \ {0}
  /\ BeforeAgent \subseteq Cases
  /\ BeforeChecks \subseteq Cases
  /\ CheckState \subseteq Cases
  /\ Graded \subseteq Cases
  /\ Streams \subseteq {"events", "diagnostics"}


VARIABLES
  signal,         \* dependencies.cancellation.aborted
  phase,          \* where the run command is
  cancelled,      \* run.state.cancelled
  stopScheduling, \* run.state.stopScheduling
  pc,             \* the call each case awaits
  abort,          \* each case's AbortController in run.activeAborts
  local,          \* what each case's pipeline carries from stage to stage
  workspace,      \* each case's directory on disk
  disk,           \* files saved in each case's artifact directory
  results,        \* run.results
  lifecycle,      \* last lifecycle emitted
  findings,       \* run.findings
  exitCode        \* the command's exit code, -1 before it is known

runVars  == <<signal, phase, cancelled, exitCode>>
caseVars == <<pc, local, results, lifecycle>>
vars == <<runVars, stopScheduling, abort, caseVars, workspace, disk, findings>>

Phases   == {"preflight", "starting", "cases", "finalizing", "reporting", "done", "killed"}
Awaits   == {"workspace", "environments", "setup-agent", "setup-agent-log", "patch-base",
             "launch", "launch-report", "agent", "readable", "export", "export-write",
             "patch", "patch-write", "timeout-patch", "timeout-patch-write", "check-state",
             "setup-checks", "setup-checks-log", "checks", "checks-write", "grading",
             "grading-write", "finalize", "dispose"}
Records  == {"events", "diagnostics"}
Logs     == {"setup-agent-log", "setup-checks-log"}
Evidence == Records \cup Logs \cup {"session", "patch", "checks", "grading"}
Verdicts == {"passed", "failed", "pending"}
Terminal == {"completed", "timed-out", "cancelled", "process-failed", "infrastructure-failed"}

\* The case's pipeline object: seen names the records delivered and the session
\* identified and exported, lost the streams whose append failed, logs the setup
\* logs written, kept whether a runtime failure is preserved, step the status of
\* a setup phase whose log is still to be written.
Locals  == [seen : SUBSET (Records \cup {"session-id", "session"}), lost : SUBSET Records,
            logs : SUBSET Logs, kept : BOOLEAN, step : {"none", "passed", "failed", "cancelled"},
            checked : 0..NumChecks, verdict : Verdicts, grade : Verdicts]
NoLocal == [seen |-> {}, lost |-> {}, logs |-> {}, kept |-> FALSE, step |-> "none",
            checked |-> 0, verdict |-> "passed", grade |-> "passed"]

Results  == [lifecycle : Terminal, outcome : Verdicts \cup {"not-evaluated"}, failed : BOOLEAN,
             artifacts : SUBSET Evidence, checks : 0..NumChecks]
NoResult == [lifecycle |-> "none"]
Findings == [case : Cases, severity : {"warning", "error"},
             about : {"skipped", "result", "workspace", "patch", "grading-directory"}]

\* The one type invariant: every variable holds a value the code can give it.
TypeOK ==
  /\ signal \in BOOLEAN /\ cancelled \in BOOLEAN /\ stopScheduling \in BOOLEAN
  /\ phase \in Phases
  /\ exitCode \in {-1, 0, 1, 2, 130}
  /\ pc \in [Cases -> Awaits \cup {"queued", "over"}]
  /\ abort \in [Cases -> {"absent", "live", "fired"}]
  /\ local \in [Cases -> Locals]
  /\ workspace \in [Cases -> {"none", "partial", "present", "removed"}]
  /\ disk \in [Cases -> SUBSET (Evidence \cup {"result"})]
  /\ results \in [Cases -> Results \cup {NoResult}]
  /\ lifecycle \in [Cases -> Terminal \cup {"none", "queued", "preparing", "running", "evaluating"}]
  /\ findings \subseteq Findings

Init ==
  /\ signal = FALSE /\ phase = "preflight"
  /\ cancelled = FALSE /\ stopScheduling = FALSE /\ exitCode = -1
  /\ pc = [c \in Cases |-> "queued"]
  /\ abort = [c \in Cases |-> "absent"]
  /\ local = [c \in Cases |-> NoLocal]
  /\ workspace = [c \in Cases |-> "none"]
  /\ disk = [c \in Cases |-> {}]
  /\ results = [c \in Cases |-> NoResult]
  /\ lifecycle = [c \in Cases |-> "none"]
  /\ findings = {}

-----------------------------------------------------------------------------
(* How a step of a case moves on: to its next call, or to its result.      *)

Goto(c, call, carried) ==
  /\ pc' = [pc EXCEPT ![c] = call]
  /\ local' = [local EXCEPT ![c] = carried]
  /\ UNCHANGED <<results, lifecycle>>

Announce(c, call, carried, state) ==
  /\ pc' = [pc EXCEPT ![c] = call]
  /\ local' = [local EXCEPT ![c] = carried]
  /\ lifecycle' = [lifecycle EXCEPT ![c] = state]
  /\ UNCHANGED results

Report(c, severity, about) ==
  findings' = findings \cup {[case |-> c, severity |-> severity, about |-> about]}

\* A case's awaited store write: a failure stops scheduling.
Store(c, file, Saved, Failed) ==
  \/ /\ disk' = [disk EXCEPT ![c] = @ \cup {file}]
     /\ UNCHANGED stopScheduling
     /\ Saved
  \/ /\ stopScheduling' = TRUE
     /\ UNCHANGED disk
     /\ Failed

\* persistAndCleanup up to its first await; the pipeline object is dropped.
Persist(c, record) ==
  /\ results' = [results EXCEPT ![c] = record]
  /\ lifecycle' = [lifecycle EXCEPT ![c] = record.lifecycle]
  /\ pc' = [pc EXCEPT ![c] = "finalize"]
  /\ local' = [local EXCEPT ![c] = NoLocal]

\* agentNotStartedResult and preparationFailureResult.
EndBeforeAgent(c, ending, logs) ==
  Persist(c, [lifecycle |-> ending, outcome |-> "not-evaluated", failed |-> TRUE,
              artifacts |-> logs, checks |-> 0])

\* reduceRequiredOutcome over every declared check, all of them required.
ReduceRequiredOutcome(verdicts, evaluated) ==
  IF "failed" \in verdicts THEN "failed"
  ELSE IF "pending" \in verdicts \/ evaluated < NumChecks THEN "pending" ELSE "passed"

\* What each stage a case ends from adds to the index of its evidence files.
StageIndex(c, reached) ==
  CASE reached = "export-settled"   -> {}
    [] reached = "patch-captured"   -> {"patch"}
    [] reached = "checks-evaluated" -> {"patch"}
    [] reached = "checked"          -> {"patch", "checks"}
    [] reached = "evaluated"        ->
         {"patch", "checks"} \cup (IF c \in Graded THEN {"grading"} ELSE {})

\* finishCase: the index follows what was observed and the stage reached; a
\* record without a failure keeps a metrics decoding failure, if there is one.
FinishCase(c, carried, ending, failed, reached) ==
  \E decoding \in BOOLEAN :
    Persist(c, [lifecycle |-> ending,
                outcome   |-> IF ending = "completed"
                              THEN ReduceRequiredOutcome({carried.verdict, carried.grade},
                                                         carried.checked)
                              ELSE "not-evaluated",
                failed    |-> failed \/ decoding,
                artifacts |-> (carried.seen \cap (Records \cup {"session"})) \cup carried.logs
                                \cup StageIndex(c, reached),
                checks    |-> carried.checked])

InfrastructureFails(c, carried, reached) ==
  FinishCase(c, carried, "infrastructure-failed", TRUE, reached)

\* A cancelled run ends the case with the failure it preserved so far.
Cancel(c, carried, reached) == FinishCase(c, carried, "cancelled", carried.kept, reached)

Aborted(c) == abort[c] = "fired"

\* runChecks, entered: an aborted case evaluates none.
EnterChecks(c, carried) == Goto(c, IF Aborted(c) THEN "checks-write" ELSE "checks", carried)

\* runBeforeChecks, entered: an aborted phase starts no command, so writes no log.
EnterBeforeChecks(c, carried) ==
  IF c \notin BeforeChecks THEN EnterChecks(c, carried)
  ELSE IF Aborted(c) THEN Cancel(c, carried, "patch-captured")
  ELSE Goto(c, "setup-checks", carried)

EnterCheckState(c, carried) ==
  IF c \in CheckState THEN Goto(c, "check-state", carried) ELSE EnterBeforeChecks(c, carried)

EnterAgent(c, carried) == Announce(c, "launch", carried, "running")

\* The export settled, with or without a session: the cancelled run stops here.
SettleExport(c, carried) ==
  IF cancelled THEN Cancel(c, carried, "export-settled")
  ELSE Announce(c, "patch", carried, "evaluating")

\* evaluateReadableCase, entered with the runtime failure to preserve, if any;
\* without a session there is nothing to wait for before the patch.
EnterEvaluation(c, failed) ==
  LET carried == [local[c] EXCEPT !.kept = failed]
  IN  IF "session-id" \in carried.seen THEN Announce(c, "export", carried, "evaluating")
      ELSE SettleExport(c, carried)

-----------------------------------------------------------------------------
(* The run around its cases, and the command around the run.               *)

\* SIGINT or SIGTERM. onRunAbort is registered only while the cases run.
SignalArrives ==
  /\ ~signal
  /\ phase \notin {"done", "killed"}
  /\ signal' = TRUE
  /\ IF phase = "cases"
       THEN /\ cancelled' = TRUE
            /\ abort' = [c \in Cases |-> IF abort[c] = "live" THEN "fired" ELSE abort[c]]
       ELSE UNCHANGED <<cancelled, abort>>
  /\ UNCHANGED <<phase, exitCode, stopScheduling, caseVars, workspace, disk, findings>>

RunMoves(next, code) ==
  /\ phase' = next
  /\ exitCode' = code
  /\ UNCHANGED <<signal, stopScheduling, pc, abort, local, results, workspace, disk, findings>>

\* Every early return before the run directory exists.
PreflightRefuses ==
  /\ phase = "preflight"
  /\ \E code \in {1} \cup (IF signal THEN {130} ELSE {}) : RunMoves("done", code)
  /\ UNCHANGED <<cancelled, lifecycle>>

PreflightPasses ==
  /\ phase = "preflight"
  /\ ~signal
  /\ RunMoves("starting", exitCode)
  /\ UNCHANGED <<cancelled, lifecycle>>

StartRunFails ==
  /\ phase = "starting"
  /\ RunMoves("done", 1)
  /\ UNCHANGED <<cancelled, lifecycle>>

\* Mutant: the listener is registered without a look at the signal.
RunStartsDeaf ==
  /\ phase = "starting"
  /\ RunMoves("cases", exitCode)
  /\ cancelled' = FALSE
  /\ lifecycle' = [c \in Cases |-> "queued"]

\* startRun succeeded: an interrupt that arrived meanwhile counts at once.
RunStarts ==
  /\ phase = "starting"
  /\ RunMoves("cases", exitCode)
  /\ cancelled' = signal
  /\ lifecycle' = [c \in Cases |-> "queued"]

HasResult(c) == results[c] # NoResult

RunResults == {results[c] : c \in {d \in Cases : HasResult(d)}}

\* Mutant: the exit code follows the case records alone.
ReduceByRecords(records, found, wasCancelled) ==
  IF wasCancelled \/ \E r \in records : r.lifecycle = "cancelled" THEN 130
  ELSE IF \E r \in records : r.lifecycle = "infrastructure-failed" THEN 1
  ELSE IF \E r \in records : \/ r.lifecycle \in {"timed-out", "process-failed"}
                             \/ r.outcome \in {"failed", "pending"}
                             \/ r.failed THEN 2
  ELSE 0

ReduceRunExitCode(records, found, wasCancelled) ==
  IF wasCancelled \/ \E r \in records : r.lifecycle = "cancelled" THEN 130
  ELSE IF \/ \E f \in found : f.severity = "error"
          \/ \E r \in records : r.lifecycle = "infrastructure-failed" THEN 1
  ELSE IF \E r \in records : \/ r.lifecycle \in {"timed-out", "process-failed"}
                             \/ r.outcome \in {"failed", "pending"}
                             \/ r.failed THEN 2
  ELSE 0

RunEnds ==
  /\ phase = "cases"
  /\ \A c \in Cases : pc[c] = "over"
  /\ RunMoves("finalizing", ReduceRunExitCode(RunResults, findings, cancelled))
  /\ UNCHANGED <<cancelled, lifecycle>>

\* The command reports an unsaved run as a failure, and builds no report of a
\* cancelled one.
FinalizeRun ==
  /\ phase = "finalizing"
  /\ \/ RunMoves("done", 1)
     \/ RunMoves(IF exitCode = 130 THEN "done" ELSE "reporting", exitCode)
  /\ UNCHANGED <<cancelled, lifecycle>>

\* rebuildRunReport reads back every event stream the records name.
RebuildRunReport ==
  /\ phase = "reporting"
  /\ \/ RunMoves("done", 1)
     \/ /\ \A c \in Cases : HasResult(c) /\ "events" \in results[c].artifacts => "events" \in disk[c]
        /\ RunMoves("done", exitCode)
  /\ UNCHANGED <<cancelled, lifecycle>>

\* Two grace periods after an interrupt the process exits, whatever it awaits.
ForcedExit ==
  /\ signal
  /\ phase \in {"preflight", "starting", "cases", "finalizing"}
  /\ RunMoves("killed", 130)
  /\ UNCHANGED <<cancelled, lifecycle>>

-----------------------------------------------------------------------------
(* executeCase: the slot, the queued checks and the preparation.           *)

\* Mutant: a slot is handed on only once the case's workspace is deleted.
InSlotUntilDeleted(c) == pc[c] \in Awaits \/ workspace[c] = "present"

InSlot(c) == pc[c] \in Awaits

\* Mutant: one case too many may hold a slot.
HasSlotBeyondLimit(c) ==
  /\ pc[c] = "queued"
  /\ \A d \in Cases : d < c => pc[d] # "queued"
  /\ Cardinality({d \in Cases : InSlot(d)}) <= Concurrency

\* p-limit hands its slots out in plan order.
HasSlot(c) ==
  /\ pc[c] = "queued"
  /\ \A d \in Cases : d < c => pc[d] # "queued"
  /\ Cardinality({d \in Cases : InSlot(d)}) < Concurrency

StartCase(c) ==
  /\ HasSlot(c)
  /\ ~cancelled /\ ~stopScheduling
  /\ Announce(c, "workspace", NoLocal, "preparing")
  /\ UNCHANGED <<runVars, stopScheduling, abort, workspace, disk, findings>>

\* Mutant: a case skipped by a cancellation leaves no finding.
SkipCaseSilently(c) ==
  /\ HasSlot(c)
  /\ cancelled \/ stopScheduling
  /\ IF cancelled THEN UNCHANGED findings ELSE Report(c, "error", "skipped")
  /\ Goto(c, "over", NoLocal)
  /\ UNCHANGED <<runVars, stopScheduling, abort, workspace, disk>>

SkipCase(c) ==
  /\ HasSlot(c)
  /\ cancelled \/ stopScheduling
  /\ Report(c, IF cancelled THEN "warning" ELSE "error", "skipped")
  /\ Goto(c, "over", NoLocal)
  /\ UNCHANGED <<runVars, stopScheduling, abort, workspace, disk>>

\* Sealing that fails deletes what it made, and says nothing when it cannot.
CreateIsolatedCase(c) ==
  /\ pc[c] = "workspace"
  /\ \/ /\ workspace' = [workspace EXCEPT ![c] = "present"]
        /\ Goto(c, "environments", NoLocal)
     \/ /\ EndBeforeAgent(c, "infrastructure-failed", {})
        /\ \E left \in {"none", "partial"} : workspace' = [workspace EXCEPT ![c] = left]
  /\ UNCHANGED <<runVars, stopScheduling, abort, disk, findings>>

\* Mutant: the controller of a run cancelled meanwhile is not aborted.
CreateCaseEnvironmentsLive(c) ==
  /\ pc[c] = "environments"
  /\ \/ /\ EndBeforeAgent(c, "infrastructure-failed", {})
        /\ UNCHANGED abort
     \/ /\ abort' = [abort EXCEPT ![c] = "live"]
        /\ IF c \notin BeforeAgent THEN EnterAgent(c, NoLocal)
           ELSE Goto(c, "setup-agent", NoLocal)
  /\ UNCHANGED <<runVars, stopScheduling, workspace, disk, findings>>

\* The controller is registered only now, so a run cancelled during the
\* preparation aborts it by hand.
CreateCaseEnvironments(c) ==
  /\ pc[c] = "environments"
  /\ \/ /\ EndBeforeAgent(c, "infrastructure-failed", {})
        /\ UNCHANGED abort
     \/ /\ abort' = [abort EXCEPT ![c] = IF cancelled THEN "fired" ELSE "live"]
        /\ IF c \notin BeforeAgent THEN EnterAgent(c, NoLocal)
           ELSE IF cancelled THEN EndBeforeAgent(c, "cancelled", {})
           ELSE Goto(c, "setup-agent", NoLocal)
  /\ UNCHANGED <<runVars, stopScheduling, workspace, disk, findings>>

\* runSetupPhase: a command killed by the abort ends the phase cancelled; one
\* that fails, times out or finishes first keeps its own status.
RunSetupPhase(c) ==
  /\ pc[c] \in {"setup-agent", "setup-checks"}
  /\ \E status \in {"passed", "failed"} \cup (IF Aborted(c) THEN {"cancelled"} ELSE {}) :
       Goto(c, IF pc[c] = "setup-agent" THEN "setup-agent-log" ELSE "setup-checks-log",
            [local[c] EXCEPT !.step = status])
  /\ UNCHANGED <<runVars, stopScheduling, abort, workspace, disk, findings>>

WriteAgentSetupLog(c) ==
  /\ pc[c] = "setup-agent-log"
  /\ LET logged == [local[c] EXCEPT !.step = "none", !.logs = @ \cup {"setup-agent-log"}]
     IN  Store(c, "setup-agent-log",
               IF local[c].step = "failed"
                 THEN EndBeforeAgent(c, "infrastructure-failed", logged.logs)
               ELSE IF local[c].step = "cancelled" \/ cancelled
                 THEN EndBeforeAgent(c, "cancelled", logged.logs)
               ELSE Goto(c, "patch-base", logged),
               EndBeforeAgent(c, "infrastructure-failed", {}))
  /\ UNCHANGED <<runVars, abort, workspace, findings>>

SnapshotPatchBase(c) ==
  /\ pc[c] = "patch-base"
  /\ \/ EndBeforeAgent(c, "infrastructure-failed", local[c].logs)
     \/ IF cancelled THEN EndBeforeAgent(c, "cancelled", local[c].logs)
        ELSE EnterAgent(c, local[c])
  /\ UNCHANGED <<runVars, stopScheduling, abort, workspace, disk, findings>>

-----------------------------------------------------------------------------
(* runAgent and concludeCase.                                              *)

\* The adapter starts no process once the case is aborted, or when the launch
\* fails; either way it reports a diagnostic before it answers.
LaunchAgent(c) ==
  /\ pc[c] = "launch"
  /\ \/ ~Aborted(c) /\ Goto(c, "agent", local[c])
     \/ Goto(c, "launch-report", local[c])
  /\ UNCHANGED <<runVars, stopScheduling, abort, workspace, disk, findings>>

\* The process is identified by the first record it delivers.
IdentifySession(c) ==
  /\ pc[c] = "agent"
  /\ "session-id" \notin local[c].seen
  /\ Goto(c, "agent", [local[c] EXCEPT !.seen = @ \cup {"session-id"}])
  /\ UNCHANGED <<runVars, stopScheduling, abort, workspace, disk, findings>>

\* onEvent and onDiagnostic count the record before they append it. A failed
\* append stops scheduling and aborts this case's process; the adapter delivers
\* nothing more of that stream.
DeliverRecord(c, stream, Delivered, Lost) ==
  /\ stream \notin local[c].lost
  /\ \/ /\ disk' = [disk EXCEPT ![c] = @ \cup {stream}]
        /\ UNCHANGED <<stopScheduling, abort>>
        /\ Delivered
     \/ /\ stopScheduling' = TRUE
        /\ abort' = [abort EXCEPT ![c] = "fired"]
        /\ UNCHANGED disk
        /\ Lost
  /\ UNCHANGED <<runVars, workspace, findings>>

Counted(c, stream) == [local[c] EXCEPT !.seen = @ \cup {stream}]

AppendRecord(c, stream) ==
  /\ pc[c] = "agent"
  /\ DeliverRecord(c, stream,
       Goto(c, "agent", Counted(c, stream)),
       Goto(c, "agent", [Counted(c, stream) EXCEPT !.lost = @ \cup {stream}]))

ReportLaunchFailure(c) ==
  /\ pc[c] = "launch-report"
  /\ DeliverRecord(c, "diagnostics",
       Goto(c, "readable", Counted(c, "diagnostics")),
       InfrastructureFails(c, Counted(c, "diagnostics"), "export-settled"))

\* Mutant: what the adapter returned counts, also after a failed append.
AgentEndsAsReturned(c) ==
  /\ pc[c] = "agent"
  /\ \/ "session-id" \in local[c].seen /\ EnterEvaluation(c, FALSE)
     \/ Aborted(c) /\ FinishCase(c, local[c], "cancelled", TRUE, "export-settled")
     \/ \E call \in {"timeout-patch", "readable"} : Goto(c, call, local[c])
  /\ UNCHANGED <<runVars, stopScheduling, abort, workspace, disk, findings>>

\* The process is gone and every record delivered. The first append failure
\* overrides what the adapter returned; success takes an identified session.
AgentEnds(c) ==
  /\ pc[c] = "agent"
  /\ IF local[c].lost # {} THEN InfrastructureFails(c, local[c], "export-settled")
     ELSE \/ "session-id" \in local[c].seen /\ EnterEvaluation(c, FALSE)
          \/ Aborted(c) /\ FinishCase(c, local[c], "cancelled", TRUE, "export-settled")
          \/ \E call \in {"timeout-patch", "readable"} : Goto(c, call, local[c])
  /\ UNCHANGED <<runVars, stopScheduling, abort, workspace, disk, findings>>

IsReadable(c) ==
  /\ pc[c] = "readable"
  /\ \/ EnterEvaluation(c, TRUE)
     \/ FinishCase(c, local[c], "process-failed", TRUE, "export-settled")
  /\ UNCHANGED <<runVars, stopScheduling, abort, workspace, disk, findings>>

CaptureTimeoutPatch(c) ==
  /\ pc[c] = "timeout-patch"
  /\ \/ Goto(c, "timeout-patch-write", local[c]) /\ UNCHANGED findings
     \/ /\ Report(c, "warning", "patch")
        /\ FinishCase(c, local[c], "timed-out", TRUE, "export-settled")
  /\ UNCHANGED <<runVars, stopScheduling, abort, workspace, disk>>

WriteTimeoutPatch(c) ==
  /\ pc[c] = "timeout-patch-write"
  /\ Store(c, "patch",
           FinishCase(c, local[c], "timed-out", TRUE, "patch-captured"),
           InfrastructureFails(c, local[c], "export-settled"))
  /\ UNCHANGED <<runVars, abort, workspace, findings>>

-----------------------------------------------------------------------------
(* evaluateReadableCase, one awaited call at a time.                       *)

\* A failed export is a failure to preserve, unless there is one already.
ExportSession(c) ==
  /\ pc[c] = "export"
  /\ \/ Goto(c, "export-write", local[c])
     \/ SettleExport(c, [local[c] EXCEPT !.kept = TRUE])
  /\ UNCHANGED <<runVars, stopScheduling, abort, workspace, disk, findings>>

WriteSessionExport(c) ==
  /\ pc[c] = "export-write"
  /\ Store(c, "session",
           SettleExport(c, [local[c] EXCEPT !.seen = @ \cup {"session"}]),
           InfrastructureFails(c, local[c], "export-settled"))
  /\ UNCHANGED <<runVars, abort, workspace, findings>>

\* Mutant: a patch that cannot be captured is no reason to stop.
CapturePatchOrGoOn(c) ==
  /\ pc[c] = "patch"
  /\ Goto(c, "patch-write", local[c]) \/ EnterCheckState(c, local[c])
  /\ UNCHANGED <<runVars, stopScheduling, abort, workspace, disk, findings>>

CapturePatch(c) ==
  /\ pc[c] = "patch"
  /\ \/ Goto(c, "patch-write", local[c])
     \/ InfrastructureFails(c, local[c], "export-settled")
  /\ UNCHANGED <<runVars, stopScheduling, abort, workspace, disk, findings>>

\* Mutant: the cancelled run goes on from the patch to the checks.
WritePatchAndGoOn(c) ==
  /\ pc[c] = "patch-write"
  /\ Store(c, "patch", EnterCheckState(c, local[c]),
           InfrastructureFails(c, local[c], "export-settled"))
  /\ UNCHANGED <<runVars, abort, workspace, findings>>

WritePatch(c) ==
  /\ pc[c] = "patch-write"
  /\ Store(c, "patch",
           IF cancelled THEN Cancel(c, local[c], "patch-captured")
           ELSE EnterCheckState(c, local[c]),
           InfrastructureFails(c, local[c], "export-settled"))
  /\ UNCHANGED <<runVars, abort, workspace, findings>>

\* The one step of the pipeline that does not look at state.cancelled.
ApplyCheckState(c) ==
  /\ pc[c] = "check-state"
  /\ \/ EnterBeforeChecks(c, local[c])
     \/ InfrastructureFails(c, local[c], "patch-captured")
  /\ UNCHANGED <<runVars, stopScheduling, abort, workspace, disk, findings>>

WriteChecksSetupLog(c) ==
  /\ pc[c] = "setup-checks-log"
  /\ LET logged == [local[c] EXCEPT !.step = "none", !.logs = @ \cup {"setup-checks-log"}]
     IN  Store(c, "setup-checks-log",
               IF local[c].step = "failed" THEN InfrastructureFails(c, logged, "patch-captured")
               ELSE IF local[c].step = "cancelled" \/ cancelled
                 THEN Cancel(c, logged, "patch-captured")
               ELSE EnterChecks(c, logged),
               InfrastructureFails(c, local[c], "patch-captured"))
  /\ UNCHANGED <<runVars, abort, workspace, findings>>

\* Mutant: the loop over the checks runs once too often.
EvaluateCheckTooMany(c) ==
  /\ pc[c] = "checks"
  /\ LET last == local[c].checked = NumChecks
     IN  \E v \in Verdicts :
           Goto(c, IF last \/ Aborted(c) THEN "checks-write" ELSE "checks",
                [local[c] EXCEPT !.checked = @ + 1,
                                 !.verdict = ReduceRequiredOutcome({@, v}, NumChecks)])
  /\ UNCHANGED <<runVars, stopScheduling, abort, workspace, disk, findings>>

\* evaluateChecks: one check, then the look at the abort before the next. The
\* graded check, last in order, is projected as pending on the grader.
EvaluateCheck(c) ==
  /\ pc[c] = "checks"
  /\ LET last == local[c].checked + 1 = NumChecks
         Record(changed) == Goto(c, IF last \/ Aborted(c) THEN "checks-write" ELSE "checks",
                                 [changed EXCEPT !.checked = @ + 1])
     IN  IF last /\ c \in Graded THEN Record([local[c] EXCEPT !.grade = "pending"])
         ELSE \E v \in Verdicts :
                Record([local[c] EXCEPT !.verdict = ReduceRequiredOutcome({@, v}, NumChecks)])
  /\ UNCHANGED <<runVars, stopScheduling, abort, workspace, disk, findings>>

\* Mutant: checks that stopped early are taken for the whole evaluation.
WriteChecksAndGoOn(c) ==
  /\ pc[c] = "checks-write"
  /\ Store(c, "checks",
           IF c \in Graded /\ ~Aborted(c) THEN Goto(c, "grading", local[c])
           ELSE FinishCase(c, local[c], "completed", local[c].kept, "evaluated"),
           InfrastructureFails(c, local[c], "checks-evaluated"))
  /\ UNCHANGED <<runVars, abort, workspace, findings>>

WriteChecks(c) ==
  /\ pc[c] = "checks-write"
  /\ Store(c, "checks",
           IF cancelled THEN Cancel(c, local[c], "checked")
           ELSE IF c \in Graded THEN Goto(c, "grading", local[c])
           ELSE FinishCase(c, local[c], "completed", local[c].kept, "evaluated"),
           InfrastructureFails(c, local[c], "checks-evaluated"))
  /\ UNCHANGED <<runVars, abort, workspace, findings>>

\* gradeCase, whose calls each own a temporary directory that may stay behind.
GradeCase(c) ==
  /\ pc[c] = "grading"
  /\ Report(c, "warning", "grading-directory") \/ UNCHANGED findings
  /\ \/ \E v \in Verdicts : Goto(c, "grading-write", [local[c] EXCEPT !.grade = v])
     \/ Aborted(c) /\ Cancel(c, local[c], "checked")
  /\ UNCHANGED <<runVars, stopScheduling, abort, workspace, disk>>

\* A grading that could not be saved does not count.
WriteGrading(c) ==
  /\ pc[c] = "grading-write"
  /\ Store(c, "grading",
           IF cancelled THEN Cancel(c, local[c], "evaluated")
           ELSE FinishCase(c, local[c], "completed", local[c].kept, "evaluated"),
           InfrastructureFails(c, local[c], "checked"))
  /\ UNCHANGED <<runVars, abort, workspace, findings>>

-----------------------------------------------------------------------------
(* persistAndCleanup, and executeCase's finally.                           *)

Leave(c) ==
  /\ Goto(c, "over", NoLocal)
  /\ abort' = [abort EXCEPT ![c] = "absent"]

\* Mutant: the workspace goes although the result was not saved.
FinalizeCaseAndDelete(c) ==
  /\ pc[c] = "finalize"
  /\ Store(c, "result",
           UNCHANGED findings,
           Report(c, "error", "result"))
  /\ IF workspace[c] # "present" THEN Leave(c)
     ELSE Goto(c, "dispose", NoLocal) /\ UNCHANGED abort
  /\ UNCHANGED <<runVars, workspace>>

\* The workspace outlives a result that could not be saved.
FinalizeCase(c) ==
  /\ pc[c] = "finalize"
  /\ Store(c, "result",
           /\ UNCHANGED findings
           /\ IF workspace[c] # "present" THEN Leave(c)
              ELSE Goto(c, "dispose", NoLocal) /\ UNCHANGED abort,
           /\ Report(c, "error", "result")
           /\ Leave(c))
  /\ UNCHANGED <<runVars, workspace>>

Dispose(c) ==
  /\ pc[c] = "dispose"
  /\ \/ workspace' = [workspace EXCEPT ![c] = "removed"] /\ UNCHANGED findings
     \/ Report(c, "warning", "workspace") /\ UNCHANGED workspace
  /\ Leave(c)
  /\ UNCHANGED <<runVars, stopScheduling, disk>>

-----------------------------------------------------------------------------
RunStep ==
  \/ PreflightRefuses \/ PreflightPasses \/ StartRunFails \/ RunStarts
  \/ RunEnds \/ FinalizeRun \/ RebuildRunReport

AgentStep(c) ==
  \/ LaunchAgent(c) \/ ReportLaunchFailure(c) \/ IdentifySession(c)
  \/ \E stream \in Streams : AppendRecord(c, stream)
  \/ AgentEnds(c) \/ IsReadable(c) \/ CaptureTimeoutPatch(c) \/ WriteTimeoutPatch(c)

EvaluationStep(c) ==
  \/ ExportSession(c) \/ WriteSessionExport(c) \/ CapturePatch(c) \/ WritePatch(c)
  \/ ApplyCheckState(c) \/ WriteChecksSetupLog(c)
  \/ EvaluateCheck(c) \/ WriteChecks(c) \/ GradeCase(c) \/ WriteGrading(c)

CaseStep(c) ==
  /\ phase = "cases"
  /\ \/ StartCase(c) \/ SkipCase(c) \/ CreateIsolatedCase(c) \/ CreateCaseEnvironments(c)
     \/ RunSetupPhase(c) \/ WriteAgentSetupLog(c) \/ SnapshotPatchBase(c)
     \/ AgentStep(c) \/ EvaluationStep(c)
     \/ FinalizeCase(c) \/ Dispose(c)

Next == SignalArrives \/ ForcedExit \/ RunStep \/ \E c \in Cases : CaseStep(c)

Spec == Init /\ [][Next]_vars

\* Every awaited call comes back: git, the checks, the setup commands and the
\* agent run under a timeout of their own, and file system calls return. The
\* forced exit is not relied on.
Fairness == WF_vars(RunStep) /\ \A c \in Cases : WF_vars(CaseStep(c))

FairSpec == Spec /\ Fairness
=============================================================================
