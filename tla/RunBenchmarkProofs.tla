------------------------- MODULE RunBenchmarkProofs -------------------------
(***************************************************************************)
(* Proofs about runBenchmark for every number of cases, pool size, number  *)
(* of checks and choice of repositories with setup, check state or grader: *)
(* types and interrupts, what a run leaves behind, and the case ledger.    *)
(***************************************************************************)
EXTENDS RunBenchmarkProperties, TLAPS

Calls == Awaits \cup {"queued", "over"}

\* The calls at which some of the checks may have been evaluated.
CheckCalls == {"checks", "checks-write", "grading", "grading-write"}

CaseTypes ==
  /\ pc \in [Cases -> Calls]
  /\ local \in [Cases -> Locals]
  /\ results \in [Cases -> Results \cup {NoResult}]
  /\ lifecycle \in [Cases -> Terminal \cup {"none", "queued", "preparing", "running", "evaluating"}]

RunTypes ==
  /\ signal \in BOOLEAN /\ cancelled \in BOOLEAN /\ stopScheduling \in BOOLEAN
  /\ phase \in Phases
  /\ exitCode \in {-1, 0, 1, 2, 130}
  /\ abort \in [Cases -> {"absent", "live", "fired"}]
  /\ workspace \in [Cases -> {"none", "partial", "present", "removed"}]
  /\ disk \in [Cases -> SUBSET (Evidence \cup {"result"})]
  /\ findings \subseteq Findings

\* What TypeOK lacks to be inductive: a check is evaluated only while one is left.
CheckCount ==
  \A c \in Cases :
    /\ pc[c] = "checks" => local[c].checked < NumChecks
    /\ pc[c] \notin CheckCalls => local[c].checked = 0

CaseInv == CaseTypes /\ CheckCount

\* What a pipeline object may be handed over to which call.
Fits(call, carried) ==
  /\ carried \in Locals
  /\ call = "checks" => carried.checked < NumChecks
  /\ call \notin CheckCalls => carried.checked = 0

LEMMA TypeParts == TypeOK <=> CaseTypes /\ RunTypes
  BY DEF TypeOK, CaseTypes, RunTypes, Calls

LEMMA GotoTyped ==
  ASSUME CaseInv, NEW c \in Cases, NEW call \in Calls, NEW carried,
         Fits(call, carried), Goto(c, call, carried)
  PROVE  CaseInv'
  BY DEF CaseInv, CaseTypes, CheckCount, Fits, Goto

LEMMA AnnounceTyped ==
  ASSUME CaseInv, NEW c \in Cases, NEW call \in Calls, NEW carried,
         NEW state \in Terminal \cup {"none", "queued", "preparing", "running", "evaluating"},
         Fits(call, carried), Announce(c, call, carried, state)
  PROVE  CaseInv'
  BY DEF CaseInv, CaseTypes, CheckCount, Fits, Announce

LEMMA NoLocalFits == RunAssumption => NoLocal \in Locals /\ NoLocal.checked = 0
  BY DEF NoLocal, Locals, Verdicts, RunAssumption

LEMMA PersistTyped ==
  ASSUME CaseInv, NEW c \in Cases, NEW record \in Results, Persist(c, record)
  PROVE  CaseInv'
<1>1. record.lifecycle \in Terminal
  BY DEF Results
<1>2. "finalize" \in Calls /\ "finalize" \notin CheckCalls
  BY DEF Calls, Awaits, CheckCalls
<1>3. NoLocal \in Locals /\ NoLocal.checked = 0
  BY RunAssumption, NoLocalFits
<1> QED
  BY <1>1, <1>2, <1>3 DEF CaseInv, CaseTypes, CheckCount, Persist

Stages == {"export-settled", "patch-captured", "checks-evaluated", "checked", "evaluated"}

LEMMA EndBeforeAgentTyped ==
  ASSUME CaseInv, NEW c \in Cases, NEW ending \in Terminal, NEW logs \in SUBSET Logs,
         EndBeforeAgent(c, ending, logs)
  PROVE  CaseInv'
<1> DEFINE record == [lifecycle |-> ending, outcome |-> "not-evaluated", failed |-> TRUE,
                      artifacts |-> logs, checks |-> 0]
<1>1. record \in Results
  BY RunAssumption DEF Results, Evidence, RunAssumption
<1>2. Persist(c, record)
  BY DEF EndBeforeAgent
<1> HIDE DEF record
<1> QED
  BY <1>1, <1>2, PersistTyped

LEMMA StageIndexTyped ==
  ASSUME NEW c, NEW reached \in Stages
  PROVE  StageIndex(c, reached) \subseteq Evidence
  BY DEF Stages, StageIndex, Evidence

LEMMA ReducedIsVerdict ==
  ASSUME NEW verdicts, NEW evaluated
  PROVE  ReduceRequiredOutcome(verdicts, evaluated) \in Verdicts
  BY DEF ReduceRequiredOutcome, Verdicts

LEMMA FinishCaseTyped ==
  ASSUME CaseInv, NEW c \in Cases, NEW carried \in Locals, NEW ending \in Terminal,
         NEW failed \in BOOLEAN, NEW reached \in Stages,
         FinishCase(c, carried, ending, failed, reached)
  PROVE  CaseInv'
<1> DEFINE outcome == IF ending = "completed"
                      THEN ReduceRequiredOutcome({carried.verdict, carried.grade}, carried.checked)
                      ELSE "not-evaluated"
           index   == (carried.seen \cap (Records \cup {"session"})) \cup carried.logs
                        \cup StageIndex(c, reached)
           record(decoding) == [lifecycle |-> ending, outcome |-> outcome,
                                failed |-> failed \/ decoding, artifacts |-> index,
                                checks |-> carried.checked]
<1>1. PICK decoding \in BOOLEAN : Persist(c, record(decoding))
  BY DEF FinishCase
<1>2. outcome \in Verdicts \cup {"not-evaluated"}
  BY ReducedIsVerdict
<1>3. index \subseteq Evidence
  BY StageIndexTyped DEF Locals, Evidence
<1>4. carried.checked \in 0..NumChecks
  BY DEF Locals
<1>5. record(decoding) \in Results
  <2> HIDE DEF outcome, index
  <2> QED BY <1>2, <1>3, <1>4 DEF Results
<1> HIDE DEF record
<1> QED
  BY <1>1, <1>5, PersistTyped

LEMMA InfrastructureFailsTyped ==
  ASSUME CaseInv, NEW c \in Cases, NEW carried \in Locals, NEW reached \in Stages,
         InfrastructureFails(c, carried, reached)
  PROVE  CaseInv'
  BY FinishCaseTyped DEF InfrastructureFails, Terminal

LEMMA CancelTyped ==
  ASSUME CaseInv, NEW c \in Cases, NEW carried \in Locals, NEW reached \in Stages,
         Cancel(c, carried, reached)
  PROVE  CaseInv'
<1>1. carried.kept \in BOOLEAN
  BY DEF Locals
<1> QED
  BY <1>1, FinishCaseTyped DEF Cancel, Terminal

LEMMA EnterChecksTyped ==
  ASSUME CaseInv, NEW c \in Cases, NEW carried \in Locals, carried.checked = 0,
         EnterChecks(c, carried)
  PROVE  CaseInv'
<1>1. 0 < NumChecks
  BY RunAssumption DEF RunAssumption
<1>2. "checks" \in Calls /\ "checks-write" \in Calls
  BY DEF Calls, Awaits
<1>3. Fits("checks", carried) /\ Fits("checks-write", carried)
  BY <1>1 DEF Fits
<1> QED
  BY <1>2, <1>3, GotoTyped DEF EnterChecks

LEMMA EnterBeforeChecksTyped ==
  ASSUME CaseInv, NEW c \in Cases, NEW carried \in Locals, carried.checked = 0,
         EnterBeforeChecks(c, carried)
  PROVE  CaseInv'
<1>1. "setup-checks" \in Calls /\ Fits("setup-checks", carried) /\ "patch-captured" \in Stages
  BY DEF Calls, Awaits, Fits, Stages
<1> QED
  BY <1>1, EnterChecksTyped, CancelTyped, GotoTyped DEF EnterBeforeChecks

LEMMA EnterCheckStateTyped ==
  ASSUME CaseInv, NEW c \in Cases, NEW carried \in Locals, carried.checked = 0,
         EnterCheckState(c, carried)
  PROVE  CaseInv'
<1>1. "check-state" \in Calls /\ Fits("check-state", carried)
  BY DEF Calls, Awaits, Fits
<1> QED
  BY <1>1, EnterBeforeChecksTyped, GotoTyped DEF EnterCheckState

LEMMA EnterAgentTyped ==
  ASSUME CaseInv, NEW c \in Cases, NEW carried \in Locals, carried.checked = 0,
         EnterAgent(c, carried)
  PROVE  CaseInv'
<1>1. "launch" \in Calls /\ Fits("launch", carried)
  BY DEF Calls, Awaits, Fits
<1> QED
  BY <1>1, AnnounceTyped DEF EnterAgent

LEMMA SettleExportTyped ==
  ASSUME CaseInv, NEW c \in Cases, NEW carried \in Locals, carried.checked = 0,
         SettleExport(c, carried)
  PROVE  CaseInv'
<1>1. "patch" \in Calls /\ Fits("patch", carried) /\ "export-settled" \in Stages
  BY DEF Calls, Awaits, Fits, Stages
<1> QED
  BY <1>1, AnnounceTyped, CancelTyped DEF SettleExport

LEMMA EnterEvaluationTyped ==
  ASSUME CaseInv, NEW c \in Cases, NEW failed \in BOOLEAN, pc[c] \notin CheckCalls,
         EnterEvaluation(c, failed)
  PROVE  CaseInv'
<1> DEFINE carried == [local[c] EXCEPT !.kept = failed]
<1>1. carried \in Locals /\ carried.checked = 0
  BY DEF CaseInv, CaseTypes, CheckCount, Locals
<1>2. "export" \in Calls /\ Fits("export", carried)
  BY <1>1 DEF Calls, Awaits, Fits
<1>3. \/ Announce(c, "export", carried, "evaluating")
      \/ SettleExport(c, carried)
  BY DEF EnterEvaluation
<1> HIDE DEF carried
<1> QED
  BY <1>1, <1>2, <1>3, AnnounceTyped, SettleExportTyped

-----------------------------------------------------------------------------
(* Every action keeps the types and the check count.                       *)

TypeInv == CaseInv /\ RunTypes

LEMMA LocalBefore ==
  ASSUME CaseInv, NEW c \in Cases
  PROVE  /\ local[c] \in Locals
         /\ pc[c] \notin CheckCalls => local[c].checked = 0
         /\ pc[c] = "checks" => local[c].checked < NumChecks
  BY DEF CaseInv, CaseTypes, CheckCount

LEMMA ReportTyped ==
  ASSUME RunTypes, NEW c \in Cases, NEW severity \in {"warning", "error"},
         NEW about \in {"skipped", "result", "workspace", "patch", "grading-directory"},
         Report(c, severity, about)
  PROVE  findings' \subseteq Findings
  BY DEF RunTypes, Report, Findings

\* What a store write does to the disk and to scheduling, whatever follows it.
Stored(c, file) ==
  \/ disk' = [disk EXCEPT ![c] = @ \cup {file}] /\ stopScheduling' = stopScheduling
  \/ stopScheduling' = TRUE /\ disk' = disk

LEMMA StoredTyped ==
  ASSUME RunTypes, NEW c \in Cases, NEW file \in Evidence \cup {"result"}, Stored(c, file)
  PROVE  disk' \in [Cases -> SUBSET (Evidence \cup {"result"})] /\ stopScheduling' \in BOOLEAN
<1> DEFINE Files == Evidence \cup {"result"}
<1>1. disk \in [Cases -> SUBSET Files] /\ stopScheduling \in BOOLEAN
  BY DEF RunTypes
<1>2. CASE disk' = [disk EXCEPT ![c] = @ \cup {file}] /\ stopScheduling' = stopScheduling
  <2>1. disk[c] \cup {file} \in SUBSET Files
    BY <1>1
  <2> HIDE DEF Files
  <2> QED BY <1>1, <1>2, <2>1 DEF Files
<1>3. CASE stopScheduling' = TRUE /\ disk' = disk
  BY <1>1, <1>3
<1> QED
  BY <1>2, <1>3 DEF Stored

LEMMA StartCaseTyped ==
  ASSUME TypeInv, NEW c \in Cases, StartCase(c) PROVE TypeInv'
<1>1. NoLocal \in Locals /\ NoLocal.checked = 0
  BY RunAssumption, NoLocalFits
<1>2. "workspace" \in Calls /\ Fits("workspace", NoLocal)
  BY <1>1 DEF Calls, Awaits, Fits
<1>3. CaseInv'
  BY <1>2, AnnounceTyped DEF StartCase, TypeInv
<1>4. RunTypes'
  BY DEF StartCase, TypeInv, RunTypes, runVars
<1> QED BY <1>3, <1>4 DEF TypeInv

LEMMA SkipCaseTyped ==
  ASSUME TypeInv, NEW c \in Cases, SkipCase(c) PROVE TypeInv'
<1>1. NoLocal \in Locals /\ NoLocal.checked = 0
  BY RunAssumption, NoLocalFits
<1>2. "over" \in Calls /\ Fits("over", NoLocal)
  BY <1>1 DEF Calls, Fits
<1>3. CaseInv'
  BY <1>2, GotoTyped DEF SkipCase, TypeInv
<1>4. findings' \subseteq Findings
  BY ReportTyped DEF SkipCase, TypeInv
<1>5. RunTypes'
  BY <1>4 DEF SkipCase, TypeInv, RunTypes, runVars
<1> QED BY <1>3, <1>5 DEF TypeInv

LEMMA CreateIsolatedCaseTyped ==
  ASSUME TypeInv, NEW c \in Cases, CreateIsolatedCase(c) PROVE TypeInv'
<1>1. NoLocal \in Locals /\ NoLocal.checked = 0
  BY RunAssumption, NoLocalFits
<1>2. "environments" \in Calls /\ Fits("environments", NoLocal) /\ "infrastructure-failed" \in Terminal
  BY <1>1 DEF Calls, Awaits, Fits, Terminal
<1>3. CaseInv'
  BY <1>2, GotoTyped, EndBeforeAgentTyped DEF CreateIsolatedCase, TypeInv
<1>4. RunTypes'
  BY DEF CreateIsolatedCase, TypeInv, RunTypes, runVars
<1> QED BY <1>3, <1>4 DEF TypeInv

LEMMA CreateCaseEnvironmentsTyped ==
  ASSUME TypeInv, NEW c \in Cases, CreateCaseEnvironments(c) PROVE TypeInv'
<1>1. NoLocal \in Locals /\ NoLocal.checked = 0
  BY RunAssumption, NoLocalFits
<1>2. /\ "setup-agent" \in Calls /\ Fits("setup-agent", NoLocal)
      /\ {"infrastructure-failed", "cancelled"} \subseteq Terminal
  BY <1>1 DEF Calls, Awaits, Fits, Terminal
<1>3. CaseInv'
  BY <1>1, <1>2, GotoTyped, EndBeforeAgentTyped, EnterAgentTyped
  DEF CreateCaseEnvironments, TypeInv
<1>4. RunTypes'
  BY DEF CreateCaseEnvironments, TypeInv, RunTypes, runVars
<1> QED BY <1>3, <1>4 DEF TypeInv

LEMMA RunSetupPhaseTyped ==
  ASSUME TypeInv, NEW c \in Cases, RunSetupPhase(c) PROVE TypeInv'
<1>1. local[c] \in Locals /\ local[c].checked = 0
  BY LocalBefore DEF RunSetupPhase, TypeInv, CheckCalls
<1>2. PICK status \in {"passed", "failed", "cancelled"} :
        Goto(c, IF pc[c] = "setup-agent" THEN "setup-agent-log" ELSE "setup-checks-log",
             [local[c] EXCEPT !.step = status])
  BY DEF RunSetupPhase
<1> DEFINE carried == [local[c] EXCEPT !.step = status]
<1>3. carried \in Locals /\ carried.checked = 0
  BY <1>1 DEF Locals
<1> HIDE DEF carried
<1>4. /\ "setup-agent-log" \in Calls /\ Fits("setup-agent-log", carried)
      /\ "setup-checks-log" \in Calls /\ Fits("setup-checks-log", carried)
  BY <1>3 DEF Calls, Awaits, Fits
<1>5. CaseInv'
  BY <1>2, <1>4, GotoTyped DEF TypeInv, carried
<1>6. RunTypes'
  BY DEF RunSetupPhase, TypeInv, RunTypes, runVars
<1> QED BY <1>5, <1>6 DEF TypeInv

\* A written setup log leaves a pipeline object of the right type.
LEMMA LoggedTyped ==
  ASSUME CaseInv, NEW c \in Cases, pc[c] \notin CheckCalls, NEW log \in Logs
  PROVE  LET logged == [local[c] EXCEPT !.step = "none", !.logs = @ \cup {log}]
         IN  logged \in Locals /\ logged.checked = 0 /\ logged.logs \in SUBSET Logs
<1>1. local[c] \in Locals /\ local[c].checked = 0
  BY LocalBefore
<1> QED BY <1>1 DEF Locals

LEMMA WriteAgentSetupLogTyped ==
  ASSUME TypeInv, NEW c \in Cases, WriteAgentSetupLog(c) PROVE TypeInv'
<1> DEFINE logged == [local[c] EXCEPT !.step = "none", !.logs = @ \cup {"setup-agent-log"}]
<1>1. logged \in Locals /\ logged.checked = 0 /\ logged.logs \in SUBSET Logs
  BY LoggedTyped DEF WriteAgentSetupLog, TypeInv, CheckCalls, Logs
<1>2. \/ EndBeforeAgent(c, "infrastructure-failed", logged.logs)
      \/ EndBeforeAgent(c, "cancelled", logged.logs)
      \/ Goto(c, "patch-base", logged)
      \/ EndBeforeAgent(c, "infrastructure-failed", {})
  BY DEF WriteAgentSetupLog, Store
<1> HIDE DEF logged
<1>3. /\ "patch-base" \in Calls /\ Fits("patch-base", logged)
      /\ {"infrastructure-failed", "cancelled"} \subseteq Terminal
  BY <1>1 DEF Calls, Awaits, Fits, Terminal
<1>4. CaseInv'
  BY <1>1, <1>2, <1>3, GotoTyped, EndBeforeAgentTyped DEF TypeInv
<1>5. Stored(c, "setup-agent-log")
  BY DEF WriteAgentSetupLog, Store, Stored
<1>6. RunTypes'
  BY <1>5, StoredTyped DEF WriteAgentSetupLog, TypeInv, RunTypes, runVars, Evidence, Logs
<1> QED BY <1>4, <1>6 DEF TypeInv

LEMMA SnapshotPatchBaseTyped ==
  ASSUME TypeInv, NEW c \in Cases, SnapshotPatchBase(c) PROVE TypeInv'
<1>1. local[c] \in Locals /\ local[c].checked = 0 /\ local[c].logs \in SUBSET Logs
  BY LocalBefore DEF SnapshotPatchBase, TypeInv, CheckCalls, Locals
<1>2. {"infrastructure-failed", "cancelled"} \subseteq Terminal
  BY DEF Terminal
<1>3. CaseInv'
  BY <1>1, <1>2, EndBeforeAgentTyped, EnterAgentTyped DEF SnapshotPatchBase, TypeInv
<1>4. RunTypes'
  BY DEF SnapshotPatchBase, TypeInv, RunTypes, runVars
<1> QED BY <1>3, <1>4 DEF TypeInv

LEMMA LaunchAgentTyped ==
  ASSUME TypeInv, NEW c \in Cases, LaunchAgent(c) PROVE TypeInv'
<1>1. local[c] \in Locals /\ local[c].checked = 0
  BY LocalBefore DEF LaunchAgent, TypeInv, CheckCalls
<1>2. /\ "agent" \in Calls /\ Fits("agent", local[c])
      /\ "launch-report" \in Calls /\ Fits("launch-report", local[c])
  BY <1>1 DEF Calls, Awaits, Fits
<1>3. CaseInv'
  BY <1>2, GotoTyped DEF LaunchAgent, TypeInv
<1>4. RunTypes'
  BY DEF LaunchAgent, TypeInv, RunTypes, runVars
<1> QED BY <1>3, <1>4 DEF TypeInv

LEMMA IdentifySessionTyped ==
  ASSUME TypeInv, NEW c \in Cases, IdentifySession(c) PROVE TypeInv'
<1> DEFINE carried == [local[c] EXCEPT !.seen = @ \cup {"session-id"}]
<1>1. local[c] \in Locals /\ local[c].checked = 0
  BY LocalBefore DEF IdentifySession, TypeInv, CheckCalls
<1>2. carried \in Locals /\ carried.checked = 0
  BY <1>1 DEF Locals
<1>3. Goto(c, "agent", carried)
  BY DEF IdentifySession
<1> HIDE DEF carried
<1>4. "agent" \in Calls /\ Fits("agent", carried)
  BY <1>2 DEF Calls, Awaits, Fits
<1>5. CaseInv'
  BY <1>3, <1>4, GotoTyped DEF TypeInv
<1>6. RunTypes'
  BY DEF IdentifySession, TypeInv, RunTypes, runVars
<1> QED BY <1>5, <1>6 DEF TypeInv

LEMMA CountedTyped ==
  ASSUME CaseInv, NEW c \in Cases, pc[c] \notin CheckCalls, NEW stream \in Records
  PROVE  /\ Counted(c, stream) \in Locals /\ Counted(c, stream).checked = 0
         /\ LET lost == [Counted(c, stream) EXCEPT !.lost = @ \cup {stream}]
            IN  lost \in Locals /\ lost.checked = 0
<1>1. local[c] \in Locals /\ local[c].checked = 0
  BY LocalBefore
<1>2. Counted(c, stream) \in Locals /\ Counted(c, stream).checked = 0
  BY <1>1 DEF Counted, Locals
<1> QED BY <1>2 DEF Locals

\* What an append does to the disk, to scheduling and to the case's controller.
Appended(c, stream) ==
  \/ /\ disk' = [disk EXCEPT ![c] = @ \cup {stream}]
     /\ stopScheduling' = stopScheduling
     /\ abort' = abort
  \/ /\ stopScheduling' = TRUE
     /\ disk' = disk
     /\ abort' = [abort EXCEPT ![c] = "fired"]

LEMMA AppendedTyped ==
  ASSUME RunTypes, NEW c \in Cases, NEW stream \in Records, Appended(c, stream),
         UNCHANGED <<runVars, workspace, findings>>
  PROVE  RunTypes'
<1>1. Stored(c, stream) /\ stream \in Evidence \cup {"result"}
  BY DEF Appended, Stored, Evidence
<1>2. disk' \in [Cases -> SUBSET (Evidence \cup {"result"})] /\ stopScheduling' \in BOOLEAN
  BY <1>1, StoredTyped
<1>3. abort' \in [Cases -> {"absent", "live", "fired"}]
  BY DEF Appended, RunTypes
<1> QED BY <1>2, <1>3 DEF RunTypes, runVars

LEMMA AppendRecordTyped ==
  ASSUME TypeInv, NEW c \in Cases, NEW stream \in Streams, AppendRecord(c, stream)
  PROVE  TypeInv'
<1> DEFINE counted == Counted(c, stream)
           lost == [Counted(c, stream) EXCEPT !.lost = @ \cup {stream}]
<1>1. stream \in Records
  BY RunAssumption DEF RunAssumption, Records
<1>2. counted \in Locals /\ counted.checked = 0 /\ lost \in Locals /\ lost.checked = 0
  BY <1>1, CountedTyped DEF AppendRecord, TypeInv, CheckCalls
<1>3. Goto(c, "agent", counted) \/ Goto(c, "agent", lost)
  BY DEF AppendRecord, DeliverRecord
<1>4. Appended(c, stream) /\ UNCHANGED <<runVars, workspace, findings>>
  BY DEF AppendRecord, DeliverRecord, Appended
<1> HIDE DEF counted, lost
<1>5. "agent" \in Calls /\ Fits("agent", counted) /\ Fits("agent", lost)
  BY <1>2 DEF Calls, Awaits, Fits
<1>6. CaseInv'
  BY <1>3, <1>5, GotoTyped DEF TypeInv
<1>7. RunTypes'
  BY <1>1, <1>4, AppendedTyped DEF TypeInv
<1> QED BY <1>6, <1>7 DEF TypeInv

LEMMA ReportLaunchFailureTyped ==
  ASSUME TypeInv, NEW c \in Cases, ReportLaunchFailure(c) PROVE TypeInv'
<1> DEFINE counted == Counted(c, "diagnostics")
<1>1. "diagnostics" \in Records
  BY DEF Records
<1>2. counted \in Locals /\ counted.checked = 0
  BY <1>1, CountedTyped DEF ReportLaunchFailure, TypeInv, CheckCalls
<1>3. Goto(c, "readable", counted) \/ InfrastructureFails(c, counted, "export-settled")
  BY DEF ReportLaunchFailure, DeliverRecord
<1>4. Appended(c, "diagnostics") /\ UNCHANGED <<runVars, workspace, findings>>
  BY DEF ReportLaunchFailure, DeliverRecord, Appended
<1> HIDE DEF counted
<1>5. "readable" \in Calls /\ Fits("readable", counted) /\ "export-settled" \in Stages
  BY <1>2 DEF Calls, Awaits, Fits, Stages
<1>6. CaseInv'
  BY <1>2, <1>3, <1>5, GotoTyped, InfrastructureFailsTyped DEF TypeInv
<1>7. RunTypes'
  BY <1>1, <1>4, AppendedTyped DEF TypeInv
<1> QED BY <1>6, <1>7 DEF TypeInv

LEMMA AgentEndsTyped ==
  ASSUME TypeInv, NEW c \in Cases, AgentEnds(c) PROVE TypeInv'
<1>1. local[c] \in Locals /\ local[c].checked = 0 /\ pc[c] \notin CheckCalls
  BY LocalBefore DEF AgentEnds, TypeInv, CheckCalls
<1>2. \A call \in {"timeout-patch", "readable"} : call \in Calls /\ Fits(call, local[c])
  BY <1>1 DEF Calls, Awaits, Fits
<1>3. "export-settled" \in Stages /\ "cancelled" \in Terminal
  BY DEF Stages, Terminal
<1>4. CaseInv'
  BY <1>1, <1>2, <1>3, GotoTyped, EnterEvaluationTyped, FinishCaseTyped, InfrastructureFailsTyped
  DEF AgentEnds, TypeInv
<1>5. RunTypes'
  BY DEF AgentEnds, TypeInv, RunTypes, runVars
<1> QED BY <1>4, <1>5 DEF TypeInv

LEMMA IsReadableTyped ==
  ASSUME TypeInv, NEW c \in Cases, IsReadable(c) PROVE TypeInv'
<1>1. local[c] \in Locals /\ pc[c] \notin CheckCalls
  BY LocalBefore DEF IsReadable, TypeInv, CheckCalls
<1>2. "export-settled" \in Stages /\ "process-failed" \in Terminal
  BY DEF Stages, Terminal
<1>3. CaseInv'
  BY <1>1, <1>2, EnterEvaluationTyped, FinishCaseTyped DEF IsReadable, TypeInv
<1>4. RunTypes'
  BY DEF IsReadable, TypeInv, RunTypes, runVars
<1> QED BY <1>3, <1>4 DEF TypeInv

LEMMA CaptureTimeoutPatchTyped ==
  ASSUME TypeInv, NEW c \in Cases, CaptureTimeoutPatch(c) PROVE TypeInv'
<1>1. local[c] \in Locals /\ local[c].checked = 0
  BY LocalBefore DEF CaptureTimeoutPatch, TypeInv, CheckCalls
<1>2. "timeout-patch-write" \in Calls /\ Fits("timeout-patch-write", local[c])
  BY <1>1 DEF Calls, Awaits, Fits
<1>3. "export-settled" \in Stages /\ "timed-out" \in Terminal
  BY DEF Stages, Terminal
<1>4. CaseInv'
  BY <1>1, <1>2, <1>3, GotoTyped, FinishCaseTyped DEF CaptureTimeoutPatch, TypeInv
<1>5. findings' \subseteq Findings
  BY ReportTyped DEF CaptureTimeoutPatch, TypeInv, RunTypes
<1>6. RunTypes'
  BY <1>5 DEF CaptureTimeoutPatch, TypeInv, RunTypes, runVars
<1> QED BY <1>4, <1>6 DEF TypeInv

LEMMA WriteTimeoutPatchTyped ==
  ASSUME TypeInv, NEW c \in Cases, WriteTimeoutPatch(c) PROVE TypeInv'
<1>1. local[c] \in Locals
  BY LocalBefore DEF TypeInv
<1>2. {"export-settled", "patch-captured"} \subseteq Stages /\ "timed-out" \in Terminal
  BY DEF Stages, Terminal
<1>3. \/ FinishCase(c, local[c], "timed-out", TRUE, "patch-captured")
      \/ InfrastructureFails(c, local[c], "export-settled")
  BY DEF WriteTimeoutPatch, Store
<1>4. CaseInv'
  BY <1>1, <1>2, <1>3, FinishCaseTyped, InfrastructureFailsTyped DEF TypeInv
<1>5. Stored(c, "patch")
  BY DEF WriteTimeoutPatch, Store, Stored
<1>6. RunTypes'
  BY <1>5, StoredTyped DEF WriteTimeoutPatch, TypeInv, RunTypes, runVars, Evidence
<1> QED BY <1>4, <1>6 DEF TypeInv

LEMMA ExportSessionTyped ==
  ASSUME TypeInv, NEW c \in Cases, ExportSession(c) PROVE TypeInv'
<1> DEFINE kept == [local[c] EXCEPT !.kept = TRUE]
<1>1. local[c] \in Locals /\ local[c].checked = 0
  BY LocalBefore DEF ExportSession, TypeInv, CheckCalls
<1>2. kept \in Locals /\ kept.checked = 0
  BY <1>1 DEF Locals
<1>3. Goto(c, "export-write", local[c]) \/ SettleExport(c, kept)
  BY DEF ExportSession
<1> HIDE DEF kept
<1>4. "export-write" \in Calls /\ Fits("export-write", local[c])
  BY <1>1 DEF Calls, Awaits, Fits
<1>5. CaseInv'
  BY <1>2, <1>3, <1>4, GotoTyped, SettleExportTyped DEF TypeInv
<1>6. RunTypes'
  BY DEF ExportSession, TypeInv, RunTypes, runVars
<1> QED BY <1>5, <1>6 DEF TypeInv

LEMMA WriteSessionExportTyped ==
  ASSUME TypeInv, NEW c \in Cases, WriteSessionExport(c) PROVE TypeInv'
<1> DEFINE exported == [local[c] EXCEPT !.seen = @ \cup {"session"}]
<1>1. local[c] \in Locals /\ local[c].checked = 0
  BY LocalBefore DEF WriteSessionExport, TypeInv, CheckCalls
<1>2. exported \in Locals /\ exported.checked = 0
  BY <1>1 DEF Locals
<1>3. SettleExport(c, exported) \/ InfrastructureFails(c, local[c], "export-settled")
  BY DEF WriteSessionExport, Store
<1> HIDE DEF exported
<1>4. "export-settled" \in Stages
  BY DEF Stages
<1>5. CaseInv'
  BY <1>1, <1>2, <1>3, <1>4, SettleExportTyped, InfrastructureFailsTyped DEF TypeInv
<1>6. Stored(c, "session")
  BY DEF WriteSessionExport, Store, Stored
<1>7. RunTypes'
  BY <1>6, StoredTyped DEF WriteSessionExport, TypeInv, RunTypes, runVars, Evidence
<1> QED BY <1>5, <1>7 DEF TypeInv

LEMMA CapturePatchTyped ==
  ASSUME TypeInv, NEW c \in Cases, CapturePatch(c) PROVE TypeInv'
<1>1. local[c] \in Locals /\ local[c].checked = 0
  BY LocalBefore DEF CapturePatch, TypeInv, CheckCalls
<1>2. "patch-write" \in Calls /\ Fits("patch-write", local[c]) /\ "export-settled" \in Stages
  BY <1>1 DEF Calls, Awaits, Fits, Stages
<1>3. CaseInv'
  BY <1>1, <1>2, GotoTyped, InfrastructureFailsTyped DEF CapturePatch, TypeInv
<1>4. RunTypes'
  BY DEF CapturePatch, TypeInv, RunTypes, runVars
<1> QED BY <1>3, <1>4 DEF TypeInv

LEMMA WritePatchTyped ==
  ASSUME TypeInv, NEW c \in Cases, WritePatch(c) PROVE TypeInv'
<1>1. local[c] \in Locals /\ local[c].checked = 0
  BY LocalBefore DEF WritePatch, TypeInv, CheckCalls
<1>2. \/ Cancel(c, local[c], "patch-captured")
      \/ EnterCheckState(c, local[c])
      \/ InfrastructureFails(c, local[c], "export-settled")
  BY DEF WritePatch, Store
<1>3. {"export-settled", "patch-captured"} \subseteq Stages
  BY DEF Stages
<1>4. CaseInv'
  BY <1>1, <1>2, <1>3, CancelTyped, EnterCheckStateTyped, InfrastructureFailsTyped DEF TypeInv
<1>5. Stored(c, "patch")
  BY DEF WritePatch, Store, Stored
<1>6. RunTypes'
  BY <1>5, StoredTyped DEF WritePatch, TypeInv, RunTypes, runVars, Evidence
<1> QED BY <1>4, <1>6 DEF TypeInv

LEMMA ApplyCheckStateTyped ==
  ASSUME TypeInv, NEW c \in Cases, ApplyCheckState(c) PROVE TypeInv'
<1>1. local[c] \in Locals /\ local[c].checked = 0
  BY LocalBefore DEF ApplyCheckState, TypeInv, CheckCalls
<1>2. "patch-captured" \in Stages
  BY DEF Stages
<1>3. CaseInv'
  BY <1>1, <1>2, EnterBeforeChecksTyped, InfrastructureFailsTyped DEF ApplyCheckState, TypeInv
<1>4. RunTypes'
  BY DEF ApplyCheckState, TypeInv, RunTypes, runVars
<1> QED BY <1>3, <1>4 DEF TypeInv

LEMMA WriteChecksSetupLogTyped ==
  ASSUME TypeInv, NEW c \in Cases, WriteChecksSetupLog(c) PROVE TypeInv'
<1> DEFINE logged == [local[c] EXCEPT !.step = "none", !.logs = @ \cup {"setup-checks-log"}]
<1>1. logged \in Locals /\ logged.checked = 0 /\ local[c] \in Locals
  BY LoggedTyped, LocalBefore DEF WriteChecksSetupLog, TypeInv, CheckCalls, Logs
<1>2. \/ InfrastructureFails(c, logged, "patch-captured")
      \/ Cancel(c, logged, "patch-captured")
      \/ EnterChecks(c, logged)
      \/ InfrastructureFails(c, local[c], "patch-captured")
  BY DEF WriteChecksSetupLog, Store
<1> HIDE DEF logged
<1>3. "patch-captured" \in Stages
  BY DEF Stages
<1>4. CaseInv'
  BY <1>1, <1>2, <1>3, EnterChecksTyped, CancelTyped, InfrastructureFailsTyped DEF TypeInv
<1>5. Stored(c, "setup-checks-log")
  BY DEF WriteChecksSetupLog, Store, Stored
<1>6. RunTypes'
  BY <1>5, StoredTyped DEF WriteChecksSetupLog, TypeInv, RunTypes, runVars, Evidence, Logs
<1> QED BY <1>4, <1>6 DEF TypeInv

LEMMA EvaluateCheckTyped ==
  ASSUME TypeInv, NEW c \in Cases, EvaluateCheck(c) PROVE TypeInv'
<1> DEFINE before == local[c]
           last == before.checked + 1 = NumChecks
           next == IF last \/ Aborted(c) THEN "checks-write" ELSE "checks"
           graded == [[before EXCEPT !.grade = "pending"] EXCEPT !.checked = @ + 1]
           judged(v) == [[before EXCEPT !.verdict = ReduceRequiredOutcome({@, v}, NumChecks)]
                           EXCEPT !.checked = @ + 1]
<1>1. before \in Locals /\ before.checked < NumChecks
  BY LocalBefore DEF EvaluateCheck, TypeInv
<1>2. before.checked \in 0..NumChecks /\ NumChecks \in Nat
  BY <1>1, RunAssumption DEF Locals, RunAssumption
<1>3. before.checked + 1 \in 0..NumChecks /\ (~last => before.checked + 1 < NumChecks)
  BY <1>1, <1>2
<1>4. graded \in Locals /\ graded.checked = before.checked + 1
  BY <1>1, <1>3 DEF Locals, Verdicts
<1>5. ASSUME NEW v \in Verdicts
      PROVE  judged(v) \in Locals /\ judged(v).checked = before.checked + 1
  <2>1. ReduceRequiredOutcome({before.verdict, v}, NumChecks) \in Verdicts
    BY ReducedIsVerdict
  <2> QED BY <1>1, <1>3, <2>1 DEF Locals
<1>6. Goto(c, next, graded) \/ \E v \in Verdicts : Goto(c, next, judged(v))
  BY DEF EvaluateCheck
<1> HIDE DEF graded, judged
<1>7. /\ next \in Calls
      /\ Fits(next, graded)
      /\ \A v \in Verdicts : Fits(next, judged(v))
  BY <1>3, <1>4, <1>5 DEF Calls, Awaits, Fits, CheckCalls
<1> HIDE DEF next
<1>8. CaseInv'
  BY <1>6, <1>7, GotoTyped DEF TypeInv, Fits
<1>9. RunTypes'
  BY DEF EvaluateCheck, TypeInv, RunTypes, runVars
<1> QED BY <1>8, <1>9 DEF TypeInv

LEMMA WriteChecksTyped ==
  ASSUME TypeInv, NEW c \in Cases, WriteChecks(c) PROVE TypeInv'
<1>1. local[c] \in Locals /\ local[c].kept \in BOOLEAN
  BY LocalBefore DEF TypeInv, Locals
<1>2. \/ Cancel(c, local[c], "checked")
      \/ Goto(c, "grading", local[c])
      \/ FinishCase(c, local[c], "completed", local[c].kept, "evaluated")
      \/ InfrastructureFails(c, local[c], "checks-evaluated")
  BY DEF WriteChecks, Store
<1>3. "grading" \in Calls /\ Fits("grading", local[c]) /\ "completed" \in Terminal
  BY <1>1 DEF Calls, Awaits, Fits, CheckCalls, Terminal
<1>4. {"checked", "evaluated", "checks-evaluated"} \subseteq Stages
  BY DEF Stages
<1>5. CaseInv'
  BY <1>1, <1>2, <1>3, <1>4, GotoTyped, CancelTyped, FinishCaseTyped, InfrastructureFailsTyped
  DEF TypeInv
<1>6. Stored(c, "checks")
  BY DEF WriteChecks, Store, Stored
<1>7. RunTypes'
  BY <1>6, StoredTyped DEF WriteChecks, TypeInv, RunTypes, runVars, Evidence
<1> QED BY <1>5, <1>7 DEF TypeInv

LEMMA GradeCaseTyped ==
  ASSUME TypeInv, NEW c \in Cases, GradeCase(c) PROVE TypeInv'
<1> DEFINE graded(v) == [local[c] EXCEPT !.grade = v]
<1>1. local[c] \in Locals
  BY LocalBefore DEF TypeInv
<1>2. \A v \in Verdicts : graded(v) \in Locals
  BY <1>1 DEF Locals
<1>3. \/ \E v \in Verdicts : Goto(c, "grading-write", graded(v))
      \/ Cancel(c, local[c], "checked")
  BY DEF GradeCase
<1> HIDE DEF graded
<1>4. "grading-write" \in Calls /\ "checked" \in Stages
      /\ \A v \in Verdicts : Fits("grading-write", graded(v))
  BY <1>2 DEF Calls, Awaits, Fits, CheckCalls, Stages
<1>5. CaseInv'
  BY <1>1, <1>3, <1>4, GotoTyped, CancelTyped DEF TypeInv, Fits
<1>6. findings' \subseteq Findings
  BY ReportTyped DEF GradeCase, TypeInv, RunTypes
<1>7. RunTypes'
  BY <1>6 DEF GradeCase, TypeInv, RunTypes, runVars
<1> QED BY <1>5, <1>7 DEF TypeInv

LEMMA WriteGradingTyped ==
  ASSUME TypeInv, NEW c \in Cases, WriteGrading(c) PROVE TypeInv'
<1>1. local[c] \in Locals /\ local[c].kept \in BOOLEAN
  BY LocalBefore DEF TypeInv, Locals
<1>2. \/ Cancel(c, local[c], "evaluated")
      \/ FinishCase(c, local[c], "completed", local[c].kept, "evaluated")
      \/ InfrastructureFails(c, local[c], "checked")
  BY DEF WriteGrading, Store
<1>3. {"checked", "evaluated"} \subseteq Stages /\ "completed" \in Terminal
  BY DEF Stages, Terminal
<1>4. CaseInv'
  BY <1>1, <1>2, <1>3, CancelTyped, FinishCaseTyped, InfrastructureFailsTyped DEF TypeInv
<1>5. Stored(c, "grading")
  BY DEF WriteGrading, Store, Stored
<1>6. RunTypes'
  BY <1>5, StoredTyped DEF WriteGrading, TypeInv, RunTypes, runVars, Evidence
<1> QED BY <1>4, <1>6 DEF TypeInv

LEMMA LeaveTyped ==
  ASSUME TypeInv, NEW c \in Cases, Leave(c)
  PROVE  CaseInv' /\ abort' \in [Cases -> {"absent", "live", "fired"}]
<1>1. NoLocal \in Locals /\ NoLocal.checked = 0
  BY RunAssumption, NoLocalFits
<1>2. "over" \in Calls /\ Fits("over", NoLocal)
  BY <1>1 DEF Calls, Fits
<1>3. CaseInv'
  BY <1>2, GotoTyped DEF Leave, TypeInv
<1> QED BY <1>3 DEF Leave, TypeInv, RunTypes

LEMMA FinalizeCaseTyped ==
  ASSUME TypeInv, NEW c \in Cases, FinalizeCase(c) PROVE TypeInv'
<1>1. NoLocal \in Locals /\ NoLocal.checked = 0
  BY RunAssumption, NoLocalFits
<1>2. "dispose" \in Calls /\ Fits("dispose", NoLocal)
  BY <1>1 DEF Calls, Awaits, Fits
<1>3. Leave(c) \/ (Goto(c, "dispose", NoLocal) /\ UNCHANGED abort)
  BY DEF FinalizeCase, Store
<1>4. CaseInv' /\ abort' \in [Cases -> {"absent", "live", "fired"}]
  BY <1>2, <1>3, LeaveTyped, GotoTyped DEF TypeInv, RunTypes
<1>5. UNCHANGED findings \/ Report(c, "error", "result")
  BY DEF FinalizeCase, Store
<1>6. findings' \subseteq Findings
  BY <1>5, ReportTyped DEF TypeInv, RunTypes
<1>7. Stored(c, "result")
  BY DEF FinalizeCase, Store, Stored
<1>8. RunTypes'
  BY <1>4, <1>6, <1>7, StoredTyped DEF FinalizeCase, TypeInv, RunTypes, runVars
<1> QED BY <1>4, <1>8 DEF TypeInv

LEMMA DisposeTyped ==
  ASSUME TypeInv, NEW c \in Cases, Dispose(c) PROVE TypeInv'
<1>1. CaseInv' /\ abort' \in [Cases -> {"absent", "live", "fired"}]
  BY LeaveTyped DEF Dispose
<1>2. findings' \subseteq Findings
  BY ReportTyped DEF Dispose, TypeInv, RunTypes
<1>3. RunTypes'
  BY <1>1, <1>2 DEF Dispose, TypeInv, RunTypes, runVars
<1> QED BY <1>1, <1>3 DEF TypeInv

LEMMA CaseStepTyped ==
  ASSUME TypeInv, NEW c \in Cases, CaseStep(c) PROVE TypeInv'
<1>1. CASE AgentStep(c)
  BY <1>1, LaunchAgentTyped, ReportLaunchFailureTyped, IdentifySessionTyped, AppendRecordTyped,
     AgentEndsTyped, IsReadableTyped, CaptureTimeoutPatchTyped, WriteTimeoutPatchTyped
  DEF AgentStep
<1>2. CASE EvaluationStep(c)
  BY <1>2, ExportSessionTyped, WriteSessionExportTyped, CapturePatchTyped, WritePatchTyped,
     ApplyCheckStateTyped, WriteChecksSetupLogTyped, EvaluateCheckTyped, WriteChecksTyped,
     GradeCaseTyped, WriteGradingTyped
  DEF EvaluationStep
<1> QED
  BY <1>1, <1>2, StartCaseTyped, SkipCaseTyped, CreateIsolatedCaseTyped,
     CreateCaseEnvironmentsTyped, RunSetupPhaseTyped, WriteAgentSetupLogTyped,
     SnapshotPatchBaseTyped, FinalizeCaseTyped, DisposeTyped
  DEF CaseStep

LEMMA RunMovesTyped ==
  ASSUME TypeInv, NEW next \in Phases, NEW code \in {-1, 0, 1, 2, 130}, RunMoves(next, code),
         cancelled' \in BOOLEAN,
         lifecycle' \in [Cases -> Terminal \cup {"none", "queued", "preparing", "running", "evaluating"}]
  PROVE  TypeInv'
  BY DEF RunMoves, TypeInv, RunTypes, CaseInv, CaseTypes, CheckCount

LEMMA RunStepTyped ==
  ASSUME TypeInv, RunStep \/ ForcedExit \/ SignalArrives PROVE TypeInv'
<1>1. /\ {"done", "starting", "cases", "finalizing", "reporting", "killed"} \subseteq Phases
      /\ exitCode \in {-1, 0, 1, 2, 130}
      /\ signal \in BOOLEAN /\ cancelled \in BOOLEAN
      /\ lifecycle \in [Cases -> Terminal \cup {"none", "queued", "preparing", "running", "evaluating"}]
  BY DEF Phases, TypeInv, RunTypes, CaseInv, CaseTypes
<1>2. CASE PreflightRefuses \/ PreflightPasses \/ StartRunFails \/ FinalizeRun
           \/ RebuildRunReport \/ ForcedExit
  BY <1>1, <1>2, RunMovesTyped
  DEF PreflightRefuses, PreflightPasses, StartRunFails, FinalizeRun, RebuildRunReport, ForcedExit
<1>3. CASE RunStarts
  BY <1>1, <1>3, RunMovesTyped DEF RunStarts
<1>4. CASE RunEnds
  <2>1. ReduceRunExitCode(RunResults, findings, cancelled) \in {-1, 0, 1, 2, 130}
    BY DEF ReduceRunExitCode
  <2> QED BY <1>1, <1>4, <2>1, RunMovesTyped DEF RunEnds
<1>5. CASE SignalArrives
  <2>1. CaseInv'
    BY <1>5 DEF SignalArrives, caseVars, TypeInv, CaseInv, CaseTypes, CheckCount
  <2>2. signal' \in BOOLEAN /\ cancelled' \in BOOLEAN
    BY <1>1, <1>5 DEF SignalArrives
  <2>3. abort' \in [Cases -> {"absent", "live", "fired"}]
    BY <1>5 DEF SignalArrives, TypeInv, RunTypes
  <2>4. RunTypes'
    BY <1>5, <2>2, <2>3 DEF SignalArrives, TypeInv, RunTypes
  <2> QED BY <2>1, <2>4 DEF TypeInv
<1> QED
  BY <1>2, <1>3, <1>4, <1>5 DEF RunStep

LEMMA TypeInit == Init => TypeInv
<1> SUFFICES ASSUME Init PROVE TypeInv
  OBVIOUS
<1>1. NoLocal \in Locals /\ NoLocal.checked = 0
  BY RunAssumption, NoLocalFits
<1>2. CaseInv
  BY <1>1 DEF Init, CaseInv, CaseTypes, CheckCount, Calls, CheckCalls
<1>3. RunTypes
  BY DEF Init, RunTypes, Phases
<1> QED BY <1>2, <1>3 DEF TypeInv

\* The state of a run keeps its types: every handler leaves each variable with
\* a value of its kind, whatever fails and whenever the interrupt arrives.
THEOREM TypeCorrect == Spec => []TypeOK
<1>1. Init => TypeInv
  BY TypeInit
<1>2. TypeInv /\ [Next]_vars => TypeInv'
  <2> SUFFICES ASSUME TypeInv, [Next]_vars PROVE TypeInv'
    OBVIOUS
  <2>1. CASE UNCHANGED vars
    BY <2>1 DEF vars, runVars, caseVars, TypeInv, RunTypes, CaseInv, CaseTypes, CheckCount
  <2>2. CASE Next
    BY <2>2, CaseStepTyped, RunStepTyped DEF Next
  <2> QED BY <2>1, <2>2
<1>3. TypeInv => TypeOK
  BY TypeParts DEF TypeInv, CaseInv
<1> QED BY <1>1, <1>2, <1>3, PTL DEF Spec

-----------------------------------------------------------------------------
(* Interrupts. What the three properties lack to be inductive: a case past *)
(* its preparation has a controller, a controller is aborted for no other  *)
(* reason than an interrupt or a failed append, and no case has moved      *)
(* before the listener is registered.                                      *)

\* The calls a case awaits while its controller is registered and watched.
Registered == Awaits \ {"workspace", "environments", "finalize", "dispose"}

Guarded(c) ==
  /\ pc[c] \in Registered => abort[c] # "absent"
  /\ pc[c] \in Registered /\ abort[c] = "fired"
       => cancelled \/ (pc[c] = "agent" /\ local[c].lost # {})
  /\ local[c].step = "cancelled" => cancelled
  /\ Ended(c, {"cancelled"}) => cancelled

InterruptInv ==
  /\ NoInterruptLost
  /\ CancelReachesEveryCase
  /\ phase \in {"preflight", "starting"}
       => ~cancelled /\ \A c \in Cases : pc[c] = "queued" /\ abort[c] = "absent"
  /\ \A c \in Cases : Guarded(c)

\* A step of case c leaves every other case's pipeline alone.
Alone(c) ==
  \A d \in Cases \ {c} : pc'[d] = pc[d] /\ local'[d] = local[d] /\ results'[d] = results[d]

Moves(c, call, carried) ==
  /\ pc'[c] = call /\ local'[c] = carried /\ results'[c] = results[c]
  /\ Alone(c)

Settles(c, ending) ==
  /\ pc'[c] = "finalize" /\ local'[c] = NoLocal /\ results'[c].lifecycle = ending
  /\ Alone(c)

LEMMA GotoMoves ==
  ASSUME CaseInv, NEW c \in Cases, NEW call, NEW carried, Goto(c, call, carried)
  PROVE  Moves(c, call, carried)
  BY DEF CaseInv, CaseTypes, Goto, Moves, Alone

LEMMA AnnounceMoves ==
  ASSUME CaseInv, NEW c \in Cases, NEW call, NEW carried, NEW state,
         Announce(c, call, carried, state)
  PROVE  Moves(c, call, carried)
  BY DEF CaseInv, CaseTypes, Announce, Moves, Alone

LEMMA PersistSettles ==
  ASSUME CaseInv, NEW c \in Cases, NEW record, Persist(c, record)
  PROVE  Settles(c, record.lifecycle)
  BY DEF CaseInv, CaseTypes, Persist, Settles, Alone

LEMMA EndBeforeAgentSettles ==
  ASSUME CaseInv, NEW c \in Cases, NEW ending, NEW logs, EndBeforeAgent(c, ending, logs)
  PROVE  Settles(c, ending)
<1> DEFINE record == [lifecycle |-> ending, outcome |-> "not-evaluated", failed |-> TRUE,
                      artifacts |-> logs, checks |-> 0]
<1>1. Persist(c, record) /\ record.lifecycle = ending
  BY DEF EndBeforeAgent
<1> HIDE DEF record
<1> QED BY <1>1, PersistSettles

LEMMA FinishCaseSettles ==
  ASSUME CaseInv, NEW c \in Cases, NEW carried, NEW ending, NEW failed, NEW reached,
         FinishCase(c, carried, ending, failed, reached)
  PROVE  Settles(c, ending)
<1> DEFINE record(decoding) ==
             [lifecycle |-> ending,
              outcome   |-> IF ending = "completed"
                            THEN ReduceRequiredOutcome({carried.verdict, carried.grade},
                                                       carried.checked)
                            ELSE "not-evaluated",
              failed    |-> failed \/ decoding,
              artifacts |-> (carried.seen \cap (Records \cup {"session"})) \cup carried.logs
                              \cup StageIndex(c, reached),
              checks    |-> carried.checked]
<1>1. PICK decoding \in BOOLEAN : Persist(c, record(decoding))
  BY DEF FinishCase
<1>2. record(decoding).lifecycle = ending
  OBVIOUS
<1> HIDE DEF record
<1> QED BY <1>1, <1>2, PersistSettles

LEMMA InfrastructureFailsSettles ==
  ASSUME CaseInv, NEW c \in Cases, NEW carried, NEW reached,
         InfrastructureFails(c, carried, reached)
  PROVE  Settles(c, "infrastructure-failed")
  BY FinishCaseSettles DEF InfrastructureFails

LEMMA CancelSettles ==
  ASSUME CaseInv, NEW c \in Cases, NEW carried, NEW reached, Cancel(c, carried, reached)
  PROVE  Settles(c, "cancelled")
  BY FinishCaseSettles DEF Cancel

\* What a case step may not start in a cancelled run.
Quiet(c) ==
  cancelled /\ pc'[c] \in Working => pc'[c] = pc[c] /\ local'[c].checked = local[c].checked

\* What is shown of every step of a case.
Kept(c) ==
  /\ Alone(c)
  /\ Guarded(c)'
  /\ Quiet(c)

\* How a step of a case may change the controllers.
Controllers(c) ==
  /\ \A d \in Cases \ {c} : abort'[d] = abort[d]
  /\ cancelled => abort'[c] # "live"
  /\ UNCHANGED <<signal, phase, cancelled>>

LEMMA MoveKept ==
  ASSUME InterruptInv, NEW c \in Cases, NEW call, NEW carried, Moves(c, call, carried),
         abort'[c] = abort[c], cancelled' = cancelled,
         pc[c] \in Registered \/ call \notin Registered,
         pc[c] # "agent", call # "agent",
         carried.step = "cancelled" => cancelled,
         cancelled => call \notin Working
  PROVE  Kept(c)
<1>1. Guarded(c)
  BY DEF InterruptInv
<1>2. Guarded(c)'
  BY <1>1 DEF Guarded, Moves, Ended, HasResult
<1> QED
  BY <1>2 DEF Kept, Moves, Quiet

LEMMA SettleKept ==
  ASSUME InterruptInv, NEW c \in Cases, NEW ending, Settles(c, ending),
         cancelled' = cancelled, ending = "cancelled" => cancelled
  PROVE  Kept(c)
<1>1. NoLocal.step = "none" /\ "finalize" \notin Registered /\ "finalize" \notin Working
  BY DEF NoLocal, Registered, Working
<1>2. Guarded(c)'
  BY <1>1 DEF Guarded, Settles, Ended
<1> QED
  BY <1>1, <1>2 DEF Kept, Settles, Quiet

\* At a registered call other than the agent, an aborted case belongs to a
\* cancelled run and the other way round.
LEMMA AbortedIffCancelled ==
  ASSUME InterruptInv, TypeInv, NEW c \in Cases, pc[c] \in Registered
  PROVE  /\ cancelled => Aborted(c)
         /\ pc[c] # "agent" \/ local[c].lost = {} => (Aborted(c) => cancelled)
<1>1. Guarded(c) /\ CancelReachesEveryCase /\ abort[c] \in {"absent", "live", "fired"}
  BY DEF InterruptInv, TypeInv, RunTypes
<1> QED
  BY <1>1 DEF Guarded, CancelReachesEveryCase, Aborted

\* Most actions leave the controllers alone.
LEMMA SameControllers ==
  ASSUME InterruptInv, NEW c \in Cases, UNCHANGED <<runVars, abort>>
  PROVE  Controllers(c)
  BY DEF InterruptInv, CancelReachesEveryCase, Controllers, runVars

LEMMA StartCaseKept ==
  ASSUME InterruptInv, TypeInv, NEW c \in Cases, StartCase(c) PROVE Kept(c) /\ Controllers(c)
<1>1. Moves(c, "workspace", NoLocal)
  BY AnnounceMoves DEF StartCase, TypeInv
<1>2. /\ NoLocal.step = "none" /\ "workspace" \notin Registered /\ "workspace" \notin Working
      /\ pc[c] = "queued"
  BY DEF NoLocal, Registered, Working, StartCase, HasSlot
<1>3. UNCHANGED <<runVars, abort>>
  BY DEF StartCase
<1> QED
  BY <1>1, <1>2, <1>3, MoveKept, SameControllers DEF runVars

LEMMA SkipCaseKept ==
  ASSUME InterruptInv, TypeInv, NEW c \in Cases, SkipCase(c) PROVE Kept(c) /\ Controllers(c)
<1>1. Moves(c, "over", NoLocal)
  BY GotoMoves DEF SkipCase, TypeInv
<1>2. /\ NoLocal.step = "none" /\ "over" \notin Registered /\ "over" \notin Working
      /\ pc[c] = "queued"
  BY DEF NoLocal, Registered, Awaits, Working, SkipCase, HasSlot
<1>3. UNCHANGED <<runVars, abort>>
  BY DEF SkipCase
<1> QED
  BY <1>1, <1>2, <1>3, MoveKept, SameControllers DEF runVars

LEMMA CreateIsolatedCaseKept ==
  ASSUME InterruptInv, TypeInv, NEW c \in Cases, CreateIsolatedCase(c)
  PROVE  Kept(c) /\ Controllers(c)
<1>1. Moves(c, "environments", NoLocal) \/ Settles(c, "infrastructure-failed")
  BY GotoMoves, EndBeforeAgentSettles DEF CreateIsolatedCase, TypeInv
<1>2. /\ NoLocal.step = "none" /\ "environments" \notin Registered
      /\ "environments" \notin Working /\ pc[c] = "workspace"
  BY DEF NoLocal, Registered, Working, CreateIsolatedCase
<1>3. UNCHANGED <<runVars, abort>>
  BY DEF CreateIsolatedCase
<1> QED
  BY <1>1, <1>2, <1>3, MoveKept, SettleKept, SameControllers DEF runVars

\* The step that registers the controller: it is aborted here if it is late.
LEMMA CreateCaseEnvironmentsKept ==
  ASSUME InterruptInv, TypeInv, NEW c \in Cases, CreateCaseEnvironments(c)
  PROVE  Kept(c) /\ Controllers(c)
<1>1. UNCHANGED <<signal, phase, cancelled>> /\ abort \in [Cases -> {"absent", "live", "fired"}]
  BY DEF CreateCaseEnvironments, runVars, TypeInv, RunTypes
<1>2. CASE EndBeforeAgent(c, "infrastructure-failed", {}) /\ UNCHANGED abort
  <2>1. Settles(c, "infrastructure-failed") /\ UNCHANGED <<runVars, abort>>
    BY <1>2, EndBeforeAgentSettles DEF CreateCaseEnvironments, TypeInv
  <2> QED BY <2>1, SettleKept, SameControllers DEF runVars
<1>3. CASE abort' = [abort EXCEPT ![c] = IF cancelled THEN "fired" ELSE "live"]
  <2>1. /\ abort'[c] = IF cancelled THEN "fired" ELSE "live"
        /\ \A d \in Cases \ {c} : abort'[d] = abort[d]
    BY <1>1, <1>3
  <2>2. Controllers(c)
    BY <1>1, <2>1 DEF Controllers
  <2>3. \/ Moves(c, "launch", NoLocal)
        \/ Settles(c, "infrastructure-failed")
        \/ cancelled /\ Settles(c, "cancelled")
        \/ ~cancelled /\ Moves(c, "setup-agent", NoLocal)
    BY AnnounceMoves, GotoMoves, EndBeforeAgentSettles
    DEF CreateCaseEnvironments, EnterAgent, TypeInv
  <2>4. CASE \/ Settles(c, "infrastructure-failed")
             \/ cancelled /\ Settles(c, "cancelled")
    BY <1>1, <2>2, <2>4, SettleKept
  <2>5. CASE \/ Moves(c, "launch", NoLocal)
             \/ ~cancelled /\ Moves(c, "setup-agent", NoLocal)
    <3>1. NoLocal.step = "none" /\ "launch" \notin Working
      BY DEF NoLocal, Working
    <3>2. Guarded(c)
      BY DEF InterruptInv
    <3>3. Guarded(c)'
      BY <1>1, <2>1, <2>5, <3>1, <3>2 DEF Guarded, Moves, Ended, HasResult
    <3>4. Quiet(c) /\ Alone(c)
      BY <2>5, <3>1 DEF Quiet, Moves
    <3> QED BY <2>2, <3>3, <3>4 DEF Kept
  <2> QED BY <2>3, <2>4, <2>5
<1> QED
  BY <1>2, <1>3 DEF CreateCaseEnvironments

LEMMA RunSetupPhaseKept ==
  ASSUME InterruptInv, TypeInv, NEW c \in Cases, RunSetupPhase(c) PROVE Kept(c) /\ Controllers(c)
<1>1. pc[c] \in Registered /\ pc[c] # "agent"
  BY DEF RunSetupPhase, Registered, Awaits
<1>2. PICK status \in {"passed", "failed"} \cup (IF Aborted(c) THEN {"cancelled"} ELSE {}) :
        Goto(c, IF pc[c] = "setup-agent" THEN "setup-agent-log" ELSE "setup-checks-log",
             [local[c] EXCEPT !.step = status])
  BY DEF RunSetupPhase
<1> DEFINE call == IF pc[c] = "setup-agent" THEN "setup-agent-log" ELSE "setup-checks-log"
           carried == [local[c] EXCEPT !.step = status]
<1>3. carried.step = status
  BY LocalBefore DEF TypeInv, Locals
<1>4. carried.step = "cancelled" => cancelled
  BY <1>1, <1>3, AbortedIffCancelled
<1>5. call \notin Working /\ call # "agent"
  BY DEF Working
<1>6. Moves(c, call, carried)
  BY <1>2, GotoMoves DEF TypeInv
<1>7. UNCHANGED <<runVars, abort>>
  BY DEF RunSetupPhase
<1> HIDE DEF call, carried
<1> QED
  BY <1>1, <1>4, <1>5, <1>6, <1>7, MoveKept, SameControllers DEF runVars

LEMMA WriteAgentSetupLogKept ==
  ASSUME InterruptInv, TypeInv, NEW c \in Cases, WriteAgentSetupLog(c)
  PROVE  Kept(c) /\ Controllers(c)
<1> DEFINE logged == [local[c] EXCEPT !.step = "none", !.logs = @ \cup {"setup-agent-log"}]
<1>1. logged.step = "none"
  BY LocalBefore DEF TypeInv, Locals
<1>2. /\ pc[c] \in Registered /\ pc[c] # "agent"
      /\ "patch-base" \notin Working
      /\ local[c].step = "cancelled" => cancelled
  BY DEF WriteAgentSetupLog, Registered, Awaits, Working, InterruptInv, Guarded
<1>3. \/ EndBeforeAgent(c, "infrastructure-failed", logged.logs)
      \/ cancelled /\ EndBeforeAgent(c, "cancelled", logged.logs)
      \/ Goto(c, "patch-base", logged)
      \/ EndBeforeAgent(c, "infrastructure-failed", {})
  BY <1>2 DEF WriteAgentSetupLog, Store
<1> HIDE DEF logged
<1>4. \/ Settles(c, "infrastructure-failed")
      \/ cancelled /\ Settles(c, "cancelled")
      \/ Moves(c, "patch-base", logged)
  BY <1>3, EndBeforeAgentSettles, GotoMoves DEF TypeInv
<1>5. UNCHANGED <<runVars, abort>>
  BY DEF WriteAgentSetupLog
<1> QED
  BY <1>1, <1>2, <1>4, <1>5, MoveKept, SettleKept, SameControllers DEF runVars

LEMMA SnapshotPatchBaseKept ==
  ASSUME InterruptInv, TypeInv, NEW c \in Cases, SnapshotPatchBase(c)
  PROVE  Kept(c) /\ Controllers(c)
<1>1. /\ pc[c] \in Registered /\ pc[c] # "agent" /\ "launch" \notin Working
      /\ local[c].step = "cancelled" => cancelled
  BY DEF SnapshotPatchBase, Registered, Awaits, Working, InterruptInv, Guarded
<1>2. \/ Settles(c, "infrastructure-failed")
      \/ cancelled /\ Settles(c, "cancelled")
      \/ Moves(c, "launch", local[c])
  BY EndBeforeAgentSettles, AnnounceMoves DEF SnapshotPatchBase, EnterAgent, TypeInv
<1>3. UNCHANGED <<runVars, abort>>
  BY DEF SnapshotPatchBase
<1> QED
  BY <1>1, <1>2, <1>3, MoveKept, SettleKept, SameControllers DEF runVars

\* The case's own controller stands in for the run's flag at the launch.
LEMMA LaunchAgentKept ==
  ASSUME InterruptInv, TypeInv, NEW c \in Cases, LaunchAgent(c) PROVE Kept(c) /\ Controllers(c)
<1>1. /\ pc[c] \in Registered /\ pc[c] # "agent" /\ "launch-report" \notin Working
      /\ Guarded(c)
  BY DEF LaunchAgent, Registered, Awaits, Working, InterruptInv
<1>2. UNCHANGED <<runVars, abort>>
  BY DEF LaunchAgent
<1>3. CASE ~Aborted(c) /\ Goto(c, "agent", local[c])
  <2>1. Moves(c, "agent", local[c])
    BY <1>3, GotoMoves DEF TypeInv
  <2>2. ~cancelled /\ abort[c] # "fired"
    BY <1>1, <1>3, AbortedIffCancelled DEF Aborted
  <2>3. Guarded(c)'
    BY <1>1, <1>2, <2>1, <2>2 DEF Guarded, Moves, Ended, HasResult, runVars
  <2> QED
    BY <1>2, <2>1, <2>2, <2>3, SameControllers DEF Kept, Moves, Quiet
<1>4. CASE Goto(c, "launch-report", local[c])
  <2>1. Moves(c, "launch-report", local[c]) /\ (local[c].step = "cancelled" => cancelled)
    BY <1>1, <1>4, GotoMoves DEF TypeInv, Guarded
  <2> QED
    BY <1>1, <1>2, <2>1, MoveKept, SameControllers DEF runVars
<1> QED
  BY <1>3, <1>4 DEF LaunchAgent

LEMMA IdentifySessionKept ==
  ASSUME InterruptInv, TypeInv, NEW c \in Cases, IdentifySession(c)
  PROVE  Kept(c) /\ Controllers(c)
<1> DEFINE carried == [local[c] EXCEPT !.seen = @ \cup {"session-id"}]
<1>1. /\ carried.step = local[c].step /\ carried.lost = local[c].lost
      /\ carried.checked = local[c].checked
  BY LocalBefore DEF TypeInv, Locals
<1>2. Goto(c, "agent", carried) /\ pc[c] = "agent" /\ UNCHANGED <<runVars, abort>> /\ Guarded(c)
  BY DEF IdentifySession, InterruptInv
<1> HIDE DEF carried
<1>3. Moves(c, "agent", carried)
  BY <1>2, GotoMoves DEF TypeInv
<1>4. Guarded(c)'
  BY <1>1, <1>2, <1>3 DEF Guarded, Moves, Ended, HasResult, runVars
<1> QED
  BY <1>1, <1>2, <1>3, <1>4, SameControllers DEF Kept, Moves, Quiet

\* What an append leaves in the pipeline object.
LEMMA CountedKeeps ==
  ASSUME TypeInv, NEW c \in Cases, NEW stream
  PROVE  LET counted == Counted(c, stream)
             lost    == [counted EXCEPT !.lost = @ \cup {stream}]
         IN  /\ counted.step = local[c].step /\ counted.lost = local[c].lost
             /\ counted.checked = local[c].checked
             /\ lost.step = local[c].step /\ lost.lost # {} /\ lost.checked = local[c].checked
<1>1. local[c] \in Locals
  BY LocalBefore DEF TypeInv
<1> QED
  BY <1>1 DEF Counted, Locals

LEMMA AppendRecordKept ==
  ASSUME InterruptInv, TypeInv, NEW c \in Cases, NEW stream, AppendRecord(c, stream)
  PROVE  Kept(c) /\ Controllers(c)
<1> DEFINE counted == Counted(c, stream)
           lost    == [counted EXCEPT !.lost = @ \cup {stream}]
<1>1. /\ counted.step = local[c].step /\ counted.lost = local[c].lost
      /\ counted.checked = local[c].checked
      /\ lost.step = local[c].step /\ lost.lost # {} /\ lost.checked = local[c].checked
  BY CountedKeeps
<1>2. \/ Goto(c, "agent", counted) /\ UNCHANGED abort
      \/ Goto(c, "agent", lost) /\ abort' = [abort EXCEPT ![c] = "fired"]
  BY DEF AppendRecord, DeliverRecord
<1>3. pc[c] = "agent" /\ UNCHANGED runVars /\ Guarded(c) /\ CancelReachesEveryCase
  BY DEF AppendRecord, DeliverRecord, InterruptInv
<1> HIDE DEF counted, lost
<1>4. \/ Moves(c, "agent", counted) /\ abort' = abort
      \/ Moves(c, "agent", lost) /\ abort' = [abort EXCEPT ![c] = "fired"]
  BY <1>2, GotoMoves DEF TypeInv
<1>5. Guarded(c)'
  BY <1>1, <1>3, <1>4 DEF Guarded, Moves, Ended, HasResult, runVars, TypeInv, RunTypes
<1>6. Controllers(c)
  BY <1>3, <1>4 DEF Controllers, CancelReachesEveryCase, runVars, TypeInv, RunTypes
<1> QED
  BY <1>1, <1>3, <1>4, <1>5, <1>6 DEF Kept, Moves, Quiet

LEMMA ReportLaunchFailureKept ==
  ASSUME InterruptInv, TypeInv, NEW c \in Cases, ReportLaunchFailure(c)
  PROVE  Kept(c) /\ Controllers(c)
<1> DEFINE counted == Counted(c, "diagnostics")
<1>1. counted.step = local[c].step
  BY CountedKeeps
<1>2. \/ Goto(c, "readable", counted) /\ UNCHANGED abort
      \/ InfrastructureFails(c, counted, "export-settled") /\ abort' = [abort EXCEPT ![c] = "fired"]
  BY DEF ReportLaunchFailure, DeliverRecord
<1>3. /\ pc[c] \in Registered /\ pc[c] # "agent" /\ "readable" \notin Working
      /\ UNCHANGED runVars /\ Guarded(c) /\ CancelReachesEveryCase
  BY DEF ReportLaunchFailure, DeliverRecord, InterruptInv, Registered, Awaits, Working
<1> HIDE DEF counted
<1>4. \/ Moves(c, "readable", counted) /\ abort' = abort
      \/ Settles(c, "infrastructure-failed") /\ abort' = [abort EXCEPT ![c] = "fired"]
  BY <1>2, GotoMoves, InfrastructureFailsSettles DEF TypeInv
<1>5. Controllers(c)
  BY <1>3, <1>4 DEF Controllers, CancelReachesEveryCase, runVars, TypeInv, RunTypes
<1> QED
  BY <1>1, <1>3, <1>4, <1>5, MoveKept, SettleKept DEF Guarded, runVars

\* Entering the evaluation, with a session or without one.
LEMMA EnterEvaluationKept ==
  ASSUME InterruptInv, TypeInv, NEW c \in Cases, NEW failed, EnterEvaluation(c, failed)
  PROVE  \/ cancelled /\ Settles(c, "cancelled")
         \/ \E call \in {"export", "patch"} : \E carried :
              /\ Moves(c, call, carried)
              /\ carried.step = local[c].step
<1> DEFINE carried == [local[c] EXCEPT !.kept = failed]
<1>1. carried.step = local[c].step
  BY LocalBefore DEF TypeInv, Locals
<1>2. \/ Announce(c, "export", carried, "evaluating")
      \/ cancelled /\ Cancel(c, carried, "export-settled")
      \/ Announce(c, "patch", carried, "evaluating")
  BY DEF EnterEvaluation, SettleExport
<1> HIDE DEF carried
<1> QED
  BY <1>1, <1>2, AnnounceMoves, CancelSettles DEF TypeInv

LEMMA AgentEndsKept ==
  ASSUME InterruptInv, TypeInv, NEW c \in Cases, AgentEnds(c) PROVE Kept(c) /\ Controllers(c)
<1>1. /\ pc[c] = "agent" /\ pc[c] \in Registered /\ Guarded(c) /\ UNCHANGED <<runVars, abort>>
      /\ {"export", "patch", "timeout-patch", "readable"} \cap Working = {}
  BY DEF AgentEnds, Registered, Awaits, Working, InterruptInv
<1>2. CASE local[c].lost # {}
  <2>1. Settles(c, "infrastructure-failed")
    BY <1>2, InfrastructureFailsSettles DEF AgentEnds, TypeInv
  <2> QED BY <1>1, <2>1, SettleKept, SameControllers DEF runVars
<1>3. CASE local[c].lost = {}
  <2>1. Aborted(c) => cancelled
    BY <1>1, <1>3, AbortedIffCancelled
  <2>2. \/ cancelled /\ Settles(c, "cancelled")
        \/ \E call \in {"export", "patch", "timeout-patch", "readable"} : \E carried :
             Moves(c, call, carried) /\ carried.step = local[c].step
    BY <1>3, <2>1, EnterEvaluationKept, FinishCaseSettles, GotoMoves DEF AgentEnds, TypeInv
  <2>3. CASE cancelled /\ Settles(c, "cancelled")
    BY <1>1, <2>3, SettleKept, SameControllers DEF runVars
  <2>4. ASSUME NEW call \in {"export", "patch", "timeout-patch", "readable"}, NEW carried,
               Moves(c, call, carried), carried.step = local[c].step
        PROVE  Kept(c)
    <3>1. Guarded(c)'
      BY <1>1, <1>3, <2>1, <2>4 DEF Guarded, Moves, Ended, HasResult, runVars, Aborted
    <3> QED BY <1>1, <2>4, <3>1 DEF Kept, Moves, Quiet
  <2> QED BY <1>1, <2>2, <2>3, <2>4, SameControllers
<1> QED BY <1>2, <1>3

LEMMA IsReadableKept ==
  ASSUME InterruptInv, TypeInv, NEW c \in Cases, IsReadable(c) PROVE Kept(c) /\ Controllers(c)
<1>1. /\ pc[c] \in Registered /\ pc[c] # "agent" /\ UNCHANGED <<runVars, abort>>
      /\ local[c].step = "cancelled" => cancelled
      /\ {"export", "patch"} \cap Working = {}
  BY DEF IsReadable, Registered, Awaits, Working, InterruptInv, Guarded
<1>2. \/ cancelled /\ Settles(c, "cancelled")
      \/ Settles(c, "process-failed")
      \/ \E call \in {"export", "patch"} : \E carried :
           Moves(c, call, carried) /\ carried.step = local[c].step
  BY EnterEvaluationKept, FinishCaseSettles DEF IsReadable, TypeInv
<1> QED
  BY <1>1, <1>2, MoveKept, SettleKept, SameControllers DEF runVars, Working

LEMMA CaptureTimeoutPatchKept ==
  ASSUME InterruptInv, TypeInv, NEW c \in Cases, CaptureTimeoutPatch(c)
  PROVE  Kept(c) /\ Controllers(c)
<1>1. /\ pc[c] \in Registered /\ pc[c] # "agent" /\ UNCHANGED <<runVars, abort>>
      /\ local[c].step = "cancelled" => cancelled
      /\ "timeout-patch-write" \notin Working
  BY DEF CaptureTimeoutPatch, Registered, Awaits, Working, InterruptInv, Guarded
<1>2. Moves(c, "timeout-patch-write", local[c]) \/ Settles(c, "timed-out")
  BY FinishCaseSettles, GotoMoves DEF CaptureTimeoutPatch, TypeInv
<1> QED
  BY <1>1, <1>2, MoveKept, SettleKept, SameControllers DEF runVars

LEMMA WriteTimeoutPatchKept ==
  ASSUME InterruptInv, TypeInv, NEW c \in Cases, WriteTimeoutPatch(c)
  PROVE  Kept(c) /\ Controllers(c)
<1>1. UNCHANGED <<runVars, abort>>
  BY DEF WriteTimeoutPatch
<1>2. Settles(c, "timed-out") \/ Settles(c, "infrastructure-failed")
  BY FinishCaseSettles, InfrastructureFailsSettles DEF WriteTimeoutPatch, Store, TypeInv
<1> QED
  BY <1>1, <1>2, SettleKept, SameControllers DEF runVars

\* Entering the stages up to the checks: an interrupt that came in the meantime
\* shows in the controller, whether or not the stage looks at the run's flag.
LEMMA EnterChecksKept ==
  ASSUME InterruptInv, TypeInv, NEW c \in Cases, NEW carried,
         pc[c] \in Registered, pc[c] # "agent", UNCHANGED <<runVars, abort>>,
         carried.step = "cancelled" => cancelled,
         EnterChecks(c, carried)
  PROVE  Kept(c)
<1>1. cancelled => Aborted(c)
  BY AbortedIffCancelled
<1>2. Moves(c, IF Aborted(c) THEN "checks-write" ELSE "checks", carried)
  BY GotoMoves DEF EnterChecks, TypeInv
<1>3. "checks-write" \notin Working
  BY DEF Working
<1>4. CASE Aborted(c)
  <2>1. Moves(c, "checks-write", carried)
    BY <1>2, <1>4
  <2> QED BY <1>3, <2>1, MoveKept DEF runVars
<1>5. CASE ~Aborted(c)
  <2>1. Moves(c, "checks", carried) /\ ~cancelled
    BY <1>1, <1>2, <1>5
  <2> QED BY <2>1, MoveKept DEF runVars
<1> QED BY <1>4, <1>5

LEMMA EnterBeforeChecksKept ==
  ASSUME InterruptInv, TypeInv, NEW c \in Cases, NEW carried,
         pc[c] \in Registered, pc[c] # "agent", UNCHANGED <<runVars, abort>>,
         carried.step = "cancelled" => cancelled,
         EnterBeforeChecks(c, carried)
  PROVE  Kept(c)
<1>1. cancelled <=> Aborted(c)
  BY AbortedIffCancelled
<1>2. CASE c \notin BeforeChecks
  BY <1>2, EnterChecksKept DEF EnterBeforeChecks
<1>3. CASE c \in BeforeChecks /\ Aborted(c)
  <2>1. Settles(c, "cancelled")
    BY <1>3, CancelSettles DEF EnterBeforeChecks, TypeInv
  <2> QED BY <1>1, <1>3, <2>1, SettleKept DEF runVars
<1>4. CASE c \in BeforeChecks /\ ~Aborted(c)
  <2>1. Moves(c, "setup-checks", carried) /\ ~cancelled
    BY <1>1, <1>4, GotoMoves DEF EnterBeforeChecks, TypeInv
  <2> QED BY <2>1, MoveKept DEF runVars
<1> QED BY <1>2, <1>3, <1>4

LEMMA ExportSessionKept ==
  ASSUME InterruptInv, TypeInv, NEW c \in Cases, ExportSession(c) PROVE Kept(c) /\ Controllers(c)
<1> DEFINE kept == [local[c] EXCEPT !.kept = TRUE]
<1>1. kept.step = local[c].step
  BY LocalBefore DEF TypeInv, Locals
<1>2. /\ pc[c] \in Registered /\ pc[c] # "agent" /\ UNCHANGED <<runVars, abort>>
      /\ local[c].step = "cancelled" => cancelled
      /\ {"export-write", "patch"} \cap Working = {}
  BY DEF ExportSession, Registered, Awaits, Working, InterruptInv, Guarded
<1>3. \/ Goto(c, "export-write", local[c])
      \/ cancelled /\ Cancel(c, kept, "export-settled")
      \/ Announce(c, "patch", kept, "evaluating")
  BY DEF ExportSession, SettleExport
<1> HIDE DEF kept
<1>4. \/ Moves(c, "export-write", local[c])
      \/ cancelled /\ Settles(c, "cancelled")
      \/ Moves(c, "patch", kept)
  BY <1>3, GotoMoves, CancelSettles, AnnounceMoves DEF TypeInv
<1> QED
  BY <1>1, <1>2, <1>4, MoveKept, SettleKept, SameControllers DEF runVars, Working

LEMMA WriteSessionExportKept ==
  ASSUME InterruptInv, TypeInv, NEW c \in Cases, WriteSessionExport(c)
  PROVE  Kept(c) /\ Controllers(c)
<1> DEFINE exported == [local[c] EXCEPT !.seen = @ \cup {"session"}]
<1>1. exported.step = local[c].step
  BY LocalBefore DEF TypeInv, Locals
<1>2. /\ pc[c] \in Registered /\ pc[c] # "agent" /\ UNCHANGED <<runVars, abort>>
      /\ local[c].step = "cancelled" => cancelled
      /\ "patch" \notin Working
  BY DEF WriteSessionExport, Registered, Awaits, Working, InterruptInv, Guarded
<1>3. \/ InfrastructureFails(c, local[c], "export-settled")
      \/ cancelled /\ Cancel(c, exported, "export-settled")
      \/ Announce(c, "patch", exported, "evaluating")
  BY DEF WriteSessionExport, Store, SettleExport
<1> HIDE DEF exported
<1>4. \/ Settles(c, "infrastructure-failed")
      \/ cancelled /\ Settles(c, "cancelled")
      \/ Moves(c, "patch", exported)
  BY <1>3, InfrastructureFailsSettles, CancelSettles, AnnounceMoves DEF TypeInv
<1> QED
  BY <1>1, <1>2, <1>4, MoveKept, SettleKept, SameControllers DEF runVars

LEMMA CapturePatchKept ==
  ASSUME InterruptInv, TypeInv, NEW c \in Cases, CapturePatch(c) PROVE Kept(c) /\ Controllers(c)
<1>1. /\ pc[c] \in Registered /\ pc[c] # "agent" /\ UNCHANGED <<runVars, abort>>
      /\ local[c].step = "cancelled" => cancelled
      /\ "patch-write" \notin Working
  BY DEF CapturePatch, Registered, Awaits, Working, InterruptInv, Guarded
<1>2. Moves(c, "patch-write", local[c]) \/ Settles(c, "infrastructure-failed")
  BY GotoMoves, InfrastructureFailsSettles DEF CapturePatch, TypeInv
<1> QED
  BY <1>1, <1>2, MoveKept, SettleKept, SameControllers DEF runVars

LEMMA WritePatchKept ==
  ASSUME InterruptInv, TypeInv, NEW c \in Cases, WritePatch(c) PROVE Kept(c) /\ Controllers(c)
<1>1. /\ pc[c] \in Registered /\ pc[c] # "agent" /\ UNCHANGED <<runVars, abort>>
      /\ local[c].step = "cancelled" => cancelled
  BY DEF WritePatch, Registered, Awaits, InterruptInv, Guarded
<1>2. \/ cancelled /\ Settles(c, "cancelled")
      \/ Settles(c, "infrastructure-failed")
      \/ ~cancelled /\ EnterBeforeChecks(c, local[c])
      \/ ~cancelled /\ Moves(c, "check-state", local[c])
  BY CancelSettles, InfrastructureFailsSettles, GotoMoves
  DEF WritePatch, Store, EnterCheckState, TypeInv
<1> QED
  BY <1>1, <1>2, EnterBeforeChecksKept, MoveKept, SettleKept, SameControllers DEF runVars

LEMMA ApplyCheckStateKept ==
  ASSUME InterruptInv, TypeInv, NEW c \in Cases, ApplyCheckState(c)
  PROVE  Kept(c) /\ Controllers(c)
<1>1. /\ pc[c] \in Registered /\ pc[c] # "agent" /\ UNCHANGED <<runVars, abort>>
      /\ local[c].step = "cancelled" => cancelled
  BY DEF ApplyCheckState, Registered, Awaits, InterruptInv, Guarded
<1>2. EnterBeforeChecks(c, local[c]) \/ Settles(c, "infrastructure-failed")
  BY InfrastructureFailsSettles DEF ApplyCheckState, TypeInv
<1> QED
  BY <1>1, <1>2, EnterBeforeChecksKept, SettleKept, SameControllers DEF runVars

LEMMA WriteChecksSetupLogKept ==
  ASSUME InterruptInv, TypeInv, NEW c \in Cases, WriteChecksSetupLog(c)
  PROVE  Kept(c) /\ Controllers(c)
<1> DEFINE logged == [local[c] EXCEPT !.step = "none", !.logs = @ \cup {"setup-checks-log"}]
<1>1. logged.step = "none"
  BY LocalBefore DEF TypeInv, Locals
<1>2. /\ pc[c] \in Registered /\ pc[c] # "agent" /\ UNCHANGED <<runVars, abort>>
      /\ local[c].step = "cancelled" => cancelled
  BY DEF WriteChecksSetupLog, Registered, Awaits, InterruptInv, Guarded
<1>3. \/ InfrastructureFails(c, logged, "patch-captured")
      \/ cancelled /\ Cancel(c, logged, "patch-captured")
      \/ EnterChecks(c, logged)
      \/ InfrastructureFails(c, local[c], "patch-captured")
  BY <1>2 DEF WriteChecksSetupLog, Store
<1> HIDE DEF logged
<1>4. \/ Settles(c, "infrastructure-failed")
      \/ cancelled /\ Settles(c, "cancelled")
      \/ EnterChecks(c, logged)
  BY <1>3, InfrastructureFailsSettles, CancelSettles DEF TypeInv
<1> QED
  BY <1>1, <1>2, <1>4, EnterChecksKept, SettleKept, SameControllers DEF runVars

\* The one loop: the check in flight ends, and the abort keeps the next away.
LEMMA EvaluateCheckKept ==
  ASSUME InterruptInv, TypeInv, NEW c \in Cases, EvaluateCheck(c) PROVE Kept(c) /\ Controllers(c)
<1> DEFINE last == local[c].checked + 1 = NumChecks
           next == IF last \/ Aborted(c) THEN "checks-write" ELSE "checks"
           graded == [[local[c] EXCEPT !.grade = "pending"] EXCEPT !.checked = @ + 1]
           judged(v) == [[local[c] EXCEPT !.verdict = ReduceRequiredOutcome({@, v}, NumChecks)]
                           EXCEPT !.checked = @ + 1]
<1>1. /\ pc[c] \in Registered /\ pc[c] # "agent" /\ UNCHANGED <<runVars, abort>>
      /\ local[c].step = "cancelled" => cancelled
      /\ "checks-write" \notin Working
  BY DEF EvaluateCheck, Registered, Awaits, Working, InterruptInv, Guarded
<1>2. graded.step = local[c].step /\ \A v : judged(v).step = local[c].step
  BY LocalBefore DEF TypeInv, Locals
<1>3. Goto(c, next, graded) \/ \E v \in Verdicts : Goto(c, next, judged(v))
  BY DEF EvaluateCheck
<1> HIDE DEF graded, judged
<1>4. PICK carried : Goto(c, next, carried) /\ carried.step = local[c].step
  BY <1>2, <1>3
<1>5. Moves(c, next, carried)
  BY <1>4, GotoMoves DEF TypeInv
<1>6. cancelled => next = "checks-write"
  BY <1>1, AbortedIffCancelled
<1>7. next # "agent"
  OBVIOUS
<1> HIDE DEF next
<1> QED
  BY <1>1, <1>4, <1>5, <1>6, <1>7, MoveKept, SameControllers DEF runVars

LEMMA WriteChecksKept ==
  ASSUME InterruptInv, TypeInv, NEW c \in Cases, WriteChecks(c) PROVE Kept(c) /\ Controllers(c)
<1>1. /\ pc[c] \in Registered /\ pc[c] # "agent" /\ UNCHANGED <<runVars, abort>>
      /\ local[c].step = "cancelled" => cancelled
  BY DEF WriteChecks, Registered, Awaits, InterruptInv, Guarded
<1>2. \/ cancelled /\ Settles(c, "cancelled")
      \/ ~cancelled /\ Moves(c, "grading", local[c])
      \/ Settles(c, "completed")
      \/ Settles(c, "infrastructure-failed")
  BY CancelSettles, FinishCaseSettles, InfrastructureFailsSettles, GotoMoves
  DEF WriteChecks, Store, TypeInv
<1> QED
  BY <1>1, <1>2, MoveKept, SettleKept, SameControllers DEF runVars

LEMMA GradeCaseKept ==
  ASSUME InterruptInv, TypeInv, NEW c \in Cases, GradeCase(c) PROVE Kept(c) /\ Controllers(c)
<1> DEFINE graded(v) == [local[c] EXCEPT !.grade = v]
<1>1. /\ pc[c] \in Registered /\ pc[c] # "agent" /\ UNCHANGED <<runVars, abort>>
      /\ local[c].step = "cancelled" => cancelled
      /\ "grading-write" \notin Working
  BY DEF GradeCase, Registered, Awaits, Working, InterruptInv, Guarded
<1>2. \A v : graded(v).step = local[c].step
  BY LocalBefore DEF TypeInv, Locals
<1>3. Aborted(c) => cancelled
  BY <1>1, AbortedIffCancelled
<1>4. \/ \E v \in Verdicts : Goto(c, "grading-write", graded(v))
      \/ cancelled /\ Cancel(c, local[c], "checked")
  BY <1>3 DEF GradeCase
<1> HIDE DEF graded
<1>5. \/ \E carried : Moves(c, "grading-write", carried) /\ carried.step = local[c].step
      \/ cancelled /\ Settles(c, "cancelled")
  BY <1>2, <1>4, GotoMoves, CancelSettles DEF TypeInv
<1> QED
  BY <1>1, <1>5, MoveKept, SettleKept, SameControllers DEF runVars

LEMMA WriteGradingKept ==
  ASSUME InterruptInv, TypeInv, NEW c \in Cases, WriteGrading(c) PROVE Kept(c) /\ Controllers(c)
<1>1. UNCHANGED <<runVars, abort>>
  BY DEF WriteGrading
<1>2. \/ cancelled /\ Settles(c, "cancelled")
      \/ Settles(c, "completed")
      \/ Settles(c, "infrastructure-failed")
  BY CancelSettles, FinishCaseSettles, InfrastructureFailsSettles DEF WriteGrading, Store, TypeInv
<1> QED
  BY <1>1, <1>2, SettleKept, SameControllers DEF runVars

LEMMA LeaveKept ==
  ASSUME InterruptInv, TypeInv, NEW c \in Cases, Leave(c), UNCHANGED runVars
  PROVE  Kept(c) /\ Controllers(c)
<1>1. Moves(c, "over", NoLocal) /\ Guarded(c)
  BY GotoMoves DEF Leave, TypeInv, InterruptInv
<1>2. NoLocal.step = "none" /\ "over" \notin Registered /\ "over" \notin Working
  BY DEF NoLocal, Registered, Awaits, Working
<1>3. Guarded(c)'
  BY <1>1, <1>2 DEF Guarded, Moves, Ended, HasResult, runVars
<1>4. Controllers(c)
  BY DEF Controllers, Leave, TypeInv, RunTypes, runVars
<1> QED
  BY <1>1, <1>2, <1>3, <1>4 DEF Kept, Moves, Quiet

LEMMA FinalizeCaseKept ==
  ASSUME InterruptInv, TypeInv, NEW c \in Cases, FinalizeCase(c) PROVE Kept(c) /\ Controllers(c)
<1>1. Leave(c) \/ (Goto(c, "dispose", NoLocal) /\ UNCHANGED abort)
  BY DEF FinalizeCase, Store
<1>2. UNCHANGED runVars /\ pc[c] = "finalize"
  BY DEF FinalizeCase
<1>3. CASE Goto(c, "dispose", NoLocal) /\ UNCHANGED abort
  <2>1. Moves(c, "dispose", NoLocal)
    BY <1>3, GotoMoves DEF TypeInv
  <2>2. NoLocal.step = "none" /\ "dispose" \notin Registered /\ "dispose" \notin Working
    BY DEF NoLocal, Registered, Working
  <2> QED BY <1>2, <1>3, <2>1, <2>2, MoveKept, SameControllers DEF runVars
<1> QED
  BY <1>1, <1>2, <1>3, LeaveKept

LEMMA DisposeKept ==
  ASSUME InterruptInv, TypeInv, NEW c \in Cases, Dispose(c) PROVE Kept(c) /\ Controllers(c)
  BY LeaveKept DEF Dispose

LEMMA CaseStepKept ==
  ASSUME InterruptInv, TypeInv, NEW c \in Cases, CaseStep(c) PROVE Kept(c) /\ Controllers(c)
<1>1. CASE AgentStep(c)
  BY <1>1, LaunchAgentKept, ReportLaunchFailureKept, IdentifySessionKept, AppendRecordKept,
     AgentEndsKept, IsReadableKept, CaptureTimeoutPatchKept, WriteTimeoutPatchKept
  DEF AgentStep
<1>2. CASE EvaluationStep(c)
  BY <1>2, ExportSessionKept, WriteSessionExportKept, CapturePatchKept, WritePatchKept,
     ApplyCheckStateKept, WriteChecksSetupLogKept, EvaluateCheckKept, WriteChecksKept,
     GradeCaseKept, WriteGradingKept
  DEF EvaluationStep
<1> QED
  BY <1>1, <1>2, StartCaseKept, SkipCaseKept, CreateIsolatedCaseKept, CreateCaseEnvironmentsKept,
     RunSetupPhaseKept, WriteAgentSetupLogKept, SnapshotPatchBaseKept, FinalizeCaseKept,
     DisposeKept
  DEF CaseStep

LEMMA InterruptInit == Init => InterruptInv
<1> SUFFICES ASSUME Init PROVE InterruptInv
  OBVIOUS
<1>1. NoLocal.step = "none" /\ "queued" \notin Registered
  BY DEF NoLocal, Registered, Awaits
<1>2. ASSUME NEW c \in Cases PROVE Guarded(c)
  BY <1>1 DEF Init, Guarded, Ended, HasResult
<1> QED
  BY <1>2 DEF Init, InterruptInv, NoInterruptLost, CancelReachesEveryCase

LEMMA CaseStepKeepsInterruptInv ==
  ASSUME InterruptInv, TypeInv, NEW c \in Cases, CaseStep(c)
  PROVE  InterruptInv' /\ \A d \in Cases : Quiet(d)
<1>1. Kept(c) /\ Controllers(c) /\ phase = "cases"
  BY CaseStepKept DEF CaseStep
<1>2. ASSUME NEW d \in Cases \ {c} PROVE Guarded(d)' /\ Quiet(d)
  <2>1. Guarded(d)
    BY DEF InterruptInv
  <2> QED
    BY <1>1, <2>1 DEF Kept, Alone, Controllers, Guarded, Ended, HasResult, Quiet
<1>3. Guarded(c)' /\ Quiet(c)
  BY <1>1 DEF Kept
<1>4. CancelReachesEveryCase'
  BY <1>1 DEF InterruptInv, CancelReachesEveryCase, Controllers
<1>5. NoInterruptLost'
  BY <1>1 DEF InterruptInv, NoInterruptLost, Controllers
<1> QED
  BY <1>1, <1>2, <1>3, <1>4, <1>5 DEF InterruptInv, Controllers

\* The steps of the run itself move no case.
LEMMA RunStepKeepsInterruptInv ==
  ASSUME InterruptInv, TypeInv, RunStep \/ ForcedExit \/ SignalArrives
  PROVE  InterruptInv' /\ \A d \in Cases : Quiet(d)
<1>1. UNCHANGED <<pc, local, results>>
  BY DEF RunStep, PreflightRefuses, PreflightPasses, StartRunFails, RunStarts, RunEnds,
         FinalizeRun, RebuildRunReport, ForcedExit, SignalArrives, RunMoves, caseVars
<1>2. \A d \in Cases : Quiet(d)
  BY <1>1 DEF Quiet
<1>3. ASSUME cancelled => cancelled', UNCHANGED abort, NEW c \in Cases
      PROVE  Guarded(c)'
  <2>1. Guarded(c)
    BY DEF InterruptInv
  <2> QED BY <1>1, <1>3, <2>1 DEF Guarded, Ended, HasResult
<1>4. CASE PreflightPasses
  <2>1. UNCHANGED <<cancelled, abort>> /\ phase' = "starting" /\ phase = "preflight"
    BY <1>4 DEF PreflightPasses, RunMoves
  <2>2. \A c \in Cases : Guarded(c)'
    BY <1>3, <2>1
  <2> QED
    BY <1>1, <1>2, <2>1, <2>2 DEF InterruptInv, NoInterruptLost, CancelReachesEveryCase
<1>5. CASE RunStarts
  <2>1. /\ ~cancelled /\ cancelled' = signal /\ UNCHANGED <<signal, abort>>
        /\ phase' = "cases" /\ \A c \in Cases : abort[c] = "absent"
    BY <1>5 DEF RunStarts, RunMoves, InterruptInv
  <2>2. \A c \in Cases : Guarded(c)'
    BY <1>3, <2>1
  <2> QED
    BY <1>2, <2>1, <2>2 DEF InterruptInv, NoInterruptLost, CancelReachesEveryCase
<1>6. CASE PreflightRefuses \/ StartRunFails \/ RunEnds \/ FinalizeRun \/ RebuildRunReport
           \/ ForcedExit
  <2>1. /\ UNCHANGED <<cancelled, abort>>
        /\ phase' \in {"done", "finalizing", "reporting", "killed"}
    BY <1>6 DEF PreflightRefuses, StartRunFails, RunEnds, FinalizeRun, RebuildRunReport,
                ForcedExit, RunMoves
  <2>2. \A c \in Cases : Guarded(c)'
    BY <1>3, <2>1
  <2> QED
    BY <1>2, <2>1, <2>2 DEF InterruptInv, NoInterruptLost, CancelReachesEveryCase
<1>7. CASE SignalArrives /\ phase = "cases"
  <2>1. cancelled' = TRUE /\ phase' = phase
    BY <1>7 DEF SignalArrives
  <2>2. ASSUME NEW c \in Cases PROVE abort'[c] = IF abort[c] = "live" THEN "fired" ELSE abort[c]
    BY <1>7 DEF SignalArrives
  <2>3. ASSUME NEW c \in Cases PROVE Guarded(c)'
    <3>1. Guarded(c)
      BY DEF InterruptInv
    <3> QED BY <1>1, <2>1, <2>2, <3>1 DEF Guarded, Ended, HasResult
  <2>4. CancelReachesEveryCase'
    BY <2>2 DEF CancelReachesEveryCase
  <2> QED
    BY <1>2, <1>7, <2>1, <2>3, <2>4 DEF InterruptInv, NoInterruptLost
<1>8. CASE SignalArrives /\ phase # "cases"
  <2>1. UNCHANGED <<cancelled, abort, phase>>
    BY <1>8 DEF SignalArrives
  <2>2. \A c \in Cases : Guarded(c)'
    BY <1>3, <2>1
  <2> QED
    BY <1>1, <1>2, <1>8, <2>1, <2>2 DEF InterruptInv, NoInterruptLost, CancelReachesEveryCase
<1> QED
  BY <1>2, <1>4, <1>5, <1>6, <1>7, <1>8 DEF RunStep

LEMMA NextKeepsInterruptInv ==
  ASSUME TypeInv, InterruptInv, [Next]_vars
  PROVE  /\ TypeInv' /\ InterruptInv'
         /\ \A d \in Cases : Quiet(d)
<1>1. CASE UNCHANGED vars
  <2>1. UNCHANGED <<signal, phase, cancelled, abort, pc, local, results>>
    BY <1>1 DEF vars, runVars, caseVars
  <2>2. InterruptInv' /\ \A d \in Cases : Quiet(d)
    BY <2>1 DEF InterruptInv, NoInterruptLost, CancelReachesEveryCase, Guarded, Ended,
                HasResult, Quiet
  <2>3. TypeInv'
    BY <1>1 DEF vars, runVars, caseVars, TypeInv, RunTypes, CaseInv, CaseTypes, CheckCount
  <2> QED BY <2>2, <2>3
<1>2. CASE Next
  BY <1>2, CaseStepTyped, RunStepTyped, CaseStepKeepsInterruptInv, RunStepKeepsInterruptInv
  DEF Next
<1> QED BY <1>1, <1>2

LEMMA InductiveInvariant == Spec => [](TypeInv /\ InterruptInv)
<1>1. Init => TypeInv /\ InterruptInv
  BY TypeInit, InterruptInit
<1>2. TypeInv /\ InterruptInv /\ [Next]_vars => (TypeInv /\ InterruptInv)'
  BY NextKeepsInterruptInv
<1> QED BY <1>1, <1>2, PTL DEF Spec

\* No interrupt that arrives around the start of the run is lost.
THEOREM InterruptNeverLost == Spec => []NoInterruptLost
<1>1. InterruptInv => NoInterruptLost
  BY DEF InterruptInv
<1> QED BY <1>1, InductiveInvariant, PTL

\* In a cancelled run no case holds a controller that was not aborted, however
\* many cases run and wherever in their preparation the interrupt met them.
THEOREM CancelReaches == Spec => []CancelReachesEveryCase
<1>1. InterruptInv => CancelReachesEveryCase
  BY DEF InterruptInv
<1> QED BY <1>1, InductiveInvariant, PTL

\* A case recorded as cancelled belongs to a run that was interrupted, although
\* a failed append aborts a case through the same controller.
THEOREM CancelledOnlyByInterrupt == Spec => []CancelledMeansInterrupted
<1>1. InterruptInv => CancelledMeansInterrupted
  BY DEF InterruptInv, Guarded, CancelledMeansInterrupted
<1> QED BY <1>1, InductiveInvariant, PTL

\* A cancelled run starts no further agent, setup command, check or grader call.
THEOREM NothingStarts == Spec => NothingStartsAfterCancel
<1>1. TypeInv /\ InterruptInv /\ [Next]_vars
        => [\A c \in Cases : cancelled /\ pc'[c] \in Working
              => pc'[c] = pc[c] /\ local'[c].checked = local[c].checked]_vars
  BY NextKeepsInterruptInv DEF Quiet
<1> QED
  BY <1>1, InductiveInvariant, PTL DEF Spec, NothingStartsAfterCancel

-----------------------------------------------------------------------------
(* The inductive invariant: what each case has saved when it awaits a call, *)
(* and what the run knows once its cases are over.                         *)

\* The calls of a case without a result yet, and those with the patch saved.
Going      == (Awaits \ {"finalize", "dispose"}) \cup {"queued"}
PatchCalls == {"check-state", "setup-checks", "setup-checks-log", "checks", "checks-write",
               "grading", "grading-write"}

\* What a pipeline object awaiting a call claims is among the saved files. The
\* loop over the checks is cut short only in a run that was cancelled.
Backed(call, carried, files, stopped) ==
  /\ carried.logs \subseteq files
  /\ carried.seen \cap {"session"} \subseteq files
  /\ carried.seen \cap Records \subseteq files \cup carried.lost
  /\ carried.lost # {} => call = "agent"
  /\ call \in PatchCalls => "patch" \in files
  /\ call \in {"grading", "grading-write"} => "checks" \in files
  /\ call \in {"grading", "grading-write"} \/ (call = "checks-write" /\ ~stopped)
       => carried.checked = NumChecks
  /\ "result" \notin files

\* What a record claims is among the saved files, and a completed one is whole.
RecordWhole(c, record, files) ==
  /\ record.artifacts \ Records \subseteq files
  /\ record.lifecycle = "completed" =>
       /\ record.checks = NumChecks
       /\ {"patch", "checks"} \subseteq record.artifacts
       /\ c \in Graded => "grading" \in record.artifacts
       /\ record.artifacts \subseteq files
       /\ record.outcome \in Verdicts

EvidenceWhole(c) ==
  /\ pc[c] \in Going => ~HasResult(c) /\ Backed(pc[c], local[c], disk[c], cancelled)
  /\ pc[c] \in {"finalize", "dispose"} => HasResult(c)
  /\ pc[c] = "finalize" => "result" \notin disk[c]
  /\ HasResult(c) => RecordWhole(c, results[c], disk[c])

Skipped(c, severities) == HasFinding(c, severities, {"skipped"})

Accounted(c) ==
  /\ pc[c] = "dispose" => "result" \in disk[c]
  /\ workspace[c] = "removed" => pc[c] = "over" /\ "result" \in disk[c]
  /\ pc[c] = "queued" => workspace[c] = "none"
  /\ pc[c] = "over" /\ workspace[c] = "present"
       => HasFinding(c, {"warning", "error"}, {"result", "workspace"})
  /\ pc[c] = "over" =>
       IF HasResult(c) THEN "result" \in disk[c] \/ HasFinding(c, {"error"}, {"result"})
       ELSE Skipped(c, {"warning", "error"})
  /\ Skipped(c, {"warning", "error"}) => pc[c] = "over" /\ ~HasResult(c)
  /\ Skipped(c, {"warning"}) => cancelled

Clean(c) ==
  results[c].lifecycle = "completed" /\ results[c].outcome = "passed" /\ ~results[c].failed

RunWhole ==
  /\ phase \in {"finalizing", "reporting"} =>
       exitCode \in {0, 1, 2, 130} /\ \A c \in Cases : pc[c] = "over"
  /\ phase \in {"preflight", "starting", "cases"} => exitCode = -1
  /\ exitCode \in {0, 2} =>
       /\ phase \in {"finalizing", "reporting", "done"}
       /\ ~cancelled
       /\ \A c \in Cases : HasResult(c) /\ "result" \in disk[c]
  /\ exitCode = 0 => \A c \in Cases : Clean(c)

CasesWhole == \A c \in Cases : EvidenceWhole(c) /\ Accounted(c)

-----------------------------------------------------------------------------
(* A step of a case that is still in its pipeline.                         *)

\* Case c goes on to its next call.
Advances(c) ==
  /\ pc'[c] \in Going \ {"queued"}
  /\ results'[c] = results[c]
  /\ Backed(pc'[c], local'[c], disk'[c], cancelled)

\* Case c ends with a record.
Concludes(c) ==
  /\ pc'[c] = "finalize"
  /\ results'[c] # NoResult
  /\ RecordWhole(c, results'[c], disk'[c])
  /\ "result" \notin disk'[c]

Goes(c) == Alone(c) /\ (Advances(c) \/ Concludes(c))

\* What such a step leaves alone, and how files and findings may grow.
Around(c) ==
  /\ \A d \in Cases \ {c} : disk'[d] = disk[d] /\ workspace'[d] = workspace[d]
  /\ disk[c] \subseteq disk'[c]
  /\ workspace'[c] # "removed"
  /\ findings \subseteq findings'
  /\ \A f \in findings' \ findings : f.case = c /\ f.about # "skipped"
  /\ UNCHANGED runVars

Onward(c) == pc[c] \in Going /\ Goes(c) /\ Around(c)

LEMMA FindingsGrow ==
  ASSUME NEW c \in Cases, Around(c), NEW d \in Cases, NEW severities, NEW subjects
  PROVE  /\ HasFinding(d, severities, subjects) => HasFinding(d, severities, subjects)'
         /\ Skipped(d, severities)' => Skipped(d, severities)
         /\ d # c => (HasFinding(d, severities, subjects)' => HasFinding(d, severities, subjects))
  BY DEF Around, HasFinding, Skipped

LEMMA OthersWhole ==
  ASSUME CasesWhole, NEW c \in Cases, Alone(c), Around(c), NEW d \in Cases \ {c}
  PROVE  EvidenceWhole(d)' /\ Accounted(d)'
<1>1. /\ pc'[d] = pc[d] /\ local'[d] = local[d] /\ results'[d] = results[d]
      /\ disk'[d] = disk[d] /\ workspace'[d] = workspace[d] /\ cancelled' = cancelled
  BY DEF Alone, Around, runVars
<1>2. EvidenceWhole(d) /\ Accounted(d)
  BY DEF CasesWhole
<1>3. EvidenceWhole(d)'
  BY <1>1, <1>2 DEF EvidenceWhole, HasResult
<1>4. Accounted(d)'
  BY <1>1, <1>2, FindingsGrow DEF Accounted, HasResult, Skipped
<1> QED BY <1>3, <1>4

LEMMA OnwardKeeps ==
  ASSUME CasesWhole, NEW c \in Cases, Onward(c)
  PROVE  CasesWhole'
<1>1. EvidenceWhole(c) /\ Accounted(c) /\ cancelled' = cancelled
  BY DEF CasesWhole, Onward, Around, runVars
<1>2. ~HasResult(c) /\ pc[c] \notin {"over", "dispose", "finalize"}
  BY <1>1 DEF EvidenceWhole, Onward, Going, Awaits
<1>3. pc'[c] \notin {"over", "dispose", "queued"} /\ ("finalize" \in Going <=> FALSE)
  BY DEF Onward, Goes, Advances, Concludes, Going, Awaits
<1>4. EvidenceWhole(c)'
  <2>1. CASE Advances(c)
    BY <1>1, <1>2, <1>3, <2>1 DEF Advances, EvidenceWhole, HasResult
  <2>2. CASE Concludes(c)
    BY <1>1, <1>3, <2>2 DEF Concludes, EvidenceWhole, HasResult
  <2> QED BY <2>1, <2>2 DEF Onward, Goes
<1>5. ~Skipped(c, {"warning", "error"})' /\ ~Skipped(c, {"warning"})'
  <2>1. ~Skipped(c, {"warning", "error"})
    BY <1>1, <1>2 DEF Accounted
  <2>2. ~Skipped(c, {"warning"})
    BY <2>1 DEF Skipped, HasFinding
  <2> QED BY <2>1, <2>2, FindingsGrow DEF Onward
<1>6. Accounted(c)'
  BY <1>3, <1>5 DEF Accounted, Onward, Around
<1>7. \A d \in Cases \ {c} : EvidenceWhole(d)' /\ Accounted(d)'
  BY OthersWhole DEF Onward, Goes
<1> QED BY <1>4, <1>6, <1>7 DEF CasesWhole

LEMMA AroundSame ==
  ASSUME CasesWhole, NEW c \in Cases, pc[c] \in Going,
         UNCHANGED <<runVars, workspace, disk, findings>>
  PROVE  Around(c)
<1>1. workspace[c] # "removed"
  BY DEF CasesWhole, Accounted, Going, Awaits
<1> QED BY <1>1 DEF Around

LEMMA AroundReported ==
  ASSUME CasesWhole, NEW c \in Cases, pc[c] \in Going, NEW severity, NEW about,
         about # "skipped", Report(c, severity, about), UNCHANGED <<runVars, workspace, disk>>
  PROVE  Around(c)
<1>1. workspace[c] # "removed"
  BY DEF CasesWhole, Accounted, Going, Awaits
<1> QED BY <1>1 DEF Around, Report

\* A store write that fails leaves the disk as it was.
LEMMA AroundStored ==
  ASSUME CasesWhole, TypeInv, NEW c \in Cases, pc[c] \in Going, NEW file, Stored(c, file),
         UNCHANGED <<runVars, workspace, findings>>
  PROVE  Around(c)
<1>1. workspace[c] # "removed"
  BY DEF CasesWhole, Accounted, Going, Awaits
<1>2. disk \in [Cases -> SUBSET (Evidence \cup {"result"})]
  BY DEF TypeInv, RunTypes
<1> QED BY <1>1, <1>2 DEF Around, Stored

LEMMA StoredFile ==
  ASSUME TypeInv, NEW c \in Cases, NEW file, disk' = [disk EXCEPT ![c] = @ \cup {file}]
  PROVE  disk'[c] = disk[c] \cup {file}
  BY DEF TypeInv, RunTypes

LEMMA GotoAdvances ==
  ASSUME TypeInv, NEW c \in Cases, NEW call \in Going \ {"queued"}, NEW carried,
         Goto(c, call, carried), Backed(call, carried, disk'[c], cancelled)
  PROVE  Goes(c)
  BY GotoMoves DEF TypeInv, Moves, Goes, Advances

LEMMA AnnounceAdvances ==
  ASSUME TypeInv, NEW c \in Cases, NEW call \in Going \ {"queued"}, NEW carried, NEW state,
         Announce(c, call, carried, state), Backed(call, carried, disk'[c], cancelled)
  PROVE  Goes(c)
  BY AnnounceMoves DEF TypeInv, Moves, Goes, Advances

LEMMA PersistConcludes ==
  ASSUME TypeInv, NEW c \in Cases, NEW record, Persist(c, record),
         record.lifecycle # "none", RecordWhole(c, record, disk'[c]), "result" \notin disk'[c]
  PROVE  Goes(c)
<1>1. Alone(c) /\ pc'[c] = "finalize" /\ results'[c] = record
  BY PersistSettles DEF TypeInv, CaseInv, CaseTypes, Settles, Persist
<1>2. record # NoResult
  BY DEF NoResult
<1> QED BY <1>1, <1>2 DEF Goes, Concludes

LEMMA EndBeforeAgentConcludes ==
  ASSUME TypeInv, NEW c \in Cases, NEW ending \in {"infrastructure-failed", "cancelled"},
         NEW logs, logs \subseteq disk'[c], "result" \notin disk'[c],
         EndBeforeAgent(c, ending, logs)
  PROVE  Goes(c)
<1> DEFINE record == [lifecycle |-> ending, outcome |-> "not-evaluated", failed |-> TRUE,
                      artifacts |-> logs, checks |-> 0]
<1>1. Persist(c, record)
  BY DEF EndBeforeAgent
<1>2. record.lifecycle # "none" /\ RecordWhole(c, record, disk'[c])
  BY DEF RecordWhole
<1> HIDE DEF record
<1> QED BY <1>1, <1>2, PersistConcludes

\* What finishCase claims for the pipeline object it is handed at a stage.
Claims(c, carried, reached) ==
  (carried.seen \cap {"session"}) \cup carried.logs \cup StageIndex(c, reached)

LEMMA FinishCaseConcludes ==
  ASSUME TypeInv, NEW c \in Cases, NEW carried, NEW ending, NEW failed, NEW reached,
         ending # "none", Claims(c, carried, reached) \subseteq disk'[c],
         "result" \notin disk'[c],
         ending = "completed" =>
           /\ reached = "evaluated" /\ carried.checked = NumChecks
           /\ carried.seen \cap Records \subseteq disk'[c],
         FinishCase(c, carried, ending, failed, reached)
  PROVE  Goes(c)
<1> DEFINE outcome == IF ending = "completed"
                      THEN ReduceRequiredOutcome({carried.verdict, carried.grade}, carried.checked)
                      ELSE "not-evaluated"
           index   == (carried.seen \cap (Records \cup {"session"})) \cup carried.logs
                        \cup StageIndex(c, reached)
           record(decoding) == [lifecycle |-> ending, outcome |-> outcome,
                                failed |-> failed \/ decoding, artifacts |-> index,
                                checks |-> carried.checked]
<1>1. PICK decoding \in BOOLEAN : Persist(c, record(decoding))
  BY DEF FinishCase
<1>2. index \ Records \subseteq disk'[c]
  BY DEF Claims
<1>3. ASSUME ending = "completed"
      PROVE  /\ {"patch", "checks"} \subseteq index
             /\ c \in Graded => "grading" \in index
             /\ index \subseteq disk'[c]
             /\ outcome \in Verdicts
  <2>1. StageIndex(c, reached) = {"patch", "checks"} \cup (IF c \in Graded THEN {"grading"} ELSE {})
    BY <1>3 DEF StageIndex
  <2>2. outcome \in Verdicts
    BY <1>3, ReducedIsVerdict
  <2>3. index \subseteq disk'[c]
    BY <1>3 DEF Claims
  <2> HIDE DEF outcome
  <2> QED BY <2>1, <2>2, <2>3
<1>4. record(decoding).lifecycle # "none" /\ RecordWhole(c, record(decoding), disk'[c])
  <2> HIDE DEF index, outcome
  <2> QED BY <1>2, <1>3 DEF RecordWhole
<1> HIDE DEF record
<1> QED BY <1>1, <1>4, PersistConcludes

-----------------------------------------------------------------------------
(* What a pipeline object that lost no append holds, and where it may go.  *)

Held(carried, files) ==
  /\ carried.logs \subseteq files
  /\ carried.seen \cap {"session"} \subseteq files
  /\ carried.seen \cap Records \subseteq files
  /\ carried.lost = {}
  /\ "result" \notin files

LEMMA HeldBacked ==
  ASSUME NEW call, NEW carried, NEW files, NEW stopped, Held(carried, files),
         call \in PatchCalls => "patch" \in files,
         call \notin {"checks-write", "grading", "grading-write"}
  PROVE  Backed(call, carried, files, stopped)
  BY DEF Held, Backed

\* Where a case stands before a step, if its process is not running.
LEMMA HeldBefore ==
  ASSUME CasesWhole, NEW c \in Cases, pc[c] \in Going, pc[c] # "agent"
  PROVE  Held(local[c], disk[c]) /\ (pc[c] \in PatchCalls => "patch" \in disk[c])
  BY DEF CasesWhole, EvidenceWhole, Backed, Held

LEMMA HeldGrows ==
  ASSUME NEW carried, NEW files, NEW more, Held(carried, files), files \subseteq more,
         "result" \notin more
  PROVE  Held(carried, more)
  BY DEF Held

\* Setting fields that say nothing of files keeps what is held.
LEMMA HeldSet ==
  ASSUME TypeInv, NEW c \in Cases, NEW files, Held(local[c], files), NEW v
  PROVE  /\ Held([local[c] EXCEPT !.kept = v], files)
         /\ Held([local[c] EXCEPT !.step = v], files)
         /\ Held([local[c] EXCEPT !.grade = v], files)
<1>1. local[c] \in Locals
  BY LocalBefore DEF TypeInv
<1> QED BY <1>1 DEF Held, Locals

LEMMA HeldLogged ==
  ASSUME TypeInv, NEW c \in Cases, NEW files, Held(local[c], files), NEW log, log \in files
  PROVE  Held([local[c] EXCEPT !.step = "none", !.logs = @ \cup {log}], files)
<1>1. local[c] \in Locals
  BY LocalBefore DEF TypeInv
<1> QED BY <1>1 DEF Held, Locals

LEMMA NoLocalHeld ==
  ASSUME NEW files, "result" \notin files
  PROVE  Held(NoLocal, files)
  BY DEF NoLocal, Held

LEMMA StageFiles ==
  ASSUME NEW c
  PROVE  /\ StageIndex(c, "export-settled") = {}
         /\ StageIndex(c, "patch-captured") = {"patch"}
         /\ StageIndex(c, "checks-evaluated") = {"patch"}
         /\ StageIndex(c, "checked") = {"patch", "checks"}
         /\ StageIndex(c, "evaluated") \subseteq {"patch", "checks", "grading"}
         /\ c \notin Graded => StageIndex(c, "evaluated") = {"patch", "checks"}
  BY DEF StageIndex

LEMMA FailureConcludes ==
  ASSUME TypeInv, NEW c \in Cases, NEW carried, NEW ending, NEW failed, NEW reached,
         ending \in Terminal \ {"completed"}, Held(carried, disk'[c]),
         StageIndex(c, reached) \subseteq disk'[c],
         FinishCase(c, carried, ending, failed, reached)
  PROVE  Goes(c)
<1>1. Claims(c, carried, reached) \subseteq disk'[c] /\ "result" \notin disk'[c]
  BY DEF Claims, Held
<1>2. ending # "none" /\ ending # "completed"
  BY DEF Terminal
<1> QED BY <1>1, <1>2, FinishCaseConcludes

LEMMA InfrastructureFailsGoes ==
  ASSUME TypeInv, NEW c \in Cases, NEW carried, NEW reached, Held(carried, disk'[c]),
         StageIndex(c, reached) \subseteq disk'[c], InfrastructureFails(c, carried, reached)
  PROVE  Goes(c)
  BY FailureConcludes DEF InfrastructureFails, Terminal

LEMMA CancelGoes ==
  ASSUME TypeInv, NEW c \in Cases, NEW carried, NEW reached, Held(carried, disk'[c]),
         StageIndex(c, reached) \subseteq disk'[c], Cancel(c, carried, reached)
  PROVE  Goes(c)
  BY FailureConcludes DEF Cancel, Terminal

LEMMA GotoGoes ==
  ASSUME TypeInv, NEW c \in Cases, NEW carried, Held(carried, disk'[c]),
         NEW call \in Going \ {"queued", "checks-write", "grading", "grading-write"},
         call \in PatchCalls => "patch" \in disk'[c], Goto(c, call, carried)
  PROVE  Goes(c)
<1>1. Backed(call, carried, disk'[c], cancelled)
  BY HeldBacked
<1> QED BY <1>1, GotoAdvances

LEMMA AnnounceGoes ==
  ASSUME TypeInv, NEW c \in Cases, NEW carried, Held(carried, disk'[c]),
         NEW call \in Going \ ({"queued"} \cup PatchCalls), NEW state,
         Announce(c, call, carried, state)
  PROVE  Goes(c)
<1>1. Backed(call, carried, disk'[c], cancelled)
  BY HeldBacked DEF PatchCalls
<1> QED BY <1>1, AnnounceAdvances

\* Checks are cut short before the first one only in a cancelled run.
LEMMA EnterChecksGoes ==
  ASSUME InterruptInv, TypeInv, NEW c \in Cases, pc[c] \in Registered, pc[c] # "agent",
         NEW carried, Held(carried, disk'[c]), "patch" \in disk'[c], EnterChecks(c, carried)
  PROVE  Goes(c)
<1>1. CASE Aborted(c)
  <2>1. cancelled
    BY <1>1, AbortedIffCancelled
  <2>2. Backed("checks-write", carried, disk'[c], cancelled)
    BY <2>1 DEF Backed, Held
  <2>3. Goto(c, "checks-write", carried) /\ "checks-write" \in Going \ {"queued"}
    BY <1>1 DEF EnterChecks, Going, Awaits
  <2> QED BY <2>2, <2>3, GotoAdvances
<1>2. CASE ~Aborted(c)
  <2>1. Goto(c, "checks", carried)
        /\ "checks" \in Going \ {"queued", "checks-write", "grading", "grading-write"}
    BY <1>2 DEF EnterChecks, Going, Awaits
  <2> QED BY <2>1, GotoGoes
<1> QED BY <1>1, <1>2

LEMMA EnterBeforeChecksGoes ==
  ASSUME InterruptInv, TypeInv, NEW c \in Cases, pc[c] \in Registered, pc[c] # "agent",
         NEW carried, Held(carried, disk'[c]), "patch" \in disk'[c],
         EnterBeforeChecks(c, carried)
  PROVE  Goes(c)
<1>1. CASE EnterChecks(c, carried)
  BY <1>1, EnterChecksGoes
<1>2. CASE Cancel(c, carried, "patch-captured")
  BY <1>2, StageFiles, CancelGoes
<1>3. CASE Goto(c, "setup-checks", carried)
  BY <1>3, GotoGoes DEF Going, Awaits
<1> QED BY <1>1, <1>2, <1>3 DEF EnterBeforeChecks

LEMMA SettleExportGoes ==
  ASSUME TypeInv, NEW c \in Cases, NEW carried, Held(carried, disk'[c]), SettleExport(c, carried)
  PROVE  Goes(c)
<1>1. CASE Cancel(c, carried, "export-settled")
  BY <1>1, StageFiles, CancelGoes
<1>2. CASE Announce(c, "patch", carried, "evaluating")
  BY <1>2, AnnounceGoes DEF Going, Awaits, PatchCalls
<1> QED BY <1>1, <1>2 DEF SettleExport

LEMMA EnterEvaluationGoes ==
  ASSUME TypeInv, NEW c \in Cases, Held(local[c], disk'[c]), NEW failed,
         EnterEvaluation(c, failed)
  PROVE  Goes(c)
<1> DEFINE carried == [local[c] EXCEPT !.kept = failed]
<1>1. Held(carried, disk'[c])
  BY HeldSet
<1>2. Announce(c, "export", carried, "evaluating") \/ SettleExport(c, carried)
  BY DEF EnterEvaluation
<1> HIDE DEF carried
<1>3. CASE Announce(c, "export", carried, "evaluating")
  BY <1>1, <1>3, AnnounceGoes DEF Going, Awaits, PatchCalls
<1> QED BY <1>1, <1>2, <1>3, SettleExportGoes


-----------------------------------------------------------------------------
(* The actions of a case from its slot to its agent.                       *)

CaseReady == CasesWhole /\ InterruptInv /\ TypeInv

LEMMA FilesBefore ==
  ASSUME CasesWhole, NEW c \in Cases, pc[c] \in Going
  PROVE  "result" \notin disk[c]
  BY DEF CasesWhole, EvidenceWhole, Backed

LEMMA StartCaseOnward ==
  ASSUME CaseReady, NEW c \in Cases, StartCase(c) PROVE Onward(c)
<1>1. pc[c] \in Going /\ UNCHANGED <<runVars, workspace, disk, findings>>
  BY DEF StartCase, HasSlot, Going
<1>2. Held(NoLocal, disk'[c])
  BY <1>1, FilesBefore, NoLocalHeld DEF CaseReady
<1>3. Goes(c)
  BY <1>2, AnnounceGoes DEF StartCase, Going, Awaits, PatchCalls, CaseReady
<1> QED BY <1>1, <1>3, AroundSame DEF Onward, CaseReady

LEMMA CreateIsolatedCaseOnward ==
  ASSUME CaseReady, NEW c \in Cases, CreateIsolatedCase(c) PROVE Onward(c)
<1>1. pc[c] \in Going /\ UNCHANGED <<runVars, disk, findings>>
  BY DEF CreateIsolatedCase, Going, Awaits
<1>2. "result" \notin disk'[c] /\ Held(NoLocal, disk'[c])
  BY <1>1, FilesBefore, NoLocalHeld DEF CaseReady
<1>3. Goes(c)
  <2>1. CASE Goto(c, "environments", NoLocal)
    BY <1>2, <2>1, GotoGoes DEF Going, Awaits, PatchCalls, CaseReady
  <2>2. CASE EndBeforeAgent(c, "infrastructure-failed", {})
    BY <1>2, <2>2, EndBeforeAgentConcludes DEF CaseReady
  <2> QED BY <2>1, <2>2 DEF CreateIsolatedCase
<1>4. /\ workspace'[c] # "removed"
      /\ \A d \in Cases \ {c} : workspace'[d] = workspace[d]
  BY DEF CreateIsolatedCase, CaseReady, TypeInv, RunTypes
<1>5. Around(c)
  BY <1>1, <1>4 DEF Around
<1> QED BY <1>1, <1>3, <1>5 DEF Onward

LEMMA CreateCaseEnvironmentsOnward ==
  ASSUME CaseReady, NEW c \in Cases, CreateCaseEnvironments(c) PROVE Onward(c)
<1>1. pc[c] \in Going /\ UNCHANGED <<runVars, workspace, disk, findings>>
  BY DEF CreateCaseEnvironments, Going, Awaits
<1> SUFFICES Goes(c)
  BY <1>1, AroundSame DEF Onward, CaseReady
<1>2. "result" \notin disk'[c] /\ Held(NoLocal, disk'[c])
  BY <1>1, FilesBefore, NoLocalHeld DEF CaseReady
<1>3. \/ EndBeforeAgent(c, "infrastructure-failed", {}) \/ EndBeforeAgent(c, "cancelled", {})
      \/ Announce(c, "launch", NoLocal, "running") \/ Goto(c, "setup-agent", NoLocal)
  BY DEF CreateCaseEnvironments, EnterAgent
<1>4. CASE EndBeforeAgent(c, "infrastructure-failed", {}) \/ EndBeforeAgent(c, "cancelled", {})
  BY <1>2, <1>4, EndBeforeAgentConcludes DEF CaseReady
<1>5. CASE Announce(c, "launch", NoLocal, "running")
  BY <1>2, <1>5, AnnounceGoes DEF Going, Awaits, PatchCalls, CaseReady
<1>6. CASE Goto(c, "setup-agent", NoLocal)
  BY <1>2, <1>6, GotoGoes DEF Going, Awaits, PatchCalls, CaseReady
<1> QED BY <1>1, <1>3, <1>4, <1>5, <1>6 DEF CaseReady

LEMMA RunSetupPhaseOnward ==
  ASSUME CaseReady, NEW c \in Cases, RunSetupPhase(c) PROVE Onward(c)
<1>1. /\ pc[c] \in Going /\ pc[c] # "agent" /\ UNCHANGED <<runVars, workspace, disk, findings>>
      /\ pc[c] = "setup-checks" => pc[c] \in PatchCalls
  BY DEF RunSetupPhase, Going, Awaits, PatchCalls
<1> SUFFICES Goes(c)
  BY <1>1, AroundSame DEF Onward, CaseReady
<1>2. PICK status :
        Goto(c, IF pc[c] = "setup-agent" THEN "setup-agent-log" ELSE "setup-checks-log",
             [local[c] EXCEPT !.step = status])
  BY DEF RunSetupPhase
<1> DEFINE carried == [local[c] EXCEPT !.step = status]
<1>3. Held(carried, disk'[c]) /\ (pc[c] = "setup-checks" => "patch" \in disk'[c])
  BY <1>1, HeldBefore, HeldSet DEF CaseReady
<1> HIDE DEF carried
<1>4. CASE pc[c] = "setup-agent"
  <2>1. Goto(c, "setup-agent-log", carried)
    BY <1>2, <1>4 DEF carried
  <2>2. /\ "setup-agent-log" \in Going \ {"queued", "checks-write", "grading", "grading-write"}
        /\ "setup-agent-log" \notin PatchCalls
    BY DEF Going, Awaits, PatchCalls
  <2> QED BY <1>1, <1>3, <2>1, <2>2, GotoGoes DEF CaseReady
<1>5. CASE pc[c] = "setup-checks"
  <2>1. Goto(c, "setup-checks-log", carried)
    BY <1>2, <1>5 DEF carried
  <2>2. "setup-checks-log" \in Going \ {"queued", "checks-write", "grading", "grading-write"}
    BY DEF Going, Awaits
  <2> QED BY <1>1, <1>3, <1>5, <2>1, <2>2, GotoGoes DEF CaseReady
<1> QED BY <1>4, <1>5 DEF RunSetupPhase

LEMMA WriteAgentSetupLogOnward ==
  ASSUME CaseReady, NEW c \in Cases, WriteAgentSetupLog(c) PROVE Onward(c)
<1> DEFINE logged == [local[c] EXCEPT !.step = "none", !.logs = @ \cup {"setup-agent-log"}]
<1>1. /\ pc[c] \in Going /\ pc[c] # "agent" /\ Stored(c, "setup-agent-log")
      /\ UNCHANGED <<runVars, workspace, findings>>
  BY DEF WriteAgentSetupLog, Store, Stored, Going, Awaits
<1>2. Around(c)
  BY <1>1, AroundStored DEF CaseReady
<1> SUFFICES Goes(c)
  BY <1>1, <1>2 DEF Onward
<1>3. Held(local[c], disk[c])
  BY <1>1, HeldBefore DEF CaseReady
<1>4. \/ /\ disk' = [disk EXCEPT ![c] = @ \cup {"setup-agent-log"}]
         /\ \/ EndBeforeAgent(c, "infrastructure-failed", logged.logs)
            \/ EndBeforeAgent(c, "cancelled", logged.logs)
            \/ Goto(c, "patch-base", logged)
      \/ disk' = disk /\ EndBeforeAgent(c, "infrastructure-failed", {})
  BY DEF WriteAgentSetupLog, Store
<1> HIDE DEF logged
<1>5. CASE /\ disk' = [disk EXCEPT ![c] = @ \cup {"setup-agent-log"}]
           /\ \/ EndBeforeAgent(c, "infrastructure-failed", logged.logs)
              \/ EndBeforeAgent(c, "cancelled", logged.logs)
              \/ Goto(c, "patch-base", logged)
  <2>1. disk'[c] = disk[c] \cup {"setup-agent-log"}
    BY <1>5, StoredFile DEF CaseReady
  <2>2. Held(local[c], disk'[c])
    BY <1>3, <2>1, HeldGrows DEF Held
  <2>3. Held(logged, disk'[c])
    BY <2>1, <2>2, HeldLogged DEF CaseReady, logged
  <2>4. logged.logs \subseteq disk'[c] /\ "result" \notin disk'[c]
    BY <2>3 DEF Held
  <2>5. CASE Goto(c, "patch-base", logged)
    BY <2>3, <2>5, GotoGoes DEF Going, Awaits, PatchCalls, CaseReady
  <2> QED BY <1>5, <2>4, <2>5, EndBeforeAgentConcludes DEF CaseReady
<1>6. CASE disk' = disk /\ EndBeforeAgent(c, "infrastructure-failed", {})
  BY <1>1, <1>6, FilesBefore, EndBeforeAgentConcludes DEF CaseReady
<1> QED BY <1>4, <1>5, <1>6

LEMMA SnapshotPatchBaseOnward ==
  ASSUME CaseReady, NEW c \in Cases, SnapshotPatchBase(c) PROVE Onward(c)
<1>1. pc[c] \in Going /\ pc[c] # "agent" /\ UNCHANGED <<runVars, workspace, disk, findings>>
  BY DEF SnapshotPatchBase, Going, Awaits
<1> SUFFICES Goes(c)
  BY <1>1, AroundSame DEF Onward, CaseReady
<1>2. Held(local[c], disk'[c])
  BY <1>1, HeldBefore DEF CaseReady
<1>3. local[c].logs \subseteq disk'[c] /\ "result" \notin disk'[c]
  BY <1>2 DEF Held
<1>4. \/ EndBeforeAgent(c, "infrastructure-failed", local[c].logs)
      \/ EndBeforeAgent(c, "cancelled", local[c].logs)
      \/ Announce(c, "launch", local[c], "running")
  BY DEF SnapshotPatchBase, EnterAgent
<1>5. CASE Announce(c, "launch", local[c], "running")
  BY <1>2, <1>5, AnnounceGoes DEF Going, Awaits, PatchCalls, CaseReady
<1> QED BY <1>1, <1>3, <1>4, <1>5, EndBeforeAgentConcludes DEF CaseReady

-----------------------------------------------------------------------------
(* The agent's process and its records.                                    *)

LEMMA LaunchAgentOnward ==
  ASSUME CaseReady, NEW c \in Cases, LaunchAgent(c) PROVE Onward(c)
<1>1. pc[c] \in Going /\ pc[c] # "agent" /\ UNCHANGED <<runVars, workspace, disk, findings>>
  BY DEF LaunchAgent, Going, Awaits
<1> SUFFICES Goes(c)
  BY <1>1, AroundSame DEF Onward, CaseReady
<1>2. Held(local[c], disk'[c])
  BY <1>1, HeldBefore DEF CaseReady
<1>3. CASE Goto(c, "agent", local[c])
  BY <1>2, <1>3, GotoGoes DEF Going, Awaits, PatchCalls, CaseReady
<1>4. CASE Goto(c, "launch-report", local[c])
  BY <1>2, <1>4, GotoGoes DEF Going, Awaits, PatchCalls, CaseReady
<1> QED BY <1>1, <1>3, <1>4 DEF CaseReady, LaunchAgent

\* What is known of the pipeline object while the agent's process runs.
LEMMA AgentBefore ==
  ASSUME CaseReady, NEW c \in Cases, pc[c] = "agent"
  PROVE  /\ Backed("agent", local[c], disk[c], cancelled)
         /\ local[c] \in Locals
         /\ "agent" \in Going \ {"queued"} /\ pc[c] \in Going
         /\ "agent" \notin PatchCalls \cup {"grading", "grading-write", "checks-write"}
<1>1. "agent" \in Going \ {"queued"}
  BY DEF Going, Awaits
<1>2. Backed("agent", local[c], disk[c], cancelled)
  BY <1>1 DEF CaseReady, CasesWhole, EvidenceWhole
<1> QED BY <1>1, <1>2, LocalBefore DEF CaseReady, TypeInv, PatchCalls

LEMMA IdentifySessionOnward ==
  ASSUME CaseReady, NEW c \in Cases, IdentifySession(c) PROVE Onward(c)
<1> DEFINE carried == [local[c] EXCEPT !.seen = @ \cup {"session-id"}]
<1>1. pc[c] = "agent" /\ UNCHANGED <<runVars, workspace, disk, findings>> /\ Goto(c, "agent", carried)
  BY DEF IdentifySession
<1>2. Backed("agent", carried, disk'[c], cancelled)
  BY <1>1, AgentBefore DEF Backed, Locals, Records
<1> HIDE DEF carried
<1>3. Goes(c)
  BY <1>1, <1>2, AgentBefore, GotoAdvances DEF CaseReady
<1> QED BY <1>1, <1>3, AgentBefore, AroundSame DEF Onward, CaseReady

LEMMA AppendRecordOnward ==
  ASSUME CaseReady, NEW c \in Cases, NEW stream \in Streams, AppendRecord(c, stream)
  PROVE  Onward(c)
<1> DEFINE counted == Counted(c, stream)
           lost    == [counted EXCEPT !.lost = @ \cup {stream}]
<1>1. stream \in Records /\ stream # "result" /\ stream # "session"
  BY RunAssumption DEF RunAssumption, Records
<1>2. /\ pc[c] = "agent" /\ UNCHANGED <<runVars, workspace, findings>>
      /\ \/ disk' = [disk EXCEPT ![c] = @ \cup {stream}] /\ Goto(c, "agent", counted)
         \/ disk' = disk /\ Goto(c, "agent", lost)
      /\ Stored(c, stream)
  BY DEF AppendRecord, DeliverRecord, Stored
<1>3. /\ Backed("agent", local[c], disk[c], cancelled) /\ local[c] \in Locals
      /\ "agent" \in Going \ {"queued"} /\ pc[c] \in Going
      /\ "agent" \notin PatchCalls \cup {"grading", "grading-write", "checks-write"}
  BY <1>2, AgentBefore
<1>4. /\ counted.logs = local[c].logs /\ counted.seen = local[c].seen \cup {stream}
      /\ counted.lost = local[c].lost
      /\ lost.logs = local[c].logs /\ lost.seen = local[c].seen \cup {stream}
      /\ lost.lost = local[c].lost \cup {stream}
  BY <1>3 DEF Counted, Locals
<1> HIDE DEF counted, lost
<1>5. Around(c)
  BY <1>2, <1>3, AroundStored DEF CaseReady
<1> SUFFICES Goes(c)
  BY <1>3, <1>5 DEF Onward
<1>6. CASE disk' = [disk EXCEPT ![c] = @ \cup {stream}] /\ Goto(c, "agent", counted)
  <2>1. disk'[c] = disk[c] \cup {stream}
    BY <1>6, StoredFile DEF CaseReady
  <2>2. Backed("agent", counted, disk'[c], cancelled)
    BY <1>1, <1>3, <1>4, <2>1 DEF Backed
  <2> QED BY <1>3, <1>6, <2>2, GotoAdvances DEF CaseReady
<1>7. CASE disk' = disk /\ Goto(c, "agent", lost)
  <2>1. Backed("agent", lost, disk'[c], cancelled)
    BY <1>1, <1>3, <1>4, <1>7 DEF Backed
  <2> QED BY <1>3, <1>7, <2>1, GotoAdvances DEF CaseReady
<1> QED BY <1>2, <1>6, <1>7

LEMMA ReportLaunchFailureOnward ==
  ASSUME CaseReady, NEW c \in Cases, ReportLaunchFailure(c) PROVE Onward(c)
<1> DEFINE counted == Counted(c, "diagnostics")
<1>1. /\ pc[c] \in Going /\ pc[c] # "agent" /\ UNCHANGED <<runVars, workspace, findings>>
      /\ Stored(c, "diagnostics")
      /\ \/ /\ disk' = [disk EXCEPT ![c] = @ \cup {"diagnostics"}]
            /\ Goto(c, "readable", counted)
         \/ disk' = disk /\ InfrastructureFails(c, counted, "export-settled")
  BY DEF ReportLaunchFailure, DeliverRecord, Stored, Going, Awaits
<1>2. Held(local[c], disk[c]) /\ local[c] \in Locals
  BY <1>1, HeldBefore, LocalBefore DEF CaseReady, TypeInv
<1>3. /\ counted.logs = local[c].logs /\ counted.seen = local[c].seen \cup {"diagnostics"}
      /\ counted.lost = local[c].lost
  BY <1>2 DEF Counted, Locals
<1> HIDE DEF counted
<1>4. Around(c)
  BY <1>1, AroundStored DEF CaseReady
<1> SUFFICES Goes(c)
  BY <1>1, <1>4 DEF Onward
<1>5. CASE /\ disk' = [disk EXCEPT ![c] = @ \cup {"diagnostics"}]
           /\ Goto(c, "readable", counted)
  <2>1. disk'[c] = disk[c] \cup {"diagnostics"}
    BY <1>5, StoredFile DEF CaseReady
  <2>2. Held(counted, disk'[c])
    BY <1>2, <1>3, <2>1 DEF Held
  <2> QED BY <1>5, <2>2, GotoGoes DEF Going, Awaits, PatchCalls, CaseReady
<1>6. CASE disk' = disk /\ InfrastructureFails(c, counted, "export-settled")
  <2>1. Claims(c, counted, "export-settled") \subseteq disk'[c] /\ "result" \notin disk'[c]
    BY <1>2, <1>3, <1>6, StageFiles DEF Claims, Held
  <2> QED BY <1>6, <2>1, FinishCaseConcludes DEF InfrastructureFails, CaseReady
<1> QED BY <1>1, <1>5, <1>6

\* An append that failed leaves no other end than an infrastructure failure, so
\* no record that may be missing is carried on.
LEMMA AgentEndsOnward ==
  ASSUME CaseReady, NEW c \in Cases, AgentEnds(c) PROVE Onward(c)
<1>1. pc[c] = "agent" /\ UNCHANGED <<runVars, workspace, disk, findings>>
  BY DEF AgentEnds
<1>2. Backed("agent", local[c], disk'[c], cancelled) /\ pc[c] \in Going
  BY <1>1, AgentBefore
<1> SUFFICES Goes(c)
  BY <1>1, <1>2, AroundSame DEF Onward, CaseReady
<1>3. CASE local[c].lost # {}
  <2>1. Claims(c, local[c], "export-settled") \subseteq disk'[c] /\ "result" \notin disk'[c]
    BY <1>2, StageFiles DEF Claims, Backed
  <2> QED BY <1>3, <2>1, FinishCaseConcludes DEF AgentEnds, InfrastructureFails, CaseReady
<1>4. CASE local[c].lost = {}
  <2>1. Held(local[c], disk'[c])
    BY <1>2, <1>4 DEF Backed, Held
  <2>2. \/ EnterEvaluation(c, FALSE)
        \/ FinishCase(c, local[c], "cancelled", TRUE, "export-settled")
        \/ \E call \in {"timeout-patch", "readable"} : Goto(c, call, local[c])
    BY <1>4 DEF AgentEnds
  <2>3. CASE EnterEvaluation(c, FALSE)
    BY <2>1, <2>3, EnterEvaluationGoes DEF CaseReady
  <2>4. CASE FinishCase(c, local[c], "cancelled", TRUE, "export-settled")
    BY <2>1, <2>4, StageFiles, FailureConcludes DEF CaseReady, Terminal
  <2>5. CASE \E call \in {"timeout-patch", "readable"} : Goto(c, call, local[c])
    BY <2>1, <2>5, GotoGoes DEF Going, Awaits, PatchCalls, CaseReady
  <2> QED BY <2>2, <2>3, <2>4, <2>5
<1> QED BY <1>3, <1>4

LEMMA IsReadableOnward ==
  ASSUME CaseReady, NEW c \in Cases, IsReadable(c) PROVE Onward(c)
<1>1. pc[c] \in Going /\ pc[c] # "agent" /\ UNCHANGED <<runVars, workspace, disk, findings>>
  BY DEF IsReadable, Going, Awaits
<1> SUFFICES Goes(c)
  BY <1>1, AroundSame DEF Onward, CaseReady
<1>2. Held(local[c], disk'[c])
  BY <1>1, HeldBefore DEF CaseReady
<1>3. CASE EnterEvaluation(c, TRUE)
  BY <1>2, <1>3, EnterEvaluationGoes DEF CaseReady
<1>4. CASE FinishCase(c, local[c], "process-failed", TRUE, "export-settled")
  BY <1>2, <1>4, StageFiles, FailureConcludes DEF CaseReady, Terminal
<1> QED BY <1>1, <1>3, <1>4 DEF CaseReady, IsReadable

LEMMA CaptureTimeoutPatchOnward ==
  ASSUME CaseReady, NEW c \in Cases, CaptureTimeoutPatch(c) PROVE Onward(c)
<1>1. pc[c] \in Going /\ pc[c] # "agent" /\ UNCHANGED <<runVars, workspace, disk>>
  BY DEF CaptureTimeoutPatch, Going, Awaits
<1>2. Held(local[c], disk'[c])
  BY <1>1, HeldBefore DEF CaseReady
<1>3. CASE Goto(c, "timeout-patch-write", local[c]) /\ UNCHANGED findings
  <2>1. Goes(c)
    BY <1>2, <1>3, GotoGoes DEF Going, Awaits, PatchCalls, CaseReady
  <2> QED BY <1>1, <1>3, <2>1, AroundSame DEF Onward, CaseReady
<1>4. CASE /\ Report(c, "warning", "patch")
           /\ FinishCase(c, local[c], "timed-out", TRUE, "export-settled")
  <2>1. Goes(c)
    BY <1>2, <1>4, StageFiles, FailureConcludes DEF CaseReady, Terminal
  <2> QED BY <1>1, <1>4, <2>1, AroundReported DEF Onward, CaseReady
<1> QED BY <1>3, <1>4 DEF CaptureTimeoutPatch

LEMMA WriteTimeoutPatchOnward ==
  ASSUME CaseReady, NEW c \in Cases, WriteTimeoutPatch(c) PROVE Onward(c)
<1>1. /\ pc[c] \in Going /\ pc[c] # "agent" /\ UNCHANGED <<runVars, workspace, findings>>
      /\ Stored(c, "patch")
  BY DEF WriteTimeoutPatch, Store, Stored, Going, Awaits
<1>2. Held(local[c], disk[c])
  BY <1>1, HeldBefore DEF CaseReady
<1>3. Around(c)
  BY <1>1, AroundStored DEF CaseReady
<1> SUFFICES Goes(c)
  BY <1>1, <1>3 DEF Onward
<1>4. CASE /\ disk' = [disk EXCEPT ![c] = @ \cup {"patch"}]
           /\ FinishCase(c, local[c], "timed-out", TRUE, "patch-captured")
  <2>1. disk'[c] = disk[c] \cup {"patch"}
    BY <1>4, StoredFile DEF CaseReady
  <2>2. Held(local[c], disk'[c])
    BY <1>2, <2>1, HeldGrows DEF Held
  <2> QED BY <1>4, <2>1, <2>2, StageFiles, FailureConcludes DEF CaseReady, Terminal
<1>5. CASE disk' = disk /\ InfrastructureFails(c, local[c], "export-settled")
  BY <1>2, <1>5, StageFiles, InfrastructureFailsGoes DEF CaseReady
<1> QED BY <1>4, <1>5 DEF WriteTimeoutPatch, Store


-----------------------------------------------------------------------------
(* The evaluation.                                                         *)

LEMMA ExportSessionOnward ==
  ASSUME CaseReady, NEW c \in Cases, ExportSession(c) PROVE Onward(c)
<1>1. pc[c] \in Going /\ pc[c] # "agent" /\ UNCHANGED <<runVars, workspace, disk, findings>>
  BY DEF ExportSession, Going, Awaits
<1> SUFFICES Goes(c)
  BY <1>1, AroundSame DEF Onward, CaseReady
<1>2. Held(local[c], disk'[c]) /\ Held([local[c] EXCEPT !.kept = TRUE], disk'[c])
  BY <1>1, HeldBefore, HeldSet DEF CaseReady
<1>3. CASE Goto(c, "export-write", local[c])
  BY <1>2, <1>3, GotoGoes DEF Going, Awaits, PatchCalls, CaseReady
<1>4. CASE SettleExport(c, [local[c] EXCEPT !.kept = TRUE])
  BY <1>2, <1>4, SettleExportGoes DEF CaseReady
<1> QED BY <1>3, <1>4 DEF ExportSession

LEMMA WriteSessionExportOnward ==
  ASSUME CaseReady, NEW c \in Cases, WriteSessionExport(c) PROVE Onward(c)
<1> DEFINE exported == [local[c] EXCEPT !.seen = @ \cup {"session"}]
<1>1. /\ pc[c] \in Going /\ pc[c] # "agent" /\ UNCHANGED <<runVars, workspace, findings>>
      /\ Stored(c, "session")
  BY DEF WriteSessionExport, Store, Stored, Going, Awaits
<1> SUFFICES Goes(c)
  BY <1>1, AroundStored DEF Onward, CaseReady
<1>2. Held(local[c], disk[c]) /\ local[c] \in Locals
  BY <1>1, HeldBefore, LocalBefore DEF CaseReady, TypeInv
<1>3. /\ exported.logs = local[c].logs /\ exported.seen = local[c].seen \cup {"session"}
      /\ exported.lost = local[c].lost
  BY <1>2 DEF Locals
<1>4. \/ disk' = [disk EXCEPT ![c] = @ \cup {"session"}] /\ SettleExport(c, exported)
      \/ disk' = disk /\ InfrastructureFails(c, local[c], "export-settled")
  BY DEF WriteSessionExport, Store
<1> HIDE DEF exported
<1>5. CASE disk' = [disk EXCEPT ![c] = @ \cup {"session"}] /\ SettleExport(c, exported)
  <2>1. disk'[c] = disk[c] \cup {"session"}
    BY <1>5, StoredFile DEF CaseReady
  <2>2. Held(exported, disk'[c])
    BY <1>2, <1>3, <2>1 DEF Held, Records
  <2> QED BY <1>5, <2>2, SettleExportGoes DEF CaseReady
<1>6. CASE disk' = disk /\ InfrastructureFails(c, local[c], "export-settled")
  BY <1>2, <1>6, StageFiles, InfrastructureFailsGoes DEF CaseReady
<1> QED BY <1>4, <1>5, <1>6

LEMMA CapturePatchOnward ==
  ASSUME CaseReady, NEW c \in Cases, CapturePatch(c) PROVE Onward(c)
<1>1. pc[c] \in Going /\ pc[c] # "agent" /\ UNCHANGED <<runVars, workspace, disk, findings>>
  BY DEF CapturePatch, Going, Awaits
<1> SUFFICES Goes(c)
  BY <1>1, AroundSame DEF Onward, CaseReady
<1>2. Held(local[c], disk'[c])
  BY <1>1, HeldBefore DEF CaseReady
<1>3. CASE Goto(c, "patch-write", local[c])
  BY <1>2, <1>3, GotoGoes DEF Going, Awaits, PatchCalls, CaseReady
<1>4. CASE InfrastructureFails(c, local[c], "export-settled")
  BY <1>2, <1>4, StageFiles, InfrastructureFailsGoes DEF CaseReady
<1> QED BY <1>3, <1>4 DEF CapturePatch

\* From here on the patch of the agent's work is saved.
LEMMA WritePatchOnward ==
  ASSUME CaseReady, NEW c \in Cases, WritePatch(c) PROVE Onward(c)
<1>1. /\ pc[c] \in Going /\ pc[c] \in Registered /\ pc[c] # "agent"
      /\ UNCHANGED <<runVars, workspace, findings>> /\ Stored(c, "patch")
  BY DEF WritePatch, Store, Stored, Going, Registered, Awaits
<1> SUFFICES Goes(c)
  BY <1>1, AroundStored DEF Onward, CaseReady
<1>2. Held(local[c], disk[c])
  BY <1>1, HeldBefore DEF CaseReady
<1>3. \/ /\ disk' = [disk EXCEPT ![c] = @ \cup {"patch"}]
         /\ \/ Cancel(c, local[c], "patch-captured")
            \/ Goto(c, "check-state", local[c])
            \/ EnterBeforeChecks(c, local[c])
      \/ disk' = disk /\ InfrastructureFails(c, local[c], "export-settled")
  BY DEF WritePatch, Store, EnterCheckState
<1>4. CASE disk' = disk /\ InfrastructureFails(c, local[c], "export-settled")
  BY <1>2, <1>4, StageFiles, InfrastructureFailsGoes DEF CaseReady
<1>5. CASE disk' = [disk EXCEPT ![c] = @ \cup {"patch"}]
  <2>1. disk'[c] = disk[c] \cup {"patch"}
    BY <1>5, StoredFile DEF CaseReady
  <2>2. Held(local[c], disk'[c]) /\ "patch" \in disk'[c]
    BY <1>2, <2>1, HeldGrows DEF Held
  <2>3. CASE Cancel(c, local[c], "patch-captured")
    BY <2>2, <2>3, StageFiles, CancelGoes DEF CaseReady
  <2>4. CASE Goto(c, "check-state", local[c])
    BY <2>2, <2>4, GotoGoes DEF Going, Awaits, CaseReady
  <2>5. CASE EnterBeforeChecks(c, local[c])
    BY <1>1, <2>2, <2>5, EnterBeforeChecksGoes DEF CaseReady
  <2> QED BY <1>3, <1>4, <2>3, <2>4, <2>5
<1> QED BY <1>3, <1>4, <1>5

LEMMA ApplyCheckStateOnward ==
  ASSUME CaseReady, NEW c \in Cases, ApplyCheckState(c) PROVE Onward(c)
<1>1. /\ pc[c] \in Going /\ pc[c] \in Registered /\ pc[c] # "agent" /\ pc[c] \in PatchCalls
      /\ UNCHANGED <<runVars, workspace, disk, findings>>
  BY DEF ApplyCheckState, Going, Registered, Awaits, PatchCalls
<1> SUFFICES Goes(c)
  BY <1>1, AroundSame DEF Onward, CaseReady
<1>2. Held(local[c], disk'[c]) /\ "patch" \in disk'[c]
  BY <1>1, HeldBefore DEF CaseReady
<1>3. CASE EnterBeforeChecks(c, local[c])
  BY <1>1, <1>2, <1>3, EnterBeforeChecksGoes DEF CaseReady
<1>4. CASE InfrastructureFails(c, local[c], "patch-captured")
  BY <1>2, <1>4, StageFiles, InfrastructureFailsGoes DEF CaseReady
<1> QED BY <1>3, <1>4 DEF ApplyCheckState

LEMMA WriteChecksSetupLogOnward ==
  ASSUME CaseReady, NEW c \in Cases, WriteChecksSetupLog(c) PROVE Onward(c)
<1> DEFINE logged == [local[c] EXCEPT !.step = "none", !.logs = @ \cup {"setup-checks-log"}]
<1>1. /\ pc[c] \in Going /\ pc[c] \in Registered /\ pc[c] # "agent" /\ pc[c] \in PatchCalls
      /\ UNCHANGED <<runVars, workspace, findings>> /\ Stored(c, "setup-checks-log")
  BY DEF WriteChecksSetupLog, Store, Stored, Going, Registered, Awaits, PatchCalls
<1> SUFFICES Goes(c)
  BY <1>1, AroundStored DEF Onward, CaseReady
<1>2. Held(local[c], disk[c]) /\ "patch" \in disk[c]
  BY <1>1, HeldBefore DEF CaseReady
<1>3. \/ /\ disk' = [disk EXCEPT ![c] = @ \cup {"setup-checks-log"}]
         /\ \/ InfrastructureFails(c, logged, "patch-captured")
            \/ Cancel(c, logged, "patch-captured")
            \/ EnterChecks(c, logged)
      \/ disk' = disk /\ InfrastructureFails(c, local[c], "patch-captured")
  BY DEF WriteChecksSetupLog, Store
<1> HIDE DEF logged
<1>4. CASE disk' = disk /\ InfrastructureFails(c, local[c], "patch-captured")
  BY <1>2, <1>4, StageFiles, InfrastructureFailsGoes DEF CaseReady
<1>5. CASE disk' = [disk EXCEPT ![c] = @ \cup {"setup-checks-log"}]
  <2>1. disk'[c] = disk[c] \cup {"setup-checks-log"}
    BY <1>5, StoredFile DEF CaseReady
  <2>2. Held(local[c], disk'[c]) /\ "patch" \in disk'[c]
    BY <1>2, <2>1, HeldGrows DEF Held
  <2>3. Held(logged, disk'[c])
    BY <2>1, <2>2, HeldLogged DEF CaseReady, logged
  <2>4. CASE InfrastructureFails(c, logged, "patch-captured")
    BY <2>2, <2>3, <2>4, StageFiles, InfrastructureFailsGoes DEF CaseReady
  <2>5. CASE Cancel(c, logged, "patch-captured")
    BY <2>2, <2>3, <2>5, StageFiles, CancelGoes DEF CaseReady
  <2>6. CASE EnterChecks(c, logged)
    BY <1>1, <2>2, <2>3, <2>6, EnterChecksGoes DEF CaseReady
  <2> QED BY <1>3, <1>4, <2>4, <2>5, <2>6
<1> QED BY <1>3, <1>4, <1>5

\* The loop is left with all checks evaluated, or in a cancelled run.
LEMMA EvaluateCheckOnward ==
  ASSUME CaseReady, NEW c \in Cases, EvaluateCheck(c) PROVE Onward(c)
<1> DEFINE last == local[c].checked + 1 = NumChecks
           next == IF last \/ Aborted(c) THEN "checks-write" ELSE "checks"
           graded == [[local[c] EXCEPT !.grade = "pending"] EXCEPT !.checked = @ + 1]
           judged(v) == [[local[c] EXCEPT !.verdict = ReduceRequiredOutcome({@, v}, NumChecks)]
                           EXCEPT !.checked = @ + 1]
           After(carried) == /\ carried.logs = local[c].logs /\ carried.seen = local[c].seen
                             /\ carried.lost = local[c].lost
                             /\ carried.checked = local[c].checked + 1
<1>1. /\ pc[c] \in Going /\ pc[c] \in Registered /\ pc[c] # "agent" /\ pc[c] \in PatchCalls
      /\ UNCHANGED <<runVars, workspace, disk, findings>>
  BY DEF EvaluateCheck, Going, Registered, Awaits, PatchCalls
<1> SUFFICES Goes(c)
  BY <1>1, AroundSame DEF Onward, CaseReady
<1>2. Held(local[c], disk'[c]) /\ "patch" \in disk'[c] /\ local[c] \in Locals
  BY <1>1, HeldBefore, LocalBefore DEF CaseReady, TypeInv
<1>3. After(graded) /\ \A v : After(judged(v))
  BY <1>2 DEF Locals
<1>4. Goto(c, next, graded) \/ \E v \in Verdicts : Goto(c, next, judged(v))
  BY DEF EvaluateCheck
<1> HIDE DEF graded, judged
<1>5. PICK carried : Goto(c, next, carried) /\ After(carried)
  BY <1>3, <1>4
<1>6. Held(carried, disk'[c])
  BY <1>2, <1>5 DEF Held
<1>7. CASE last \/ Aborted(c)
  <2>1. last \/ cancelled
    BY <1>1, <1>7, AbortedIffCancelled DEF CaseReady
  <2>2. Backed("checks-write", carried, disk'[c], cancelled)
    BY <1>2, <1>5, <1>6, <2>1 DEF Backed, Held
  <2>3. Goto(c, "checks-write", carried) /\ "checks-write" \in Going \ {"queued"}
    BY <1>5, <1>7 DEF Going, Awaits
  <2> QED BY <2>2, <2>3, GotoAdvances DEF CaseReady
<1>8. CASE ~(last \/ Aborted(c))
  <2>1. /\ Goto(c, "checks", carried)
        /\ "checks" \in Going \ {"queued", "checks-write", "grading", "grading-write"}
    BY <1>5, <1>8 DEF Going, Awaits
  <2> QED BY <1>2, <1>6, <2>1, GotoGoes DEF CaseReady
<1> QED BY <1>7, <1>8

LEMMA WriteChecksOnward ==
  ASSUME CaseReady, NEW c \in Cases, WriteChecks(c) PROVE Onward(c)
<1>1. /\ pc[c] = "checks-write" /\ pc[c] \in Going /\ pc[c] # "agent" /\ pc[c] \in PatchCalls
      /\ UNCHANGED <<runVars, workspace, findings>> /\ Stored(c, "checks")
  BY DEF WriteChecks, Store, Stored, Going, Awaits, PatchCalls
<1> SUFFICES Goes(c)
  BY <1>1, AroundStored DEF Onward, CaseReady
<1>2. Held(local[c], disk[c]) /\ "patch" \in disk[c]
  BY <1>1, HeldBefore DEF CaseReady
<1>3. ~cancelled => local[c].checked = NumChecks
  BY <1>1 DEF CaseReady, CasesWhole, EvidenceWhole, Backed
<1>4. \/ /\ disk' = [disk EXCEPT ![c] = @ \cup {"checks"}]
         /\ \/ Cancel(c, local[c], "checked")
            \/ ~cancelled /\ Goto(c, "grading", local[c])
            \/ /\ ~cancelled /\ c \notin Graded
               /\ FinishCase(c, local[c], "completed", local[c].kept, "evaluated")
      \/ disk' = disk /\ InfrastructureFails(c, local[c], "checks-evaluated")
  BY DEF WriteChecks, Store
<1>5. CASE disk' = disk /\ InfrastructureFails(c, local[c], "checks-evaluated")
  BY <1>2, <1>5, StageFiles, InfrastructureFailsGoes DEF CaseReady
<1>6. CASE disk' = [disk EXCEPT ![c] = @ \cup {"checks"}]
  <2>1. disk'[c] = disk[c] \cup {"checks"}
    BY <1>6, StoredFile DEF CaseReady
  <2>2. Held(local[c], disk'[c]) /\ {"patch", "checks"} \subseteq disk'[c]
    BY <1>2, <2>1, HeldGrows DEF Held
  <2>3. CASE Cancel(c, local[c], "checked")
    BY <2>2, <2>3, StageFiles, CancelGoes DEF CaseReady
  <2>4. CASE ~cancelled /\ Goto(c, "grading", local[c])
    <3>1. Backed("grading", local[c], disk'[c], cancelled)
      BY <1>3, <2>2, <2>4 DEF Backed, Held
    <3>2. "grading" \in Going \ {"queued"}
      BY DEF Going, Awaits
    <3> QED BY <2>4, <3>1, <3>2, GotoAdvances DEF CaseReady
  <2>5. CASE /\ ~cancelled /\ c \notin Graded
             /\ FinishCase(c, local[c], "completed", local[c].kept, "evaluated")
    <3>1. /\ Claims(c, local[c], "evaluated") \subseteq disk'[c] /\ "result" \notin disk'[c]
          /\ local[c].seen \cap Records \subseteq disk'[c]
      BY <2>2, <2>5, StageFiles DEF Claims, Held
    <3> QED BY <1>3, <2>5, <3>1, FinishCaseConcludes DEF CaseReady
  <2> QED BY <1>4, <1>5, <2>3, <2>4, <2>5
<1> QED BY <1>4, <1>5, <1>6

LEMMA GradingBefore ==
  ASSUME CaseReady, NEW c \in Cases, pc[c] \in {"grading", "grading-write"}
  PROVE  /\ pc[c] \in Going /\ pc[c] # "agent"
         /\ Held(local[c], disk[c]) /\ {"patch", "checks"} \subseteq disk[c]
         /\ local[c].checked = NumChecks
<1>1. pc[c] \in Going /\ pc[c] # "agent" /\ pc[c] \in PatchCalls
  BY DEF Going, Awaits, PatchCalls
<1> QED BY <1>1, HeldBefore DEF CaseReady, CasesWhole, EvidenceWhole, Backed

LEMMA GradeCaseOnward ==
  ASSUME CaseReady, NEW c \in Cases, GradeCase(c) PROVE Onward(c)
<1> DEFINE graded(v) == [local[c] EXCEPT !.grade = v]
<1>1. pc[c] = "grading" /\ UNCHANGED <<runVars, workspace, disk>>
  BY DEF GradeCase
<1>2. /\ pc[c] \in Going /\ Held(local[c], disk'[c]) /\ {"patch", "checks"} \subseteq disk'[c]
      /\ local[c].checked = NumChecks
  BY <1>1, GradingBefore
<1>3. Around(c)
  BY <1>1, <1>2, AroundSame, AroundReported DEF GradeCase, CaseReady
<1> SUFFICES Goes(c)
  BY <1>2, <1>3 DEF Onward
<1>4. \A v : Held(graded(v), disk'[c]) /\ graded(v).checked = NumChecks
  BY <1>2, HeldSet, LocalBefore DEF CaseReady, TypeInv, Locals
<1>5. (\E v \in Verdicts : Goto(c, "grading-write", graded(v))) \/ Cancel(c, local[c], "checked")
  BY DEF GradeCase
<1> HIDE DEF graded
<1>6. ASSUME NEW v \in Verdicts, Goto(c, "grading-write", graded(v)) PROVE Goes(c)
  <2>1. Backed("grading-write", graded(v), disk'[c], cancelled)
    BY <1>2, <1>4 DEF Backed, Held
  <2>2. "grading-write" \in Going \ {"queued"}
    BY DEF Going, Awaits
  <2> QED BY <1>6, <2>1, <2>2, GotoAdvances DEF CaseReady
<1>7. CASE Cancel(c, local[c], "checked")
  BY <1>2, <1>7, StageFiles, CancelGoes DEF CaseReady
<1> QED BY <1>5, <1>6, <1>7

LEMMA WriteGradingOnward ==
  ASSUME CaseReady, NEW c \in Cases, WriteGrading(c) PROVE Onward(c)
<1>1. /\ pc[c] = "grading-write" /\ UNCHANGED <<runVars, workspace, findings>>
      /\ Stored(c, "grading")
  BY DEF WriteGrading, Store, Stored
<1>2. /\ pc[c] \in Going /\ Held(local[c], disk[c]) /\ {"patch", "checks"} \subseteq disk[c]
      /\ local[c].checked = NumChecks
  BY <1>1, GradingBefore
<1> SUFFICES Goes(c)
  BY <1>1, <1>2, AroundStored DEF Onward, CaseReady
<1>3. \/ /\ disk' = [disk EXCEPT ![c] = @ \cup {"grading"}]
         /\ \/ Cancel(c, local[c], "evaluated")
            \/ FinishCase(c, local[c], "completed", local[c].kept, "evaluated")
      \/ disk' = disk /\ InfrastructureFails(c, local[c], "checked")
  BY DEF WriteGrading, Store
<1>4. CASE disk' = disk /\ InfrastructureFails(c, local[c], "checked")
  BY <1>2, <1>4, StageFiles, InfrastructureFailsGoes DEF CaseReady
<1>5. CASE disk' = [disk EXCEPT ![c] = @ \cup {"grading"}]
  <2>1. disk'[c] = disk[c] \cup {"grading"}
    BY <1>5, StoredFile DEF CaseReady
  <2>2. Held(local[c], disk'[c]) /\ {"patch", "checks", "grading"} \subseteq disk'[c]
    BY <1>2, <2>1, HeldGrows DEF Held
  <2>3. StageIndex(c, "evaluated") \subseteq disk'[c]
    BY <2>2, StageFiles
  <2>4. CASE Cancel(c, local[c], "evaluated")
    BY <2>2, <2>3, <2>4, CancelGoes DEF CaseReady
  <2>5. CASE FinishCase(c, local[c], "completed", local[c].kept, "evaluated")
    <3>1. /\ Claims(c, local[c], "evaluated") \subseteq disk'[c] /\ "result" \notin disk'[c]
          /\ local[c].seen \cap Records \subseteq disk'[c]
      BY <2>2, <2>3 DEF Claims, Held
    <3> QED BY <1>2, <2>5, <3>1, FinishCaseConcludes DEF CaseReady
  <2> QED BY <1>3, <1>4, <2>4, <2>5
<1> QED BY <1>3, <1>4, <1>5

LEMMA StageOnward ==
  ASSUME CaseReady, NEW c \in Cases, CaseStep(c)
  PROVE  Onward(c) \/ SkipCase(c) \/ FinalizeCase(c) \/ Dispose(c)
<1>1. CASE AgentStep(c)
  BY <1>1, LaunchAgentOnward, ReportLaunchFailureOnward, IdentifySessionOnward,
     AppendRecordOnward, AgentEndsOnward, IsReadableOnward, CaptureTimeoutPatchOnward,
     WriteTimeoutPatchOnward
  DEF AgentStep
<1>2. CASE EvaluationStep(c)
  BY <1>2, ExportSessionOnward, WriteSessionExportOnward, CapturePatchOnward, WritePatchOnward,
     ApplyCheckStateOnward, WriteChecksSetupLogOnward, EvaluateCheckOnward, WriteChecksOnward,
     GradeCaseOnward, WriteGradingOnward
  DEF EvaluationStep
<1> QED
  BY <1>1, <1>2, StartCaseOnward, CreateIsolatedCaseOnward, CreateCaseEnvironmentsOnward,
     RunSetupPhaseOnward, WriteAgentSetupLogOnward, SnapshotPatchBaseOnward
  DEF CaseStep


-----------------------------------------------------------------------------
(* The steps that settle a case, and the steps of the run.                 *)

\* Such a step touches no other case, and adds at most one finding, of this one.
Closes(c) ==
  /\ Alone(c)
  /\ \A d \in Cases \ {c} : disk'[d] = disk[d] /\ workspace'[d] = workspace[d]
  /\ \A d \in Cases \ {c} : \A severities, subjects :
       HasFinding(d, severities, subjects)' <=> HasFinding(d, severities, subjects)
  /\ UNCHANGED runVars

\* A finding that is reported changes what is known of its case alone.
LEMMA ReportedFinding ==
  ASSUME NEW c \in Cases, NEW severity, NEW about, Report(c, severity, about),
         NEW d, NEW severities, NEW subjects
  PROVE  HasFinding(d, severities, subjects)'
           <=> \/ HasFinding(d, severities, subjects)
               \/ d = c /\ severity \in severities /\ about \in subjects
<1> DEFINE reported == [case |-> c, severity |-> severity, about |-> about]
<1>1. findings' = findings \cup {reported}
  BY DEF Report
<1>2. reported.case = c /\ reported.severity = severity /\ reported.about = about
  OBVIOUS
<1> HIDE DEF reported
<1> QED BY <1>1, <1>2 DEF HasFinding

LEMMA SameFindings ==
  ASSUME UNCHANGED findings, NEW d, NEW severities, NEW subjects
  PROVE  HasFinding(d, severities, subjects)' <=> HasFinding(d, severities, subjects)
  BY DEF HasFinding

LEMMA ClosesKeeps ==
  ASSUME CasesWhole, NEW c \in Cases, Closes(c), EvidenceWhole(c)', Accounted(c)'
  PROVE  CasesWhole'
<1>1. ASSUME NEW d \in Cases \ {c} PROVE EvidenceWhole(d)' /\ Accounted(d)'
  <2>1. /\ pc'[d] = pc[d] /\ local'[d] = local[d] /\ results'[d] = results[d]
        /\ disk'[d] = disk[d] /\ workspace'[d] = workspace[d] /\ cancelled' = cancelled
        /\ \A severities, subjects :
             HasFinding(d, severities, subjects)' <=> HasFinding(d, severities, subjects)
    BY DEF Closes, Alone, runVars
  <2>2. EvidenceWhole(d) /\ Accounted(d)
    BY DEF CasesWhole
  <2>3. EvidenceWhole(d)'
    BY <2>1, <2>2 DEF EvidenceWhole, HasResult
  <2>4. Accounted(d)'
    BY <2>1, <2>2 DEF Accounted, HasResult, Skipped
  <2> QED BY <2>3, <2>4
<1> QED BY <1>1 DEF CasesWhole

\* A skipped case says so, with a warning only in a cancelled run.
LEMMA SkipCaseKeeps ==
  ASSUME CaseReady, NEW c \in Cases, SkipCase(c) PROVE CasesWhole' /\ UNCHANGED runVars
<1>1. /\ pc[c] = "queued" /\ pc[c] \in Going /\ UNCHANGED <<runVars, workspace, disk>>
      /\ EvidenceWhole(c) /\ Accounted(c)
  BY DEF SkipCase, HasSlot, Going, CaseReady, CasesWhole
<1>2. Moves(c, "over", NoLocal)
  BY GotoMoves DEF SkipCase, CaseReady, TypeInv
<1> DEFINE severity == IF cancelled THEN "warning" ELSE "error"
<1>3. Report(c, severity, "skipped")
  BY DEF SkipCase
<1>4. severity \in {"warning", "error"} /\ (severity = "warning" => cancelled)
  OBVIOUS
<1> HIDE DEF severity
<1>5. Closes(c)
  BY <1>1, <1>2, <1>3, ReportedFinding DEF Closes, Moves
<1>6. ~HasResult(c) /\ ~HasResult(c)' /\ pc'[c] = "over" /\ workspace'[c] = "none"
  BY <1>1, <1>2 DEF EvidenceWhole, Accounted, HasResult, Moves
<1>7. EvidenceWhole(c)'
  BY <1>6 DEF EvidenceWhole, Going, Awaits
<1>8. ~Skipped(c, {"warning", "error"}) /\ ~Skipped(c, {"warning"})
  BY <1>1 DEF Accounted, Skipped, HasFinding
<1>9. Skipped(c, {"warning", "error"})' /\ (Skipped(c, {"warning"})' => cancelled)
  BY <1>3, <1>4, <1>8, ReportedFinding DEF Skipped
<1>10. Accounted(c)'
  BY <1>1, <1>6, <1>9 DEF Accounted, runVars
<1> QED BY <1>1, <1>5, <1>7, <1>10, ClosesKeeps DEF CaseReady

LEMMA LeaveMoves ==
  ASSUME CaseReady, NEW c \in Cases, Leave(c) PROVE Moves(c, "over", NoLocal)
  BY GotoMoves DEF Leave, CaseReady, TypeInv

\* The result is on disk, or an error says that it is not.
LEMMA FinalizeCaseKeeps ==
  ASSUME CaseReady, NEW c \in Cases, FinalizeCase(c) PROVE CasesWhole' /\ UNCHANGED runVars
<1>1. /\ pc[c] = "finalize" /\ UNCHANGED <<runVars, workspace>>
      /\ EvidenceWhole(c) /\ Accounted(c)
  BY DEF FinalizeCase, CaseReady, CasesWhole
<1>2. /\ HasResult(c) /\ RecordWhole(c, results[c], disk[c]) /\ workspace[c] # "removed"
      /\ ~Skipped(c, {"warning", "error"}) /\ (Skipped(c, {"warning"}) => cancelled)
  BY <1>1 DEF EvidenceWhole, Accounted
<1>3. disk \in [Cases -> SUBSET (Evidence \cup {"result"})]
  BY DEF CaseReady, TypeInv, RunTypes
<1>4. CASE /\ disk' = [disk EXCEPT ![c] = @ \cup {"result"}] /\ UNCHANGED findings
           /\ IF workspace[c] # "present" THEN Leave(c)
              ELSE Goto(c, "dispose", NoLocal) /\ UNCHANGED abort
  <2>1. disk'[c] = disk[c] \cup {"result"} /\ \A d \in Cases \ {c} : disk'[d] = disk[d]
    BY <1>3, <1>4
  <2>2. PICK call \in {"over", "dispose"} :
          Moves(c, call, NoLocal) /\ (call = "over" => workspace[c] # "present")
    BY <1>4, LeaveMoves, GotoMoves DEF CaseReady, TypeInv
  <2>3. Closes(c)
    BY <1>1, <1>4, <2>1, <2>2, SameFindings DEF Closes, Moves
  <2>4. /\ pc'[c] = call /\ HasResult(c)' /\ results'[c] = results[c]
        /\ RecordWhole(c, results'[c], disk'[c])
    BY <1>2, <2>1, <2>2 DEF Moves, HasResult, RecordWhole
  <2>5. EvidenceWhole(c)'
    BY <2>4 DEF EvidenceWhole, Going, Awaits
  <2>6. Accounted(c)'
    BY <1>1, <1>2, <1>4, <2>1, <2>2, <2>4, SameFindings DEF Accounted, Skipped, runVars
  <2> QED BY <1>1, <2>3, <2>5, <2>6, ClosesKeeps DEF CaseReady
<1>5. CASE disk' = disk /\ Report(c, "error", "result") /\ Leave(c)
  <2>1. Moves(c, "over", NoLocal)
    BY <1>5, LeaveMoves
  <2>2. Closes(c)
    BY <1>1, <1>5, <2>1, ReportedFinding DEF Closes, Moves
  <2>3. /\ pc'[c] = "over" /\ HasResult(c)' /\ results'[c] = results[c]
        /\ RecordWhole(c, results'[c], disk'[c])
    BY <1>2, <1>5, <2>1 DEF Moves, HasResult
  <2>4. EvidenceWhole(c)'
    BY <2>3 DEF EvidenceWhole, Going, Awaits
  <2>5. /\ HasFinding(c, {"error"}, {"result"})'
        /\ HasFinding(c, {"warning", "error"}, {"result", "workspace"})'
        /\ ~Skipped(c, {"warning", "error"})' /\ (Skipped(c, {"warning"})' => cancelled)
    BY <1>2, <1>5, ReportedFinding DEF Skipped
  <2>6. Accounted(c)'
    BY <1>1, <1>2, <2>3, <2>5 DEF Accounted, runVars
  <2> QED BY <1>1, <2>2, <2>4, <2>6, ClosesKeeps DEF CaseReady
<1> QED BY <1>4, <1>5 DEF FinalizeCase, Store

\* A workspace goes only after the result, and one that stays is named.
LEMMA DisposeKeeps ==
  ASSUME CaseReady, NEW c \in Cases, Dispose(c) PROVE CasesWhole' /\ UNCHANGED runVars
<1>1. /\ pc[c] = "dispose" /\ UNCHANGED <<runVars, disk>> /\ EvidenceWhole(c) /\ Accounted(c)
      /\ Moves(c, "over", NoLocal)
  BY LeaveMoves DEF Dispose, CaseReady, CasesWhole
<1>2. /\ HasResult(c) /\ RecordWhole(c, results[c], disk[c]) /\ "result" \in disk[c]
      /\ workspace[c] # "removed"
      /\ ~Skipped(c, {"warning", "error"}) /\ (Skipped(c, {"warning"}) => cancelled)
  BY <1>1 DEF EvidenceWhole, Accounted
<1>3. /\ pc'[c] = "over" /\ HasResult(c)' /\ results'[c] = results[c]
      /\ RecordWhole(c, results'[c], disk'[c]) /\ "result" \in disk'[c]
  BY <1>1, <1>2 DEF Moves, HasResult
<1>4. EvidenceWhole(c)'
  BY <1>3 DEF EvidenceWhole, Going, Awaits
<1>5. CASE workspace' = [workspace EXCEPT ![c] = "removed"] /\ UNCHANGED findings
  <2>1. workspace'[c] = "removed" /\ \A d \in Cases \ {c} : workspace'[d] = workspace[d]
    BY <1>5 DEF CaseReady, TypeInv, RunTypes
  <2>2. Closes(c)
    BY <1>1, <1>5, <2>1, SameFindings DEF Closes, Moves
  <2>3. Accounted(c)'
    BY <1>1, <1>2, <1>3, <1>5, <2>1, SameFindings DEF Accounted, Skipped, runVars
  <2> QED BY <1>1, <1>4, <2>2, <2>3, ClosesKeeps DEF CaseReady
<1>6. CASE Report(c, "warning", "workspace") /\ UNCHANGED workspace
  <2>1. Closes(c)
    BY <1>1, <1>6, ReportedFinding DEF Closes, Moves
  <2>2. /\ HasFinding(c, {"warning", "error"}, {"result", "workspace"})'
        /\ ~Skipped(c, {"warning", "error"})' /\ (Skipped(c, {"warning"})' => cancelled)
    BY <1>2, <1>6, ReportedFinding DEF Skipped
  <2>3. Accounted(c)'
    BY <1>1, <1>2, <1>3, <1>6, <2>2 DEF Accounted, runVars
  <2> QED BY <1>1, <1>4, <2>1, <2>3, ClosesKeeps DEF CaseReady
<1> QED BY <1>5, <1>6 DEF Dispose

LEMMA CaseStepKeeps ==
  ASSUME CaseReady, NEW c \in Cases, CaseStep(c)
  PROVE  CasesWhole' /\ UNCHANGED runVars /\ phase = "cases"
<1>1. Onward(c) \/ SkipCase(c) \/ FinalizeCase(c) \/ Dispose(c)
  BY StageOnward
<1>2. CASE Onward(c)
  BY <1>2, OnwardKeeps DEF CaseReady, Onward, Around, CaseStep
<1> QED BY <1>1, <1>2, SkipCaseKeeps, FinalizeCaseKeeps, DisposeKeeps DEF CaseStep

EvidenceInv == CaseReady /\ RunWhole

\* The exit code of a run is computed once its cases are over, from what they left.
LEMMA ReducedExitCode ==
  ASSUME CaseReady, \A c \in Cases : pc[c] = "over",
         NEW code, code = ReduceRunExitCode(RunResults, findings, cancelled)
  PROVE  /\ code \in {0, 1, 2, 130}
         /\ code \in {0, 2} =>
              ~cancelled /\ \A c \in Cases : HasResult(c) /\ "result" \in disk[c]
         /\ code = 0 => \A c \in Cases : Clean(c)
<1>1. code \in {0, 1, 2, 130}
  BY DEF ReduceRunExitCode
<1>2. code \in {0, 2} => /\ ~cancelled
                         /\ ~\E f \in findings : f.severity = "error"
                         /\ \A r \in RunResults : r.lifecycle \notin {"cancelled", "infrastructure-failed"}
  BY DEF ReduceRunExitCode
<1>3. code = 0 => \A r \in RunResults : /\ r.lifecycle \notin {"timed-out", "process-failed"}
                                        /\ r.outcome \notin {"failed", "pending"}
                                        /\ ~r.failed
  BY DEF ReduceRunExitCode
<1>4. ASSUME code \in {0, 2}, NEW c \in Cases PROVE HasResult(c) /\ "result" \in disk[c]
  <2>1. Accounted(c)
    BY DEF CaseReady, CasesWhole
  <2>2. ~HasFinding(c, {"error"}, {"result"}) /\ ~Skipped(c, {"error"})
    BY <1>2, <1>4 DEF HasFinding, Skipped
  <2>3. ~Skipped(c, {"warning"})
    BY <1>2, <1>4, <2>1 DEF Accounted
  <2>4. ~Skipped(c, {"warning", "error"})
    BY <2>2, <2>3 DEF HasFinding, Skipped
  <2> QED BY <2>1, <2>2, <2>4 DEF Accounted
<1>5. ASSUME code = 0, NEW c \in Cases PROVE Clean(c)
  <2>1. HasResult(c) /\ results[c] \in RunResults
    BY <1>4, <1>5 DEF RunResults
  <2>2. results[c] \in Results
    BY <2>1 DEF HasResult, CaseReady, TypeInv, CaseInv, CaseTypes
  <2>3. results[c].lifecycle = "completed"
    BY <1>2, <1>3, <1>5, <2>1, <2>2 DEF Results, Terminal
  <2>4. results[c].outcome \in Verdicts
    BY <2>1, <2>3 DEF CaseReady, CasesWhole, EvidenceWhole, RecordWhole
  <2> QED BY <1>3, <1>5, <2>1, <2>3, <2>4 DEF Clean, Verdicts
<1> QED BY <1>1, <1>2, <1>4, <1>5

\* Nothing about a case changes while the run itself moves; only an interrupt
\* may cancel it.
LEMMA CasesStay ==
  ASSUME CasesWhole, UNCHANGED <<pc, local, results, workspace, disk, findings>>,
         cancelled => cancelled'
  PROVE  CasesWhole'
<1>1. ASSUME NEW c \in Cases PROVE EvidenceWhole(c)' /\ Accounted(c)'
  <2>1. EvidenceWhole(c) /\ Accounted(c)
    BY DEF CasesWhole
  <2>2. EvidenceWhole(c)'
    BY <2>1 DEF EvidenceWhole, HasResult, Backed
  <2>3. Accounted(c)'
    BY <2>1 DEF Accounted, HasResult, Skipped, HasFinding
  <2> QED BY <2>2, <2>3
<1> QED BY <1>1 DEF CasesWhole

LEMMA RunStepKeeps ==
  ASSUME EvidenceInv, RunStep \/ ForcedExit \/ SignalArrives
  PROVE  CasesWhole' /\ RunWhole'
<1>1. UNCHANGED <<pc, local, results, workspace, disk, findings>>
  BY DEF RunStep, PreflightRefuses, PreflightPasses, StartRunFails, RunStarts, RunEnds,
         FinalizeRun, RebuildRunReport, ForcedExit, SignalArrives, RunMoves, caseVars
<1>2. phase \in {"preflight", "starting"} => ~cancelled
  BY DEF EvidenceInv, CaseReady, InterruptInv
<1>3. cancelled => cancelled'
  BY <1>2 DEF RunStep, PreflightRefuses, PreflightPasses, StartRunFails, RunStarts, RunEnds,
              FinalizeRun, RebuildRunReport, ForcedExit, SignalArrives
<1>4. CasesWhole'
  BY <1>1, <1>3, CasesStay DEF EvidenceInv, CaseReady
<1>5. CASE PreflightRefuses \/ PreflightPasses \/ StartRunFails \/ RunStarts \/ ForcedExit
  <2>1. \/ phase' = "killed" /\ exitCode' = 130
        \/ phase' = "done" /\ exitCode' \in {1, 130}
        \/ phase' \in {"starting", "cases"} /\ exitCode' = exitCode
           /\ phase \in {"preflight", "starting"}
    BY <1>5 DEF PreflightRefuses, PreflightPasses, StartRunFails, RunStarts, ForcedExit, RunMoves
  <2> QED BY <1>4, <2>1 DEF EvidenceInv, RunWhole
<1>6. CASE RunEnds
  <2>1. /\ \A c \in Cases : pc[c] = "over"
        /\ phase' = "finalizing" /\ UNCHANGED cancelled
        /\ exitCode' = ReduceRunExitCode(RunResults, findings, cancelled)
    BY <1>6 DEF RunEnds, RunMoves
  <2>2. /\ exitCode' \in {0, 1, 2, 130}
        /\ exitCode' \in {0, 2} =>
             ~cancelled /\ \A c \in Cases : HasResult(c) /\ "result" \in disk[c]
        /\ exitCode' = 0 => \A c \in Cases : Clean(c)
    BY <2>1, ReducedExitCode DEF EvidenceInv
  <2> QED BY <1>1, <1>4, <2>1, <2>2 DEF RunWhole, HasResult, Clean
<1>7. CASE FinalizeRun \/ RebuildRunReport
  <2>1. /\ phase \in {"finalizing", "reporting"} /\ UNCHANGED cancelled
        /\ phase' \in {"reporting", "done"} /\ exitCode' \in {1, exitCode}
    BY <1>7 DEF FinalizeRun, RebuildRunReport, RunMoves
  <2> QED BY <1>1, <1>4, <2>1 DEF EvidenceInv, RunWhole, HasResult, Clean
<1>8. CASE SignalArrives
  <2>1. UNCHANGED <<phase, exitCode>> /\ (phase # "cases" => UNCHANGED cancelled)
    BY <1>8 DEF SignalArrives
  <2> QED BY <1>1, <1>4, <2>1 DEF EvidenceInv, RunWhole, HasResult, Clean
<1> QED BY <1>5, <1>6, <1>7, <1>8 DEF RunStep

LEMMA NextKeepsEvidenceInv ==
  ASSUME EvidenceInv, [Next]_vars PROVE EvidenceInv'
<1>1. TypeInv' /\ InterruptInv'
  BY NextKeepsInterruptInv DEF EvidenceInv, CaseReady
<1>2. CASE UNCHANGED vars
  <2>1. UNCHANGED <<pc, local, results, workspace, disk, findings, cancelled, phase, exitCode>>
    BY <1>2 DEF vars, runVars, caseVars
  <2>2. CasesWhole' /\ RunWhole'
    BY <2>1, CasesStay DEF EvidenceInv, CaseReady, RunWhole, HasResult, Clean
  <2> QED BY <1>1, <2>2 DEF EvidenceInv, CaseReady
<1>3. ASSUME NEW c \in Cases, CaseStep(c) PROVE EvidenceInv'
  <2>1. CasesWhole' /\ UNCHANGED runVars /\ phase = "cases"
    BY <1>3, CaseStepKeeps DEF EvidenceInv
  <2>2. RunWhole'
    BY <2>1 DEF EvidenceInv, RunWhole, runVars
  <2> QED BY <1>1, <2>1, <2>2 DEF EvidenceInv, CaseReady
<1>4. CASE RunStep \/ ForcedExit \/ SignalArrives
  BY <1>1, <1>4, RunStepKeeps DEF EvidenceInv, CaseReady
<1> QED BY <1>2, <1>3, <1>4 DEF Next

LEMMA EvidenceInit == Init => EvidenceInv
<1> SUFFICES ASSUME Init PROVE EvidenceInv
  OBVIOUS
<1>1. TypeInv /\ InterruptInv
  BY TypeInit, InterruptInit
<1>2. ASSUME NEW c \in Cases PROVE EvidenceWhole(c) /\ Accounted(c)
  <2>1. /\ pc[c] = "queued" /\ local[c] = NoLocal /\ disk[c] = {} /\ ~HasResult(c)
        /\ workspace[c] = "none" /\ findings = {}
    BY DEF Init, HasResult
  <2>2. Held(local[c], disk[c])
    BY <2>1, NoLocalHeld
  <2>3. Backed(pc[c], local[c], disk[c], cancelled)
    BY <2>1, <2>2, HeldBacked DEF PatchCalls
  <2>4. EvidenceWhole(c)
    BY <2>1, <2>3 DEF EvidenceWhole
  <2>5. Accounted(c)
    BY <2>1 DEF Accounted, Skipped, HasFinding
  <2> QED BY <2>4, <2>5
<1>3. RunWhole
  BY DEF Init, RunWhole
<1> QED BY <1>1, <1>2, <1>3 DEF EvidenceInv, CaseReady, CasesWhole

LEMMA EvidenceInvariant == Spec => []EvidenceInv
<1>1. Init => EvidenceInv
  BY EvidenceInit
<1>2. EvidenceInv /\ [Next]_vars => EvidenceInv'
  BY NextKeepsEvidenceInv
<1> QED BY <1>1, <1>2, PTL DEF Spec


-----------------------------------------------------------------------------
(* The theorems.                                                           *)

\* A completed record is a whole evaluation of the agent's work alone, and no
\* record indexes a file of the evaluation that was not saved, whichever store
\* writes failed and wherever the interrupt met the case.
THEOREM CompletedRecordsAreWhole == Spec => []CompletedIsWhole
<1>1. EvidenceInv => CompletedIsWhole
  <2> SUFFICES ASSUME EvidenceInv, NEW c \in Cases
               PROVE  /\ local[c].checked > 0 \/ pc[c] \in {"check-state", "setup-checks", "checks"}
                           => "patch" \in disk[c]
                      /\ HasResult(c) => RecordWhole(c, results[c], disk[c])
    BY DEF CompletedIsWhole, Ended, RecordWhole
  <2>1. EvidenceWhole(c)
    BY DEF EvidenceInv, CaseReady, CasesWhole
  <2>2. local[c].checked > 0 => pc[c] \in CheckCalls
    BY DEF EvidenceInv, CaseReady, TypeInv, CaseInv, CheckCount
  <2>3. pc[c] \in CheckCalls \cup {"check-state", "setup-checks"} => pc[c] \in PatchCalls \cap Going
    BY DEF CheckCalls, PatchCalls, Going, Awaits
  <2> QED BY <2>1, <2>2, <2>3 DEF EvidenceWhole, Backed, CheckCalls
<1> QED BY <1>1, EvidenceInvariant, PTL

\* No sealed workspace is deleted before its case's result is saved, and none
\* stays behind without a finding that names it.
THEOREM WorkspacesAccounted == Spec => []WorkspaceAccounted
<1>1. EvidenceInv => WorkspaceAccounted
  BY DEF EvidenceInv, CaseReady, CasesWhole, Accounted, WorkspaceAccounted
<1> QED BY <1>1, EvidenceInvariant, PTL

\* Every planned case of a finished run has a result, saved or reported as
\* unsaved, or else a finding that it was skipped, and never both.
THEOREM CasesAccounted == Spec => []EveryCaseAccounted
<1>1. EvidenceInv => EveryCaseAccounted
  <2> SUFFICES ASSUME EvidenceInv, phase \in {"finalizing", "reporting"}, NEW c \in Cases
               PROVE  /\ HasResult(c) <=> ~Skipped(c, {"warning", "error"})
                      /\ HasResult(c) => "result" \in disk[c] \/ HasFinding(c, {"error"}, {"result"})
    BY DEF EveryCaseAccounted, Skipped
  <2>1. pc[c] = "over" /\ Accounted(c)
    BY DEF EvidenceInv, RunWhole, CaseReady, CasesWhole
  <2> QED BY <2>1 DEF Accounted
<1> QED BY <1>1, EvidenceInvariant, PTL

\* The exit code hides neither an unsaved result nor a skipped case nor an
\* interrupt, and 0 means that every case is a clean pass.
THEOREM ExitCodeHonest == Spec => []ExitCodeIsHonest
<1>1. EvidenceInv => ExitCodeIsHonest
  BY DEF EvidenceInv, RunWhole, Clean, ExitCodeIsHonest
<1> QED BY <1>1, EvidenceInvariant, PTL

-----------------------------------------------------------------------------
(* The run implements the case ledger.                                     *)

Status     == [c \in Cases |-> LedgerStatus(c)]
Scheduling == ~(cancelled \/ stopScheduling)
Code       == IF phase \in {"done", "killed"} THEN exitCode ELSE -1

LedgerVars == <<Status, Scheduling, Code>>

LEMMA OpenInSlot ==
  ASSUME TypeInv, NEW c \in Cases
  PROVE  /\ Status[c] = "open" <=> InSlot(c)
         /\ pc[c] = "queued" => Status[c] = "planned"
         /\ pc[c] = "over" => Status[c] \in Ledger!Settled
  BY DEF TypeInv, CaseInv, CaseTypes, Calls, Status, LedgerStatus, InSlot, Awaits, Ledger!Settled

\* A case is seen through its own state alone.
LEMMA StatusOfOthers ==
  ASSUME NEW c \in Cases, Alone(c), \A d \in Cases \ {c} : disk'[d] = disk[d]
  PROVE  Status' = [Status EXCEPT ![c] = LedgerStatus(c)']
<1>1. ASSUME NEW d \in Cases \ {c} PROVE LedgerStatus(d)' = LedgerStatus(d)
  BY DEF Alone, LedgerStatus, HasResult
<1> QED BY <1>1 DEF Status


\* What a saved record shows as in the ledger, and an unsaved one.
LEMMA SettledStatus ==
  ASSUME NEW c \in Cases, pc[c] = "over", HasResult(c)
  PROVE  /\ "result" \in disk[c] => LedgerStatus(c) \in {"clean", "recorded"}
         /\ "result" \notin disk[c] => LedgerStatus(c) = "unsaved"
         /\ "result" \in disk[c] /\ Clean(c) => LedgerStatus(c) = "clean"
  BY DEF LedgerStatus, Clean

\* While the cases run the ledger is not closed, and scheduling never resumes.
LEMMA CaseStepScheduling ==
  ASSUME CaseReady, NEW c \in Cases, CaseStep(c)
  PROVE  /\ Code = -1 /\ Code' = -1
         /\ Scheduling' = Scheduling \/ Scheduling' = FALSE
         /\ pc[c] = "queued" => StartCase(c) \/ SkipCase(c)
<1>1. UNCHANGED runVars /\ phase = "cases"
  BY CaseStepKeeps
<1>2. stopScheduling' = stopScheduling \/ stopScheduling' = TRUE
  BY DEF CaseStep, AgentStep, EvaluationStep, StartCase, SkipCase, CreateIsolatedCase,
         CreateCaseEnvironments, RunSetupPhase, WriteAgentSetupLog, SnapshotPatchBase, LaunchAgent,
         ReportLaunchFailure, IdentifySession, AppendRecord, AgentEnds, IsReadable,
         CaptureTimeoutPatch, WriteTimeoutPatch, ExportSession, WriteSessionExport, CapturePatch,
         WritePatch, ApplyCheckState, WriteChecksSetupLog, EvaluateCheck, WriteChecks, GradeCase,
         WriteGrading, FinalizeCase, Dispose, Store, DeliverRecord
<1>3. pc[c] = "queued" => StartCase(c) \/ SkipCase(c)
  BY DEF CaseStep, AgentStep, EvaluationStep, CreateIsolatedCase,
         CreateCaseEnvironments, RunSetupPhase, WriteAgentSetupLog, SnapshotPatchBase, LaunchAgent,
         ReportLaunchFailure, IdentifySession, AppendRecord, AgentEnds, IsReadable,
         CaptureTimeoutPatch, WriteTimeoutPatch, ExportSession, WriteSessionExport, CapturePatch,
         WritePatch, ApplyCheckState, WriteChecksSetupLog, EvaluateCheck, WriteChecks, GradeCase,
         WriteGrading, FinalizeCase, Dispose
<1> QED BY <1>1, <1>2, <1>3 DEF Code, Scheduling, runVars

\* A step that leaves every case's status alone may only end scheduling.
LEMMA InnerStep ==
  ASSUME Status' = Status, Code = -1, Code' = Code,
         Scheduling' = Scheduling \/ Scheduling' = FALSE
  PROVE  Ledger!Next \/ UNCHANGED LedgerVars
  BY DEF LedgerVars, Ledger!Next, Ledger!StopScheduling, Status, Scheduling, Code

\* The ledger counts with the same operator.
LEMMA SameCardinality ==
  ASSUME NEW S
  PROVE  Ledger!Cardinality(S) = Cardinality(S)
  BY DEF Ledger!Cardinality, Cardinality

LEMMA StartCaseOpens ==
  ASSUME CaseReady, NEW c \in Cases, CaseStep(c), StartCase(c)
  PROVE  Ledger!Open(c)
<1>1. Code = -1 /\ Code' = Code
  BY CaseStepScheduling
<1>2. Scheduling /\ Scheduling' = Scheduling
  BY DEF StartCase, Scheduling, runVars
<1>3. Status[c] = "planned"
  BY OpenInSlot DEF StartCase, HasSlot, CaseReady
<1>4. {d \in Cases : Status[d] = "open"} = {d \in Cases : InSlot(d)}
  BY OpenInSlot DEF CaseReady
<1>5. Ledger!Cardinality({d \in Cases : Status[d] = "open"}) < Concurrency
  BY <1>4, SameCardinality DEF StartCase, HasSlot
<1>6. Moves(c, "workspace", NoLocal) /\ UNCHANGED disk
  BY AnnounceMoves DEF StartCase, CaseReady, TypeInv
<1>7. LedgerStatus(c)' = "open"
  BY <1>6 DEF LedgerStatus, Moves
<1>8. Status' = [Status EXCEPT ![c] = "open"]
  BY <1>6, <1>7, StatusOfOthers DEF Moves
<1> QED BY <1>1, <1>2, <1>3, <1>5, <1>8 DEF Ledger!Open, Status, Scheduling, Code

LEMMA SkipCaseSkips ==
  ASSUME CaseReady, NEW c \in Cases, CaseStep(c), SkipCase(c)
  PROVE  Ledger!Skip(c)
<1>1. Code = -1 /\ Code' = Code
  BY CaseStepScheduling
<1>2. ~Scheduling /\ Scheduling' = Scheduling
  BY DEF SkipCase, Scheduling, runVars
<1>3. Status[c] = "planned" /\ ~HasResult(c)
  BY OpenInSlot DEF SkipCase, HasSlot, CaseReady, CasesWhole, EvidenceWhole, Going
<1>4. Moves(c, "over", NoLocal) /\ UNCHANGED disk
  BY GotoMoves DEF SkipCase, CaseReady, TypeInv
<1>5. LedgerStatus(c)' = "skipped"
  BY <1>3, <1>4 DEF LedgerStatus, Moves, HasResult
<1>6. Status' = [Status EXCEPT ![c] = "skipped"]
  BY <1>4, <1>5, StatusOfOthers DEF Moves
<1> QED BY <1>1, <1>2, <1>3, <1>6 DEF Ledger!Skip, Status, Scheduling, Code

\* A case that goes on inside its pipeline stays open.
LEMMA OpenStays ==
  ASSUME CaseReady, NEW c \in Cases, Alone(c), \A d \in Cases \ {c} : disk'[d] = disk[d],
         pc[c] \in Awaits, pc'[c] \in Awaits
  PROVE  Status' = Status
<1>1. LedgerStatus(c)' = "open" /\ LedgerStatus(c) = "open"
  BY DEF LedgerStatus, Awaits
<1> QED BY <1>1, StatusOfOthers DEF Status

LEMMA OnwardStays ==
  ASSUME CaseReady, NEW c \in Cases, Onward(c), pc[c] # "queued"
  PROVE  Status' = Status
<1>1. pc[c] \in Awaits /\ pc'[c] \in Awaits
  BY DEF Onward, Goes, Advances, Concludes, Going, Awaits
<1> QED BY <1>1, OpenStays DEF Onward, Goes, Around

\* The last step of a case settles it, as what is on disk says.
LEMMA LeaveSettles ==
  ASSUME CaseReady, NEW c \in Cases, CaseStep(c), pc[c] \in {"finalize", "dispose"}, Leave(c),
         \A d \in Cases \ {c} : disk'[d] = disk[d],
         \/ "result" \in disk'[c] /\ stopScheduling' = stopScheduling
         \/ "result" \notin disk'[c] /\ stopScheduling' = TRUE
  PROVE  Ledger!Settle(c)
<1>1. Code = -1 /\ Code' = Code /\ UNCHANGED runVars
  BY CaseStepScheduling, CaseStepKeeps
<1>2. Moves(c, "over", NoLocal)
  BY LeaveMoves
<1>3. pc'[c] = "over" /\ HasResult(c)'
  BY <1>2 DEF CaseReady, CasesWhole, EvidenceWhole, Moves, HasResult
<1>4. Status[c] = "open"
  BY DEF Status, LedgerStatus
<1>5. Status' = [Status EXCEPT ![c] = LedgerStatus(c)']
  BY <1>2, StatusOfOthers DEF Moves
<1>6. CASE "result" \in disk'[c] /\ stopScheduling' = stopScheduling
  <2>1. LedgerStatus(c)' \in {"clean", "recorded"}
    BY <1>3, <1>6 DEF LedgerStatus, HasResult
  <2>2. Scheduling' = Scheduling
    BY <1>1, <1>6 DEF Scheduling, runVars
  <2> QED BY <1>1, <1>4, <1>5, <2>1, <2>2 DEF Ledger!Settle, Status, Scheduling, Code
<1>7. CASE "result" \notin disk'[c] /\ stopScheduling' = TRUE
  <2>1. LedgerStatus(c)' = "unsaved"
    BY <1>3, <1>7 DEF LedgerStatus, HasResult
  <2>2. Scheduling' = FALSE
    BY <1>7 DEF Scheduling
  <2> QED BY <1>1, <1>4, <1>5, <2>1, <2>2 DEF Ledger!Settle, Status, Scheduling, Code
<1> QED BY <1>6, <1>7

LEMMA FinalizeCaseImplements ==
  ASSUME CaseReady, NEW c \in Cases, CaseStep(c), FinalizeCase(c)
  PROVE  Ledger!Next \/ UNCHANGED LedgerVars
<1>1. pc[c] = "finalize" /\ disk \in [Cases -> SUBSET (Evidence \cup {"result"})]
      /\ "result" \notin disk[c]
  BY DEF FinalizeCase, CaseReady, TypeInv, RunTypes, CasesWhole, EvidenceWhole
<1>2. \/ /\ disk' = [disk EXCEPT ![c] = @ \cup {"result"}] /\ stopScheduling' = stopScheduling
         /\ Leave(c) \/ Goto(c, "dispose", NoLocal)
      \/ stopScheduling' = TRUE /\ disk' = disk /\ Leave(c)
  BY DEF FinalizeCase, Store
<1>3. \A d \in Cases \ {c} : disk'[d] = disk[d]
  BY <1>1, <1>2
<1>4. CASE Leave(c)
  <2>1. \/ "result" \in disk'[c] /\ stopScheduling' = stopScheduling
        \/ "result" \notin disk'[c] /\ stopScheduling' = TRUE
    BY <1>1, <1>2, <1>4 DEF Leave, Goto, CaseReady, TypeInv, CaseInv, CaseTypes
  <2>2. Ledger!Settle(c)
    BY <1>1, <1>3, <1>4, <2>1, LeaveSettles
  <2> QED BY <2>2 DEF Ledger!Next
<1>5. CASE Goto(c, "dispose", NoLocal)
  <2>1. Moves(c, "dispose", NoLocal)
    BY <1>5, GotoMoves DEF CaseReady, TypeInv
  <2>2. Status' = Status
    BY <1>1, <1>3, <2>1, OpenStays DEF Moves, Awaits
  <2> QED BY <2>2, CaseStepScheduling, InnerStep
<1> QED BY <1>2, <1>4, <1>5

LEMMA CaseStepImplements ==
  ASSUME CaseReady, NEW c \in Cases, CaseStep(c)
  PROVE  Ledger!Next \/ UNCHANGED LedgerVars
<1>1. CASE pc[c] = "queued"
  BY <1>1, CaseStepScheduling, StartCaseOpens, SkipCaseSkips DEF Ledger!Next
<1>2. CASE pc[c] # "queued" /\ Onward(c)
  <2>1. Status' = Status
    BY <1>2, OnwardStays
  <2> QED BY <2>1, CaseStepScheduling, InnerStep
<1>3. CASE FinalizeCase(c)
  BY <1>3, FinalizeCaseImplements
<1>4. CASE Dispose(c)
  <2>1. /\ pc[c] = "dispose" /\ Leave(c) /\ UNCHANGED <<disk, stopScheduling>>
        /\ "result" \in disk[c]
    BY <1>4 DEF Dispose, CaseReady, CasesWhole, Accounted
  <2>2. Ledger!Settle(c)
    BY <2>1, LeaveSettles
  <2> QED BY <2>2 DEF Ledger!Next
<1>5. SkipCase(c) => pc[c] = "queued"
  BY DEF SkipCase, HasSlot
<1> QED BY <1>1, <1>2, <1>3, <1>4, <1>5, StageOnward

LEMMA RunStepImplements ==
  ASSUME EvidenceInv, RunStep \/ ForcedExit \/ SignalArrives
  PROVE  Ledger!Next \/ UNCHANGED LedgerVars
<1>1. UNCHANGED <<pc, results, disk, stopScheduling>>
  BY DEF RunStep, PreflightRefuses, PreflightPasses, StartRunFails, RunStarts, RunEnds,
         FinalizeRun, RebuildRunReport, ForcedExit, SignalArrives, RunMoves, caseVars
<1>2. Status' = Status
  BY <1>1 DEF Status, LedgerStatus, HasResult
<1>3. phase \in {"preflight", "starting"} =>
        ~cancelled /\ \A c \in Cases : Status[c] = "planned"
  BY OpenInSlot DEF EvidenceInv, CaseReady, InterruptInv
<1>4. phase \in {"finalizing", "reporting"} =>
        /\ exitCode \in {0, 1, 2, 130}
        /\ \A c \in Cases : Status[c] \in Ledger!Settled
        /\ exitCode = 0 => \A c \in Cases : Status[c] = "clean"
  <2> SUFFICES ASSUME phase \in {"finalizing", "reporting"}
               PROVE  /\ exitCode \in {0, 1, 2, 130}
                      /\ \A c \in Cases : Status[c] \in Ledger!Settled
                      /\ exitCode = 0 => \A c \in Cases : Status[c] = "clean"
    OBVIOUS
  <2>1. exitCode \in {0, 1, 2, 130} /\ \A c \in Cases : pc[c] = "over"
    BY DEF EvidenceInv, RunWhole
  <2>2. \A c \in Cases : Status[c] \in Ledger!Settled
    BY <2>1, OpenInSlot DEF EvidenceInv, CaseReady
  <2>3. ASSUME exitCode = 0, NEW c \in Cases PROVE Status[c] = "clean"
    <3>1. HasResult(c) /\ "result" \in disk[c] /\ Clean(c)
      BY <2>3 DEF EvidenceInv, RunWhole
    <3> QED BY <2>1, <3>1, SettledStatus DEF Status
  <2> QED BY <2>1, <2>2, <2>3
<1>5. CASE PreflightPasses \/ RunEnds
  <2>1. Code' = Code /\ Scheduling' = Scheduling
    BY <1>1, <1>5 DEF PreflightPasses, RunEnds, RunMoves, Code, Scheduling
  <2> QED BY <1>2, <2>1 DEF LedgerVars
<1>6. CASE RunStarts \/ SignalArrives
  <2>1. /\ Code = -1 /\ Code' = Code
        /\ \/ cancelled' = cancelled
           \/ cancelled' = TRUE
    BY <1>3, <1>6 DEF RunStarts, SignalArrives, RunMoves, Code, EvidenceInv, CaseReady, TypeInv,
                      RunTypes
  <2>2. Scheduling' = Scheduling \/ Scheduling' = FALSE
    BY <1>1, <2>1 DEF Scheduling
  <2> QED BY <1>2, <2>1, <2>2, InnerStep
<1>7. CASE PreflightRefuses \/ StartRunFails \/ ForcedExit
  <2>1. /\ Code = -1 /\ Scheduling' = Scheduling
        /\ \/ Code' = 130
           \/ Code' = 1 /\ phase \in {"preflight", "starting"}
    BY <1>1, <1>7 DEF PreflightRefuses, StartRunFails, ForcedExit, RunMoves, Code, Scheduling
  <2>2. Ledger!Abandon
    BY <1>2, <1>3, <2>1 DEF Ledger!Abandon, Status, Scheduling, Code
  <2> QED BY <2>2 DEF Ledger!Next
<1>8. CASE FinalizeRun \/ RebuildRunReport
  <2>1. /\ phase \in {"finalizing", "reporting"} /\ Code = -1 /\ Scheduling' = Scheduling
        /\ Code' \in {-1, 1, exitCode}
    BY <1>1, <1>8 DEF FinalizeRun, RebuildRunReport, RunMoves, Code, Scheduling
  <2>2. CASE Code' = -1
    BY <1>2, <2>1, <2>2 DEF LedgerVars
  <2>3. CASE Code' # -1
    <3>1. /\ Code' \in {0, 1, 2, 130}
          /\ Code' = 0 => \A c \in Cases : Status[c] = "clean"
      BY <1>4, <2>1, <2>3
    <3>2. Ledger!Close
      BY <1>2, <1>4, <2>1, <3>1 DEF Ledger!Close, Ledger!Codes, Status, Scheduling, Code
    <3> QED BY <3>2 DEF Ledger!Next
  <2> QED BY <2>2, <2>3
<1> QED BY <1>5, <1>6, <1>7, <1>8 DEF RunStep

LEMMA NextImplements ==
  ASSUME EvidenceInv, [Next]_vars
  PROVE  [Ledger!Next]_(Ledger!vars)
<1>1. UNCHANGED LedgerVars => UNCHANGED Ledger!vars
  BY DEF LedgerVars, Ledger!vars, Status, Scheduling, Code
<1>2. CASE UNCHANGED vars
  BY <1>2 DEF vars, runVars, caseVars, Ledger!vars, LedgerStatus, HasResult
<1>3. CASE Next
  <2>1. Ledger!Next \/ UNCHANGED LedgerVars
    BY <1>3, CaseStepImplements, RunStepImplements DEF Next, EvidenceInv
  <2> QED BY <1>1, <2>1
<1> QED BY <1>2, <1>3

\* The run keeps the ledger of its cases: never more open than the pool allows,
\* none opened after scheduling ended, each settled exactly once, and closed
\* over settled cases with the exit code the ledger promises.
THEOREM RunImplementsLedger == Spec => ImplementsLedger
<1>1. Init => Ledger!Init
  BY DEF Init, Ledger!Init, LedgerStatus
<1>2. EvidenceInv /\ [Next]_vars => [Ledger!Next]_(Ledger!vars)
  BY NextImplements
<1> QED BY <1>1, <1>2, EvidenceInvariant, PTL DEF Spec, Ledger!Spec, ImplementsLedger
=============================================================================
