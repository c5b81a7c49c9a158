------------------------------ MODULE AgentSession ------------------------------
(***************************************************************************)
(* The OpenCode adapter over one agent process: the consumer of its output, *)
(* the two delivery chains that write the evidence, the reading of how the *)
(* run ended, and the export of the session. A case's run (runCase) keeps  *)
(* its evidence in the artifact store, a model call's (runModelCall) in    *)
(* memory. A line of output is a record of what the decoder makes of it.   *)
(***************************************************************************)
EXTENDS ProcessEnding, Integers, SequencesExt

CONSTANTS
  Modes,     \* "case", "call" or both
  Lines,     \* bound: the lines the process may print
  MaxLines,  \* bound: lines of output
  MaxNotes   \* bound: lines of stderr

Sessions == {"root", "child"}
Consumed == {"part", "error", "unredactable"}
LineKinds == [kind : Consumed, session : Sessions]
             \cup [kind : {"additive", "malformed", "layout"}, session : {"none"}]

ASSUME SessionAssumption ==
  Modes \subseteq {"case", "call"} /\ Lines \subseteq LineKinds /\ MaxLines \in Nat /\ MaxNotes \in Nat

VARIABLES
  mode,
  output,      \* history: the lines the process printed
  buffer,      \* a line whose end was not read yet
  queue,       \* stdout lines chained for delivery
  notes,       \* history: the number of stderr lines printed
  noteQueue,   \* stderr lines chained for delivery
  sending,     \* the append each chain waits for
  stopped,     \* which of the two evidence files takes no further line
  events,
  diagnostics, \* stderr lines by number, -1 a malformed line, 0 the failed launch
  session, failure, rootError, anyError,
  process,     \* how the run process stands
  stage, result,
  exported,    \* how the export ended, "none" before
  reported,    \* how often a call's evidence was handed over
  appendFailed \* history: the store refused an append

outputVars == <<output, buffer, notes, process>>
chainVars == <<queue, noteQueue, sending, stopped>>
foundVars == <<events, diagnostics, session, failure, rootError, anyError, appendFailed>>
endVars == <<stage, result, exported, reported>>
sessionVars == <<mode, outputVars, chainVars, foundVars, endVars>>

Running == [how |-> "running", code |-> "none"]

\* What an export that exited with 0 holds: its capture, the document, and in a
\* redacted document of the right session the last assistant message.
Unread == {"truncated", "incomplete"}
Undecoded == {"not JSON", "layout", "other session", "unredactable"}
Unreplied == {"no assistant", "no text", "unredactable reply"}
Documents == Unread \cup Undecoded \cup Unreplied \cup {"tool call", "errored", "unfinished", "reply"}
Results == {"none", "ok", "process", "protocol", "session", "timeout", "cancellation",
            "launch-failed", "failed", "tool-call", "unfinished"}

\* The one type invariant.
SessionTypeOK ==
  /\ mode \in Modes
  /\ output \in Seq(Lines) /\ buffer \in Seq(Lines) /\ queue \in Seq(Lines)
  /\ notes \in 0..MaxNotes /\ noteQueue \in Seq(1..MaxNotes)
  /\ sending \in [{"stdout", "stderr"} -> {"nothing", "event", "diagnostic"}]
  /\ stopped \subseteq {"events", "diagnostics"}
  /\ events \in Seq(Lines) /\ diagnostics \in Seq(-1..MaxNotes)
  /\ session \in Sessions \cup {"none"}
  /\ failure \in {"none", "malformed", "layout", "redaction"}
  /\ rootError \in BOOLEAN /\ anyError \in BOOLEAN /\ appendFailed \in BOOLEAN
  /\ process \in Endings \cup {Running}
  /\ stage \in {"running", "flushing", "exporting", "returned"}
  /\ result \in Results /\ exported \in Results
  /\ reported \in Nat

SessionInit ==
  /\ mode \in Modes
  /\ output = <<>> /\ buffer = <<>> /\ queue = <<>> /\ notes = 0 /\ noteQueue = <<>>
  /\ sending = [c \in {"stdout", "stderr"} |-> "nothing"] /\ stopped = {}
  /\ events = <<>> /\ diagnostics = <<>>
  /\ session = "none" /\ failure = "none" /\ rootError = FALSE /\ anyError = FALSE
  /\ process = Running /\ stage = "running" /\ result = "none" /\ exported = "none"
  /\ reported = 0 /\ appendFailed = FALSE

-----------------------------------------------------------------------------
(* The process.                                                            *)

\* A line arrives in two chunks, of which the second ends it.
PrintLine(l) ==
  /\ process = Running /\ buffer = <<>> /\ Len(output) < MaxLines
  /\ output' = Append(output, l) /\ buffer' = <<l>>
  /\ UNCHANGED <<mode, notes, process, queue, noteQueue, sending, stopped, foundVars, endVars>>

EndLine ==
  /\ process = Running /\ buffer # <<>>
  /\ queue' = queue \o buffer /\ buffer' = <<>>
  /\ UNCHANGED <<mode, output, notes, process, noteQueue, sending, stopped, foundVars, endVars>>

\* A model call has no use for stderr lines one by one.
PrintNote ==
  /\ process = Running /\ notes < MaxNotes /\ mode = "case"
  /\ notes' = notes + 1 /\ noteQueue' = Append(noteQueue, notes + 1)
  /\ UNCHANGED <<mode, output, buffer, process, queue, sending, stopped, foundVars, endVars>>

\* runProcess returns: every chunk was pushed, and what is left has no line end.
ProcessEnds ==
  /\ process = Running
  /\ process' \in Endings
  /\ ~Launched(process') => output = <<>> /\ notes = 0
  /\ queue' = queue \o buffer /\ buffer' = <<>>
  /\ stage' = "flushing"
  /\ UNCHANGED <<mode, output, notes, noteQueue, sending, stopped, foundVars, result, exported, reported>>

-----------------------------------------------------------------------------
(* The chains.                                                             *)

Sends(c, what) == sending' = [sending EXCEPT ![c] = what]
Fails(how) == failure' = IF failure = "none" THEN how ELSE failure

SkipMalformed(l) ==
  /\ l.kind = "malformed" /\ Fails("malformed")
  /\ IF mode = "call" \/ "diagnostics" \in stopped
     THEN queue' = Tail(queue) /\ UNCHANGED sending
     ELSE Sends("stdout", "diagnostic") /\ UNCHANGED queue
  /\ UNCHANGED <<stopped, session, events, anyError>>

RefuseLayout(l) ==
  /\ l.kind = "layout" /\ Fails("layout")
  /\ queue' = Tail(queue)
  /\ UNCHANGED <<sending, stopped, session, events, anyError>>

IgnoreAdditive(l) ==
  /\ l.kind = "additive"
  /\ queue' = Tail(queue)
  /\ UNCHANGED <<sending, stopped, session, events, anyError, failure>>

\* Mutant: the session is taken from the redacted record.
IdentifyDelivered(l) == session' = IF session = "none" /\ l.kind # "unredactable" THEN l.session ELSE session

\* The first decoded record names the root session, delivered or not.
IdentifySession(l) == session' = IF session = "none" THEN l.session ELSE session

DeliverRecord(l) ==
  /\ l.kind \in Consumed
  /\ IdentifySession(l)
  /\ CASE "events" \in stopped ->
            /\ queue' = Tail(queue)
            /\ UNCHANGED <<sending, stopped, events, anyError, failure>>
       [] "events" \notin stopped /\ l.kind = "unredactable" ->
            /\ stopped' = stopped \cup {"events"} /\ Fails("redaction")
            /\ queue' = Tail(queue)
            /\ UNCHANGED <<sending, events, anyError>>
       [] "events" \notin stopped /\ l.kind # "unredactable" /\ mode = "call" ->
            /\ events' = Append(events, l) /\ anyError' = (anyError \/ l.kind = "error")
            /\ queue' = Tail(queue)
            /\ UNCHANGED <<sending, stopped, failure>>
       [] OTHER ->
            /\ Sends("stdout", "event")
            /\ UNCHANGED <<queue, stopped, events, anyError, failure>>

HandleLine ==
  /\ queue # <<>> /\ sending["stdout"] = "nothing"
  /\ LET l == Head(queue)
     IN  SkipMalformed(l) \/ RefuseLayout(l) \/ IgnoreAdditive(l) \/ DeliverRecord(l)
  /\ UNCHANGED <<mode, outputVars, noteQueue, diagnostics, rootError, appendFailed, endVars>>

\* onEvent appends the record; a root session's error counts once it is stored.
EventAppended ==
  /\ sending["stdout"] = "event" /\ Sends("stdout", "nothing")
  /\ LET l == Head(queue)
     IN  \/ /\ events' = Append(events, l)
            /\ rootError' = (rootError \/ (l.kind = "error" /\ l.session = session))
            /\ UNCHANGED <<stopped, appendFailed>>
         \/ /\ stopped' = stopped \cup {"events"} /\ appendFailed' = TRUE
            /\ UNCHANGED <<events, rootError>>
  /\ queue' = Tail(queue)
  /\ UNCHANGED <<mode, outputVars, noteQueue, diagnostics, session, failure, anyError, endVars>>

HandleNote ==
  /\ noteQueue # <<>> /\ sending["stderr"] = "nothing"
  /\ IF "diagnostics" \in stopped
     THEN noteQueue' = Tail(noteQueue) /\ UNCHANGED sending
     ELSE Sends("stderr", "diagnostic") /\ UNCHANGED noteQueue
  /\ UNCHANGED <<mode, outputVars, queue, stopped, foundVars, endVars>>

\* The two chains share the diagnostics; an append of one may be under way when
\* that of the other fails.
DiagnosticAppended(c) ==
  /\ sending[c] = "diagnostic" /\ Sends(c, "nothing")
  /\ \/ /\ diagnostics' = Append(diagnostics, IF c = "stdout" THEN -1 ELSE Head(noteQueue))
        /\ UNCHANGED <<stopped, appendFailed>>
     \/ /\ stopped' = stopped \cup {"diagnostics"} /\ appendFailed' = TRUE
        /\ UNCHANGED diagnostics
  /\ queue' = IF c = "stdout" THEN Tail(queue) ELSE queue
  /\ noteQueue' = IF c = "stderr" THEN Tail(noteQueue) ELSE noteQueue
  /\ UNCHANGED <<mode, outputVars, events, session, failure, rootError, anyError, endVars>>

-----------------------------------------------------------------------------
(* The result.                                                             *)

\* Mutant: the diagnostics of stderr are not waited for.
StdoutDelivered == queue = <<>> /\ sending["stdout"] = "nothing"

\* flush has split what was left, and both chains are awaited.
Delivered == queue = <<>> /\ noteQueue = <<>> /\ sending = [c \in {"stdout", "stderr"} |-> "nothing"]

CaseResult ==
  CASE ~Launched(process) -> "process"
    [] process.how = "cancelled" -> "cancellation"
    [] process.how = "timed-out" -> "timeout"
    [] process.how = "exited" /\ failure # "none" -> "protocol"
    [] process.how = "exited" /\ failure = "none" /\ process.code # "0" -> "process"
    [] OTHER -> IF session = "none" THEN "protocol" ELSE IF rootError THEN "session" ELSE "ok"

\* Why a model call ends before the session is exported, "none" when it does not.
CallEnd ==
  CASE Settle(process) # "settled" -> Settle(process)
    [] Settle(process) = "settled" /\ failure # "none" -> "protocol"
    [] Settle(process) = "settled" /\ failure = "none" /\ (process.code # "0" \/ anyError) -> "failed"
    [] OTHER -> IF session = "none" THEN "protocol" ELSE "none"

\* A process that could not start leaves one diagnostic. The run exports the
\* session of a case it knows, however the case ended.
DecideCase ==
  /\ mode = "case" /\ stage = "flushing" /\ Delivered
  /\ \/ /\ Launched(process) \/ "diagnostics" \in stopped
        /\ UNCHANGED <<diagnostics, stopped, appendFailed>>
     \/ /\ ~Launched(process) /\ "diagnostics" \notin stopped
        /\ \/ diagnostics' = Append(diagnostics, 0) /\ UNCHANGED <<stopped, appendFailed>>
           \/ stopped' = {"diagnostics"} /\ appendFailed' = TRUE /\ UNCHANGED diagnostics
  /\ result' = CaseResult
  /\ stage' = IF session = "none" THEN "returned" ELSE "exporting"
  /\ UNCHANGED <<mode, outputVars, queue, noteQueue, sending,
                 events, session, failure, rootError, anyError, exported, reported>>

ReportEvidence == reported' = IF Launched(process) THEN reported + 1 ELSE reported

DecideCall ==
  /\ mode = "call" /\ stage = "flushing" /\ Delivered
  /\ IF CallEnd = "none"
     THEN stage' = "exporting" /\ UNCHANGED <<result, reported>>
     ELSE stage' = "returned" /\ result' = CallEnd /\ ReportEvidence
  /\ UNCHANGED <<mode, outputVars, chainVars, foundVars, exported>>

\* runExportProcess looks at the exit code and the capture alone: an export that
\* was stopped and still exited with 0 is read. An incomplete capture may be whole.
Read(end, document) == Launched(end) /\ end.code = "0" /\ document \notin Unread

\* A case's export takes no cancellation.
ExportSession(end, document) ==
  /\ mode = "case" /\ stage = "exporting"
  /\ end.how \notin {"aborted", "cancelled"}
  /\ exported' = CASE Read(end, document) -> IF document \in Undecoded THEN "protocol" ELSE "ok"
                  [] ~Launched(end) \/ end.code # "0" -> "process"
                  [] OTHER -> "protocol"
  /\ stage' = "returned"
  /\ UNCHANGED <<mode, outputVars, chainVars, foundVars, result, reported>>

ReplyResult(document) ==
  CASE document \in Undecoded \cup Unreplied -> "protocol"
    [] document = "tool call" -> "tool-call"
    [] document = "errored" -> "failed"
    [] document = "unfinished" -> "unfinished"
    [] document = "reply" -> "ok"

ExportReply(end, document) ==
  /\ mode = "call" /\ stage = "exporting"
  /\ result' = CASE Read(end, document) -> ReplyResult(document)
                [] ~Read(end, document) /\ Settle(end) # "settled" -> Settle(end)
                [] OTHER -> IF end.code # "0" THEN "failed" ELSE "protocol"
  /\ exported' = IF Read(end, document) /\ document \notin Undecoded THEN "ok" ELSE result'
  /\ ReportEvidence
  /\ stage' = "returned"
  /\ UNCHANGED <<mode, outputVars, chainVars, foundVars>>

SessionNext ==
  \/ \E l \in Lines : PrintLine(l)
  \/ EndLine \/ PrintNote \/ ProcessEnds
  \/ HandleLine \/ EventAppended \/ HandleNote
  \/ \E c \in {"stdout", "stderr"} : DiagnosticAppended(c)
  \/ DecideCase \/ DecideCall
  \/ \E end \in Endings, document \in Documents : ExportSession(end, document) \/ ExportReply(end, document)

SessionSpec == SessionInit /\ [][SessionNext]_sessionVars

-----------------------------------------------------------------------------
(* What the adapter must guarantee.                                        *)

Decided == stage \in {"exporting", "returned"}

\* Kept(lines, kinds)[n]: those of the first n lines that are of one of the kinds.
Kept(lines, kinds) ==
  LET kept[n \in 0..Len(lines)] ==
        IF n = 0 THEN <<>>
        ELSE IF lines[n].kind \in kinds THEN Append(kept[n - 1], lines[n]) ELSE kept[n - 1]
  IN  kept

Records == Kept(output, Consumed)[Len(output)]
Withheld == \E i \in DOMAIN Records : Records[i].kind = "unredactable"

\* The evidence is the output: records are stored in their order and unchanged up
\* to the first that cannot be stored, none after it; and once the result is
\* known everything the process printed has been dealt with, on both streams.
EvidenceIsOutput ==
  /\ IsPrefix(events, Records)
  /\ \A i \in DOMAIN events : events[i].kind # "unredactable"
  /\ Decided /\ ~appendFailed =>
       /\ ~Withheld => events = Records
       /\ mode = "case" =>
            /\ \A n \in 1..notes : \E i \in DOMAIN diagnostics : diagnostics[i] = n
            /\ Len(diagnostics) = notes + (IF Launched(process) THEN 0 ELSE 1)
                 + Len(Kept(output, {"malformed"})[Len(output)])

\* No defect of the output passes for success, whatever is delivered late; the
\* session that is exported is the one the first record names, though the record
\* itself is withheld; and a call hands its evidence over exactly once.
OutcomeIsHonest ==
  Decided =>
    /\ session = IF Records = <<>> THEN "none" ELSE Records[1].session
    /\ result = "ok" \/ (mode = "call" /\ stage = "exporting") =>
         /\ process = [how |-> "exited", code |-> "0"]
         /\ \A i \in DOMAIN output : output[i].kind \notin {"malformed", "layout"}
         /\ ~appendFailed => ~Withheld
         /\ ~appendFailed =>
              \A i \in DOMAIN Records : Records[i].kind = "error" => mode = "case" /\ Records[i].session # session
    /\ mode = "call" /\ stage = "returned" =>
         /\ reported = (IF Launched(process) THEN 1 ELSE 0)
         /\ result = "ok" => exported = "ok"
=============================================================================
