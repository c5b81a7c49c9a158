--------------------------- MODULE ManagedProcess ---------------------------
(***************************************************************************)
(* One call of runManagedProcess (adapters/process.ts): a child in its own *)
(* process group, with a time limit, a cancellation signal, and the        *)
(* captures of its two output streams. A step is one callback of tevu's    *)
(* event loop (a timer, the abort, the child's exit, a stream's end, an    *)
(* awaited call coming back) or one thing the processes do meanwhile.      *)
(***************************************************************************)
EXTENDS Integers

CONSTANTS
  Kids,      \* the processes the child may start, directly or not
  Targets,   \* stdout targets the caller asks for: "pipe", "file"
  Escapes    \* whether a descendant may leave the process group

Child   == "child"
Members == {Child} \cup Kids
Outputs == {"stdout", "stderr"}

ASSUME ProcessAssumption ==
  /\ Child \notin Kids
  /\ Targets \subseteq {"pipe", "file"}
  /\ Escapes \in BOOLEAN

VARIABLES
  target,       \* request.stdoutTarget
  aborted,      \* request.cancellation.aborted
  stage,        \* what the call awaits, or how it ended
  file,         \* the unnamed capture file
  listening,    \* whether onAbort is registered
  timers,       \* armed timers
  cause,        \* why termination began: timedOut, cancelled, or none
  termination,  \* terminationStage
  exited,       \* whether the child's exit was seen
  killSent,     \* hasSurvivorKillBeenSent
  ended,        \* streams whose end was seen
  incomplete,   \* captures marked incomplete
  proc,         \* each process
  escaped,      \* processes outside the group
  writers,      \* who holds each stream open
  cut           \* streams a signal of the call may have cut short

callVars == <<stage, file, listening, timers, killSent>>
osVars   == <<proc, escaped, writers>>
verdict  == <<cause, termination>>
captures == <<ended, incomplete, cut>>
vars == <<target, aborted, callVars, exited, verdict, captures, osVars>>

Over == {"completed", "refused"}

\* The type invariant.
TypeOK ==
  /\ target \in {"pipe", "file"} /\ aborted \in BOOLEAN
  /\ stage \in {"called", "preparing", "running", "polling", "draining"} \cup Over
  /\ file \in {"none", "open", "closed"}
  /\ listening \in BOOLEAN /\ exited \in BOOLEAN /\ killSent \in BOOLEAN
  /\ timers \subseteq {"timeout", "grace", "survivor"}
  /\ cause \in {"none", "timeout", "cancellation"}
  /\ termination \in {"none", "graceful", "forced"}
  /\ ended \subseteq Outputs /\ incomplete \subseteq Outputs /\ cut \subseteq Outputs
  /\ proc \in [Members -> {"unborn", "alive", "killed", "gone"}]
  /\ escaped \subseteq Kids
  /\ writers \in [Outputs -> SUBSET Members]

Init ==
  /\ target \in Targets /\ aborted = FALSE
  /\ stage = "called" /\ file = "none"
  /\ listening = FALSE /\ timers = {} /\ killSent = FALSE /\ exited = FALSE
  /\ cause = "none" /\ termination = "none"
  /\ ended = {} /\ incomplete = {} /\ cut = {}
  /\ proc = [m \in Members |-> "unborn"]
  /\ escaped = {}
  /\ writers = [s \in Outputs |-> {}]

-----------------------------------------------------------------------------
(* The process group.                                                      *)

Group == {m \in Members \ escaped : proc[m] \in {"alive", "killed"}}

\* The child stays in its group until its exit is seen.
GroupExists == Group # {} \/ (proc[Child] = "gone" /\ ~exited)

\* Before the call settles, a signal that reaches the group marks every
\* capture whose stream is still open.
MarkOpenStreams(settled) ==
  incomplete' = IF GroupExists /\ ~settled THEN incomplete \cup (Outputs \ ended) ELSE incomplete

CutStreams == cut' = cut \cup {s \in Outputs : writers[s] \cap Group # {}}

Terminate(settled) ==
  /\ MarkOpenStreams(settled)
  /\ CutStreams
  /\ UNCHANGED <<osVars, ended>>

Kill(settled) ==
  /\ MarkOpenStreams(settled)
  /\ CutStreams
  /\ proc' = [m \in Members |-> IF m \in Group THEN "killed" ELSE proc[m]]
  /\ UNCHANGED <<escaped, writers, ended>>

\* Mutant: only the exit is looked at, so a second trigger overwrites the first.
BeginTerminationAgain(trigger, otherTimers) ==
  IF exited
    THEN /\ timers' = otherTimers
         /\ UNCHANGED <<verdict, captures, osVars>>
    ELSE /\ cause' = trigger
         /\ termination' = "graceful"
         /\ timers' = otherTimers \cup {"grace"}
         /\ Terminate(FALSE)

\* A later trigger changes nothing: the first one, or the exit, stands.
BeginTermination(trigger, otherTimers) ==
  IF exited \/ cause # "none"
    THEN /\ timers' = otherTimers
         /\ UNCHANGED <<verdict, captures, osVars>>
    ELSE /\ cause' = trigger
         /\ termination' = "graceful"
         /\ timers' = otherTimers \cup {"grace"}
         /\ Terminate(FALSE)

-----------------------------------------------------------------------------
(* The call.                                                               *)

Refuse ==
  /\ stage' = "refused"
  /\ UNCHANGED <<listening, timers, osVars>>

\* execa throws, reports a spawn failure later, or starts the child.
Launch ==
  \/ /\ Refuse
     /\ file' = IF target = "file" THEN "closed" ELSE "none"
  \/ /\ stage' = "running"
     /\ file' = IF target = "file" THEN "open" ELSE "none"
     /\ listening' = TRUE
     /\ timers' = {"timeout"}
     /\ UNCHANGED escaped
     /\ \/ UNCHANGED <<proc, writers>>
        \/ /\ proc' = [proc EXCEPT ![Child] = "alive"]
           /\ writers' = [s \in Outputs |-> {Child}]

\* With a pipe nothing is awaited between the look at the signal and the
\* registration of onAbort.
Call ==
  /\ stage = "called"
  /\ IF aborted THEN Refuse /\ UNCHANGED file
     ELSE IF target = "file" THEN stage' = "preparing" /\ UNCHANGED <<file, listening, timers, osVars>>
     ELSE Launch
  /\ UNCHANGED <<target, aborted, killSent, exited, verdict, captures>>

\* With a file the call awaits openUnnamedCaptureFile in between.
OpenUnnamedCaptureFile ==
  /\ stage = "preparing"
  /\ (Refuse /\ UNCHANGED file) \/ Launch
  /\ UNCHANGED <<target, aborted, killSent, exited, verdict, captures>>

\* Mutant: the trigger is recorded under the name of the event.
AbortByEventName ==
  /\ ~aborted
  /\ stage \notin Over
  /\ aborted' = TRUE
  /\ IF listening THEN BeginTermination("abort", timers)
     ELSE UNCHANGED <<timers, verdict, captures, osVars>>
  /\ UNCHANGED <<target, stage, file, listening, killSent, exited>>

\* The caller aborts the signal; a listener registered later never hears of it.
Abort ==
  /\ ~aborted
  /\ stage \notin Over
  /\ aborted' = TRUE
  /\ IF listening THEN BeginTermination("cancellation", timers)
     ELSE UNCHANGED <<timers, verdict, captures, osVars>>
  /\ UNCHANGED <<target, stage, file, listening, killSent, exited>>

TimeoutFires ==
  /\ "timeout" \in timers
  /\ BeginTermination("timeout", timers \ {"timeout"})
  /\ UNCHANGED <<target, aborted, stage, file, listening, killSent, exited>>

GraceEnds ==
  /\ "grace" \in timers
  /\ timers' = timers \ {"grace"}
  /\ termination' = "forced"
  /\ Kill(FALSE)
  /\ UNCHANGED <<target, aborted, stage, file, listening, killSent, exited, cause>>

\* Mutant: the survivors are killed and their streams not marked.
SurvivorGraceEndsUnmarked ==
  /\ "survivor" \in timers
  /\ timers' = timers \ {"survivor"}
  /\ killSent' = TRUE
  /\ Kill(TRUE)
  /\ UNCHANGED <<target, aborted, stage, file, listening, exited, verdict>>

SurvivorGraceEnds ==
  /\ "survivor" \in timers
  /\ timers' = timers \ {"survivor"}
  /\ killSent' = TRUE
  /\ Kill(FALSE)
  /\ UNCHANGED <<target, aborted, stage, file, listening, exited, verdict>>

\* Mutant: the time given to survivors is not limited.
ExitSeenWaitsForSurvivors ==
  /\ stage = "running"
  /\ proc[Child] = "gone" /\ ~exited
  /\ exited' = TRUE
  /\ IF cause = "none"
       THEN timers' = {} /\ listening' = FALSE
       ELSE UNCHANGED <<timers, listening>>
  /\ UNCHANGED <<target, aborted, stage, file, killSent, verdict, captures, osVars>>

\* The exit disarms the time limit and the signal, unless one came first.
ExitSeen ==
  /\ stage = "running"
  /\ proc[Child] = "gone" /\ ~exited
  /\ exited' = TRUE
  /\ IF cause = "none"
       THEN timers' = {"survivor"} /\ listening' = FALSE
       ELSE timers' = timers \cup {"survivor"} /\ UNCHANGED listening
  /\ UNCHANGED <<target, aborted, stage, file, killSent, verdict, captures, osVars>>

\* A file has no end event.
EndSeen(s) ==
  /\ stage = "running"
  /\ s \notin ended /\ writers[s] = {}
  /\ target = "pipe" \/ s = "stderr"
  /\ ended' = ended \cup {s}
  /\ UNCHANGED <<target, aborted, callVars, exited, verdict, incomplete, cut, osVars>>

\* execa settles after the exit and the end of every pipe, or with the spawn
\* failure; no descendant may hold a pipe open.
Settles ==
  /\ stage = "running"
  /\ \/ exited /\ (IF target = "pipe" THEN Outputs ELSE {"stderr"}) \subseteq ended
     \/ proc[Child] = "unborn"

\* Mutant: no final SIGKILL.
FinishWithoutKill ==
  /\ timers' = {}
  /\ listening' = FALSE
  /\ stage' = IF target = "file" THEN "draining" ELSE IF exited THEN "completed" ELSE "refused"
  /\ UNCHANGED <<target, aborted, file, killSent, exited, verdict, captures, osVars>>

\* Mutant: the survivors' timer stays armed.
FinishWithTimer ==
  /\ timers' = timers \ {"timeout", "grace"}
  /\ listening' = FALSE
  /\ Kill(TRUE)
  /\ stage' = IF target = "file" THEN "draining" ELSE IF exited THEN "completed" ELSE "refused"
  /\ UNCHANGED <<target, aborted, file, killSent, exited, verdict>>

\* Everything from the cleared timers to the final SIGKILL.
Finish ==
  /\ timers' = {}
  /\ listening' = FALSE
  /\ Kill(TRUE)
  /\ stage' = IF target = "file" THEN "draining" ELSE IF exited THEN "completed" ELSE "refused"
  /\ UNCHANGED <<target, aborted, file, killSent, exited, verdict>>

SettlePipe ==
  /\ Settles
  /\ target = "pipe" \/ ~exited
  /\ Finish

AwaitGroup ==
  /\ Settles
  /\ target = "file" /\ exited
  /\ stage' = "polling"
  /\ UNCHANGED <<target, aborted, file, listening, timers, killSent, exited, verdict, captures, osVars>>

\* The file is complete once nobody in the group can write to it any more.
GroupEmpties ==
  /\ stage = "polling"
  /\ ~GroupExists
  /\ ended' = ended \cup {"stdout"}
  /\ timers' = {} /\ listening' = FALSE
  /\ stage' = "draining"
  /\ UNCHANGED <<target, aborted, file, killSent, exited, verdict, incomplete, cut, osVars>>

GiveUpOnGroup ==
  /\ stage = "polling"
  /\ GroupExists /\ killSent
  /\ Finish

DrainCaptureFile ==
  /\ stage = "draining"
  /\ file' = "closed"
  /\ stage' = IF exited THEN "completed" ELSE "refused"
  /\ incomplete' \in {incomplete, incomplete \cup {"stdout"}}
  /\ UNCHANGED <<target, aborted, listening, timers, killSent, exited, verdict, ended, cut, osVars>>

-----------------------------------------------------------------------------
(* The processes.                                                          *)

Fork(parent, kid) ==
  /\ proc[parent] = "alive" /\ proc[kid] = "unborn"
  /\ proc' = [proc EXCEPT ![kid] = "alive"]
  /\ escaped' = IF parent \in escaped THEN escaped \cup {kid} ELSE escaped
  /\ writers' = [s \in Outputs |-> IF parent \in writers[s] THEN writers[s] \cup {kid} ELSE writers[s]]

LeaveGroup(kid) ==
  /\ Escapes
  /\ proc[kid] = "alive" /\ kid \notin escaped
  /\ escaped' = escaped \cup {kid}
  /\ UNCHANGED <<proc, writers>>

CloseOutput(m, s) ==
  /\ proc[m] = "alive" /\ m \in writers[s]
  /\ writers' = [writers EXCEPT ![s] = @ \ {m}]
  /\ UNCHANGED <<proc, escaped>>

Die(m) ==
  /\ proc' = [proc EXCEPT ![m] = "gone"]
  /\ writers' = [s \in Outputs |-> writers[s] \ {m}]
  /\ UNCHANGED escaped

ProcessStep ==
  /\ \/ \E kid \in Kids : LeaveGroup(kid) \/ \E parent \in Members : Fork(parent, kid)
     \/ \E m \in Members : \/ \E s \in Outputs : CloseOutput(m, s)
                           \/ proc[m] = "alive" /\ Die(m)
  /\ UNCHANGED <<target, aborted, callVars, exited, verdict, captures>>

KilledDies(m) ==
  /\ proc[m] = "killed"
  /\ Die(m)
  /\ UNCHANGED <<target, aborted, callVars, exited, verdict, captures>>

-----------------------------------------------------------------------------
Proceed ==
  \/ Call \/ OpenUnnamedCaptureFile \/ ExitSeen \/ \E s \in Outputs : EndSeen(s)
  \/ SettlePipe \/ AwaitGroup \/ GroupEmpties \/ GiveUpOnGroup \/ DrainCaptureFile

Next ==
  \/ Proceed \/ TimeoutFires \/ GraceEnds \/ SurvivorGraceEnds
  \/ Abort \/ ProcessStep \/ \E m \in Members : KilledDies(m)

Spec == Init /\ [][Next]_vars

\* Awaited calls come back, timers fire and a killed process dies; no process
\* has to end on its own.
Fairness ==
  /\ WF_vars(Proceed)
  /\ WF_vars(TimeoutFires) /\ WF_vars(GraceEnds) /\ WF_vars(SurvivorGraceEnds)
  /\ \A m \in Members : WF_vars(KilledDies(m))

FairSpec == Spec /\ Fairness

-----------------------------------------------------------------------------
(* What the call must guarantee.                                           *)

\* The first of the child's exit, the time limit and the cancellation decides
\* how the call ended, however the callbacks of the others race in behind it
\* (beginTermination and the exit handler).
FirstCauseStands == [][exited \/ cause # "none" => UNCHANGED cause]_vars

\* A capture that a signal of the call may have cut short never passes for a
\* whole one, whichever of the three SIGKILLs or the SIGTERM it was, and
\* whether the stream was a pipe or a file (signalGroup, the polling loop).
CutShortIsMarked == stage = "completed" => cut \subseteq incomplete

\* When the call returns no member of the group is left running, also none
\* that ignores SIGTERM or was started after the child's exit.
NoSurvivor == stage = "completed" => \A m \in Members \ escaped : proc[m] # "alive"

\* When the call returns nothing of it is left behind: no timer that would
\* signal a process group whose number another one may have by then, no
\* listener, no open capture file.
NothingLeftBehind ==
  stage \in Over => timers = {} /\ ~listening /\ file # "open"

\* process.ts:167: "On timeout or cancellation the whole group receives SIGTERM,
\* then SIGKILL after `terminationGraceMs`." While the child runs under an
\* aborted signal, its termination has begun.
CancellationTerminates ==
  aborted /\ proc[Child] = "alive" /\ stage \notin Over => cause # "none" \/ exited

\* The call returns whatever its processes do: they may ignore SIGTERM, start
\* others, and keep the pipes open for ever. Only a descendant that leaves the
\* process group and so escapes the signals can hold it up.
Returns == <>(stage \in Over \/ escaped # {})
=============================================================================
