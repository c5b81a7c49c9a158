------------------------------- MODULE ModelCalls -------------------------------
(***************************************************************************)
(* Calls of a model outside a case: each builds a private directory, makes *)
(* it an empty repository, shows that the agent is offered no tool there,  *)
(* calls the model once and removes the directory. Four callers use it:    *)
(* the grading of a case, the conclusions of a report, the drafting of     *)
(* criteria, and the validation of a configuration, which only lists the   *)
(* models and checks the tool denial.                                      *)
(***************************************************************************)
EXTENDS Integers, SequencesExt

CONSTANTS
  Jobs,     \* of the callers below
  NumTasks  \* the tasks whose conclusions are written, in order

Callers == {"grade", "conclude", "draft", "validate"}
ASSUME CallsAssumption == Jobs \subseteq Callers /\ NumTasks \in Nat \ {0}

GraderCallLimit == 3

VARIABLES
  job,
  step,     \* how far the current use of a call directory is
  purpose,  \* what the directory is for
  outcome,  \* what the use comes back with
  callDirs,     \* the call directories on disk, numbered as they are made
  made,     \* how many were made
  retained, \* the directories the caller reports as left behind
  records,  \* what the caller saves of each call or task
  aborted,  \* the command's cancellation signal
  status,   \* what the caller returns
  shown,    \* history: the directories in which every tool was shown denied
  called,   \* history: the directories in which the model was called, in order
  partial   \* history: the directories whose preparation failed

callResultVars == <<outcome, retained, records, status>>
callDiskVars == <<callDirs, made, partial>>
callHistory == <<shown, called>>
callVars == <<job, step, purpose, callResultVars, callDiskVars, aborted, callHistory>>

Outcomes == {"none", "replied", "unfinished", "tool-call", "other", "cancelled",
             "listed", "not-listed", "unsupported", "no-listing", "denied", "not-denied"}

\* The one type invariant.
CallsTypeOK ==
  /\ job \in Jobs
  /\ step \in {"asked", "probing", "ready", "made", "repository", "calling", "removing", "settled", "done"}
  /\ purpose \in {"listing", "denial", "call"}
  /\ outcome \in Outcomes
  /\ callDirs \subseteq 1..made /\ partial \subseteq 1..made
  /\ shown \subseteq 1..made /\ Range(called) \subseteq 1..made /\ Range(retained) \subseteq 1..made
  /\ Range(records) \subseteq Outcomes \cup {"template"}
  /\ aborted \in BOOLEAN
  /\ status \in {"none", "finished", "failed", "cancelled", "valid", "invalid"}

CallsInit ==
  /\ job \in Jobs
  /\ purpose = IF job \in {"draft", "validate"} THEN "listing" ELSE "call"
  /\ step = IF job = "validate" THEN "ready" ELSE "asked"
  /\ outcome = "none" /\ callDirs = {} /\ made = 0 /\ retained = <<>> /\ records = <<>>
  /\ aborted = FALSE /\ status = "none" /\ shown = {} /\ called = <<>> /\ partial = {}

\* An interrupt of the command; validation passes no signal on.
Abort ==
  /\ ~aborted /\ job # "validate" /\ status = "none"
  /\ aborted' = TRUE
  /\ UNCHANGED <<job, step, purpose, callResultVars, callDiskVars, callHistory>>

SettleUse(o) == step' = "settled" /\ outcome' = o
Return(s) == step' = "done" /\ status' = s

-----------------------------------------------------------------------------
(* One use of a call directory.                                            *)

\* callModelRole looks at the signal first, then for the role, its agent and the
\* values of its variables.
EnterCall ==
  /\ step = "asked" /\ purpose = "call"
  /\ IF aborted THEN SettleUse("cancelled")
     ELSE SettleUse("other") \/ (step' = "probing" /\ UNCHANGED outcome)
  /\ UNCHANGED <<job, purpose, retained, records, status, callDiskVars, aborted, callHistory>>

\* The agent's probe, and its providers unless the caller has them.
ProbeAgent ==
  /\ step = "probing"
  /\ \/ SettleUse("other")
     \/ IF aborted THEN SettleUse("cancelled") ELSE step' = "ready" /\ UNCHANGED outcome
  /\ UNCHANGED <<job, purpose, retained, records, status, callDiskVars, aborted, callHistory>>

\* Nothing was made, or what was made could not be completed and is removed
\* silently, which may fail.
CreateModelCallEnvironment ==
  /\ step = "ready"
  /\ \/ /\ made' = made + 1 /\ callDirs' = callDirs \cup {made'}
        /\ step' = "made" /\ UNCHANGED <<outcome, partial>>
     \/ SettleUse("other") /\ UNCHANGED callDiskVars
     \/ /\ SettleUse("other")
        /\ made' = made + 1 /\ partial' = partial \cup {made'} /\ callDirs' \in {callDirs, callDirs \cup {made'}}
  /\ UNCHANGED <<job, purpose, retained, records, status, aborted, callHistory>>

InitializeEmptyRepository ==
  /\ step = "made"
  /\ \/ step' = "repository" /\ UNCHANGED outcome
     \/ step' = "removing" /\ outcome' = "other"
  /\ UNCHANGED <<job, purpose, retained, records, status, callDiskVars, aborted, callHistory>>

\* A listing, or a probe, that an aborted signal ends did not take place.
ListModels ==
  /\ step = "repository" /\ purpose = "listing"
  /\ outcome' \in {"listed", "not-listed", "unsupported", "no-listing"} \cup IF aborted THEN {"cancelled"} ELSE {}
  /\ step' = "removing"
  /\ UNCHANGED <<job, purpose, retained, records, status, callDiskVars, aborted, callHistory>>

\* A call whose signal is aborted when its process would start ends at once.
ProbeToolDenial ==
  /\ step = "repository" /\ purpose # "listing"
  /\ \/ /\ shown' = shown \cup {made}
        /\ IF purpose = "call" /\ ~aborted
           THEN step' = "calling" /\ called' = Append(called, made) /\ UNCHANGED outcome
           ELSE /\ step' = "removing" /\ UNCHANGED called
                /\ outcome' = IF purpose = "call" THEN "cancelled" ELSE "denied"
     \/ /\ step' = "removing"
        /\ outcome' = IF purpose = "call" THEN "other" ELSE "not-denied"
        /\ UNCHANGED <<shown, called>>
     \/ /\ aborted /\ step' = "removing" /\ outcome' = "cancelled" /\ UNCHANGED <<shown, called>>
  /\ UNCHANGED <<job, purpose, retained, records, status, callDiskVars, aborted>>

CallModel ==
  /\ step = "calling"
  /\ outcome' \in {"replied", "unfinished", "tool-call", "other"} \cup IF aborted THEN {"cancelled"} ELSE {}
  /\ step' = "removing"
  /\ UNCHANGED <<job, purpose, retained, records, status, callDiskVars, aborted, callHistory>>

\* dispose; the caller adds a directory that stays to those it reports.
RemovalOf ==
  /\ step = "removing" /\ step' = "settled"
  /\ \/ callDirs' = callDirs \ {made} /\ UNCHANGED retained
     \/ retained' = Append(retained, made) /\ UNCHANGED callDirs
  /\ UNCHANGED <<job, purpose, outcome, records, status, made, partial, aborted, callHistory>>

-----------------------------------------------------------------------------
(* The callers.                                                            *)

Record(o) == records' = Append(records, o)
AskAgain == step' = "asked" /\ UNCHANGED status

\* Without a role, or with a prompt that cannot be redacted, nobody is called.
KeepPromptBack ==
  /\ step = "asked" /\ purpose = "call" /\ ~(job = "grade" /\ records # <<>>)
  /\ CASE job = "grade" -> Return("finished") /\ UNCHANGED records
       [] job = "draft" -> Return("failed") /\ UNCHANGED records
       [] job = "conclude" -> Record("template") /\ IF Len(records') = NumTasks THEN Return("finished") ELSE AskAgain
  /\ UNCHANGED <<job, purpose, outcome, retained, callDiskVars, aborted, callHistory>>

\* Mutant: a call that was cancelled forgets its directory.
GradeAfresh ==
  /\ job = "grade" /\ step = "settled"
  /\ IF outcome = "cancelled" THEN Return("cancelled") /\ UNCHANGED records
     ELSE /\ Record(outcome)
          /\ IF outcome = "unfinished" /\ Len(records') < GraderCallLimit THEN AskAgain ELSE Return("finished")
  /\ retained' = IF step' = "asked" THEN <<>> ELSE retained
  /\ UNCHANGED <<job, purpose, outcome, callDiskVars, aborted, callHistory>>

\* gradeCase repeats a call whose model stopped before it had finished.
GradeCase ==
  /\ job = "grade" /\ step = "settled"
  /\ IF outcome = "cancelled" THEN Return("cancelled") /\ UNCHANGED records
     ELSE /\ Record(outcome)
          /\ IF outcome = "unfinished" /\ Len(records') < GraderCallLimit THEN AskAgain ELSE Return("finished")
  /\ UNCHANGED <<job, purpose, outcome, retained, callDiskVars, aborted, callHistory>>

\* A reply is accepted or not. Every task after a cancelled one gets the template.
WriteTaskConclusions ==
  /\ job = "conclude" /\ step = "settled"
  /\ IF outcome = "cancelled"
     THEN /\ records' = [t \in 1..NumTasks |-> IF t \in DOMAIN records THEN records[t] ELSE "template"]
          /\ Return("finished")
     ELSE /\ Record("template") \/ (outcome = "replied" /\ Record("replied"))
          /\ IF Len(records') = NumTasks THEN Return("finished") ELSE AskAgain
  /\ UNCHANGED <<job, purpose, outcome, retained, callDiskVars, aborted, callHistory>>

\* The models are listed before anything is paid for; a listing that could not be
\* made stops nothing. A variable without a value ends the draft, and without a
\* role for the criteria there is nothing to list.
BeginDraft ==
  /\ job = "draft" /\ purpose = "listing" /\ step = "asked"
  /\ \/ aborted /\ Return("cancelled") /\ UNCHANGED <<purpose, outcome>>
     \/ /\ ~aborted
        /\ \/ Return("failed") /\ UNCHANGED <<purpose, outcome>>
           \/ step' = "ready" /\ UNCHANGED <<purpose, outcome, status>>
           \/ SettleUse("no-listing") /\ UNCHANGED <<purpose, status>>
  /\ UNCHANGED <<job, retained, records, callDiskVars, aborted, callHistory>>

\* The reference's changes are read next; only a pull request's can be cancelled.
CheckCriteriaEffort ==
  /\ job = "draft" /\ purpose = "listing" /\ step = "settled"
  /\ CASE outcome = "cancelled" -> Return("cancelled") /\ UNCHANGED purpose
       [] outcome \in {"not-listed", "unsupported"} -> Return("failed") /\ UNCHANGED purpose
       [] OTHER -> \/ Return("failed") /\ UNCHANGED purpose
                   \/ aborted /\ Return("cancelled") /\ UNCHANGED purpose
                   \/ AskAgain /\ purpose' = "call"
  /\ UNCHANGED <<job, outcome, retained, records, callDiskVars, aborted, callHistory>>

DraftCriteria ==
  /\ job = "draft" /\ purpose = "call" /\ step = "settled"
  /\ CASE outcome = "cancelled" -> Return("cancelled")
       [] outcome = "replied" -> Return("finished") \/ Return("failed")
       [] OTHER -> Return("failed")
  /\ UNCHANGED <<job, purpose, outcome, retained, records, callDiskVars, aborted, callHistory>>

\* collectModelResolutionFindings, for an agent that grades: findings of the listing
\* do not keep the tool denial from being checked.
CheckListing ==
  /\ job = "validate" /\ purpose = "listing" /\ step = "settled"
  /\ Record(outcome) /\ purpose' = "denial" /\ step' = "ready"
  /\ UNCHANGED <<job, outcome, retained, status, callDiskVars, aborted, callHistory>>

CheckToolDenial ==
  /\ job = "validate" /\ purpose = "denial" /\ step = "settled"
  /\ Record(outcome)
  /\ Return(IF records' = <<"listed", "denied">> THEN "valid" ELSE "invalid")
  /\ UNCHANGED <<job, purpose, outcome, retained, callDiskVars, aborted, callHistory>>

UseCallDirectory ==
  \/ EnterCall \/ ProbeAgent \/ CreateModelCallEnvironment \/ InitializeEmptyRepository
  \/ ListModels \/ ProbeToolDenial \/ CallModel \/ RemovalOf

CallsNext ==
  \/ Abort \/ UseCallDirectory \/ KeepPromptBack
  \/ GradeCase \/ WriteTaskConclusions
  \/ BeginDraft \/ CheckCriteriaEffort \/ DraftCriteria
  \/ CheckListing \/ CheckToolDenial

CallsSpec == CallsInit /\ [][CallsNext]_callVars

-----------------------------------------------------------------------------
\* A caller that has returned reports every call directory that is still there,
\* each once, over all its calls, retries and cancellations (but for a directory
\* that could not even be prepared); no model was called where the denial of its
\* tools had not been shown, nor twice in one directory; grading ends with the
\* first call that is not unfinished; and what was cancelled was interrupted.
CallsAccounted ==
  /\ status # "none" =>
       /\ Range(retained) = callDirs \ partial
       /\ IsInjective(retained)
       /\ Len(called) <= CASE job = "grade" -> GraderCallLimit
                           [] job = "conclude" -> NumTasks
                           [] job = "draft" -> 1
                           [] OTHER -> 0
  /\ Range(called) \subseteq shown /\ IsInjective(called)
  /\ job = "grade" /\ status = "finished" =>
       /\ \A i \in 1..(Len(records) - 1) : records[i] = "unfinished"
       /\ records # <<>> /\ Last(records) = "unfinished" => Len(records) = GraderCallLimit
  /\ job = "conclude" /\ status # "none" => Len(records) = NumTasks
  /\ status = "cancelled" => aborted
  /\ status = "valid" => shown # {}
=============================================================================
