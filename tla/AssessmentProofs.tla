--------------------------- MODULE AssessmentProofs ---------------------------
(***************************************************************************)
(* Proofs about the commands on a finished run, for any number of cases,   *)
(* checks and commands: what the lock and the commit keep, whatever        *)
(* commands overlap, and what a rebuild leaves behind.                     *)
(***************************************************************************)
EXTENDS Assessment, TLAPS

\* A rebuild stores a case it has read.
StoreReady ==
  \A p \in Commands : pc[p] = "store" => collected[p][at[p]] \in Artifacts

\* A wizard decides only about the checks it may assess.
DecidesAssessable ==
  \A p \in Assessors : \A k \in Checks : decision[p][k] # "none" => k \in Assessable[Target[p]]

\* What is about to be committed was built from the assessment as it still is.
CommitReady ==
  \A p \in Assessors : pc[p] = "commit" =>
    /\ next[p] = BuildNextAssessment(p, assessment[Target[p]])
    /\ ValidateAssessmentInput(p, assessment[Target[p]].current)

\* assess never writes summary.md.
KeepsSummary == \A p \in Assessors : pc[p] # "summary"

InLock(p) == pc[p] \in Holding \cup {"lock-left"}

TypeInv == TypeOK /\ StoreReady
LockInv == LockAccounted /\ KeepsSummary
IInv == TypeInv /\ LockInv /\ DecidesAssessable /\ CommitReady

-----------------------------------------------------------------------------
(* The artifacts are well typed.                                           *)

LEMMA NoArtifactType == NoArtifact \in Artifacts
  BY DEF NoArtifact, Artifacts

LEMMA ShownType ==
  ASSUME NEW c \in Cases, NEW k \in Checks, NEW a \in Artifacts
  PROVE  Shown(c, k, a.current) \in
           [verdict : {"passed", "failed", "pending"}, by : Assessors \cup {"grader"}]
  BY AssessmentAssumption DEF Shown, Artifacts, Records

LEMMA CaseResultType ==
  ASSUME NEW c \in Cases, NEW a \in Artifacts
  PROVE  CaseResult(c, a) \in CaseResults
<1>1. CurrentVerdicts(c, a) \in
        [Checks -> [verdict : {"passed", "failed", "pending"}, by : Assessors \cup {"grader"}]]
  BY ShownType DEF CurrentVerdicts
<1>2. ReduceRequiredOutcome(CurrentVerdicts(c, a)) \in {"passed", "failed", "pending"}
  BY DEF ReduceRequiredOutcome
<1>3. (a.revision > 0) \in BOOLEAN
  OBVIOUS
<1> QED BY <1>1, <1>2, <1>3 DEF CaseResult, CaseResults

LEMMA ExitCodeType ==
  ASSUME NEW artifacts, NEW cancelled
  PROVE  RunResult(artifacts, cancelled).exitCode \in {0, 1, 2, 130}
  BY DEF RunResult, ReduceRunExitCode

LEMMA BuildNextType ==
  ASSUME NEW p \in Assessors, NEW a \in Artifacts, TypeOK
  PROVE  BuildNextAssessment(p, a) \in Artifacts
<1> DEFINE decided == {k \in Checks : decision[p][k] # "none"}
           prior(k) == Shown(Target[p], k, a.current)
           fresh == [k \in Checks |-> IF k \in decided THEN [verdict |-> decision[p][k], by |-> p]
                                      ELSE a.current[k]]
           moved == {[check |-> k, verdict |-> prior(k).verdict, by |-> prior(k).by,
                      replacedBy |-> p] : k \in {d \in decided : prior(d).verdict # "pending"}}
<1>1. Target[p] \in Cases
  BY AssessmentAssumption
<1>2. fresh \in [Checks -> Records \cup {NoRecord}]
  BY DEF TypeOK, Records, Artifacts
<1>3. moved \subseteq Entries
  <2> SUFFICES ASSUME NEW k \in decided, prior(k).verdict # "pending"
               PROVE  [check |-> k, verdict |-> prior(k).verdict, by |-> prior(k).by,
                       replacedBy |-> p] \in Entries
    OBVIOUS
  <2>1. prior(k) \in [verdict : {"passed", "failed", "pending"}, by : Assessors \cup {"grader"}]
    BY <1>1, ShownType
  <2> QED BY <2>1 DEF Entries
<1>4. a.revision + 1 \in Nat /\ a.history \subseteq Entries
  BY DEF Artifacts
<1>5. BuildNextAssessment(p, a)
        = [revision |-> a.revision + 1, current |-> fresh, history |-> a.history \cup moved]
  BY DEF BuildNextAssessment
<1> HIDE DEF fresh, moved
<1> QED BY <1>2, <1>3, <1>4, <1>5 DEF Artifacts

-----------------------------------------------------------------------------
(* Every step keeps the types.                                             *)

Calls == {"idle", "ask", "lock"} \cup Holding \cup Over

LEMMA CallsOfTypeOK == TypeOK => pc \in [Commands -> Calls]
  BY DEF TypeOK, Calls

LEMMA EndKeepsTypes ==
  ASSUME TypeInv, NEW p \in Commands, NEW how \in Over, End(p, how),
         UNCHANGED assessment, results' = results, run'.exitCode \in {0, 1, 2, 130},
         lock' \in [Cases -> BOOLEAN]
  PROVE  TypeInv'
<1>1. pc' \in [Commands -> Calls] /\ at' \in [Commands -> Cases]
  BY CallsOfTypeOK, AssessmentAssumption DEF TypeInv, TypeOK, End, Goto, Calls, Cases
<1>2. /\ seen' \in [Assessors -> [Checks -> Records \cup {NoRecord}]]
      /\ decision' \in [Assessors -> [Checks -> {"none", "passed", "failed"}]]
  BY DEF TypeInv, TypeOK, End, NoArtifact, Undecided
<1>3. next' \in [Assessors -> Artifacts]
  BY NoArtifactType DEF TypeInv, TypeOK, End
<1>4. collected' \in [Commands -> [Cases -> Artifacts \cup {NoFile}]]
  BY DEF TypeInv, TypeOK, End, NothingCollected
<1>5. TypeOK'
  BY <1>1, <1>2, <1>3, <1>4 DEF TypeInv, TypeOK, Calls
<1>6. StoreReady'
  BY DEF TypeInv, TypeOK, StoreReady, End, Goto, Over
<1> QED BY <1>5, <1>6 DEF TypeInv

LEMMA GotoKeepsTypes ==
  ASSUME TypeInv, NEW p \in Commands, NEW call \in Calls, Goto(p, call),
         UNCHANGED <<seen, decision, next, at, collected>>, call # "store",
         assessment' \in [Cases -> Artifacts], results' \in [Cases -> CaseResults],
         run'.exitCode \in {0, 1, 2, 130}, lock' \in [Cases -> BOOLEAN]
  PROVE  TypeInv'
<1>1. pc' \in [Commands -> Calls]
  BY CallsOfTypeOK DEF TypeInv, Goto
<1>2. TypeOK'
  BY <1>1 DEF TypeInv, TypeOK, Calls
<1>3. StoreReady'
  BY DEF TypeInv, TypeOK, StoreReady, Goto
<1> QED BY <1>2, <1>3 DEF TypeInv

LEMMA AssessKeepsTypes ==
  ASSUME TypeInv, NEW p \in Assessors, AssessCase(p)
  PROVE  TypeInv'
<1> USE DEF derivedVars, rebuildVars, assessVars
<1>1. p \in Commands /\ Target[p] \in Cases
  BY AssessmentAssumption DEF Commands
<1>2. TypeOK /\ run.exitCode \in {0, 1, 2, 130} /\ lock \in [Cases -> BOOLEAN]
      /\ assessment \in [Cases -> Artifacts] /\ results \in [Cases -> CaseResults]
  BY DEF TypeInv, TypeOK
<1>3. CASE ReadAssessmentContext(p)
  <2>1. seen' \in [Assessors -> [Checks -> Records \cup {NoRecord}]]
    BY <1>1, <1>2, <1>3 DEF ReadAssessmentContext, TypeOK, Artifacts
  <2>2. pc' \in [Commands -> Calls]
    BY <1>2, <1>3, CallsOfTypeOK DEF ReadAssessmentContext, Goto, Calls
  <2>3. TypeOK'
    BY <1>2, <1>3, <2>1, <2>2 DEF ReadAssessmentContext, TypeOK, Calls
  <2>4. StoreReady'
    BY <1>2, <1>3 DEF ReadAssessmentContext, TypeInv, TypeOK, StoreReady, Goto
  <2> QED BY <2>3, <2>4 DEF TypeInv
<1>4. CASE RunAssessmentWizard(p)
  <2>1. decision' \in [Assessors -> [Checks -> {"none", "passed", "failed"}]]
    BY <1>2, <1>4 DEF RunAssessmentWizard, TypeOK
  <2>2. pc' \in [Commands -> Calls]
    BY <1>2, <1>4, CallsOfTypeOK DEF RunAssessmentWizard, Goto, Calls
  <2>3. TypeOK'
    BY <1>2, <1>4, <2>1, <2>2 DEF RunAssessmentWizard, TypeOK, Calls
  <2>4. StoreReady'
    BY <1>2, <1>4 DEF RunAssessmentWizard, TypeInv, TypeOK, StoreReady, Goto
  <2> QED BY <2>3, <2>4 DEF TypeInv
<1>5. CASE AcquireAssessmentLock(p)
  BY <1>1, <1>2, <1>5, GotoKeepsTypes DEF AcquireAssessmentLock, Calls, Holding
<1>6. CASE RefuseAssessment(p)
  BY <1>1, <1>2, <1>6, EndKeepsTypes DEF RefuseAssessment, Refused, Over
<1>7. CASE ReadAssessment(p)
  <2>1. next' \in [Assessors -> Artifacts]
    <3>1. BuildNextAssessment(p, assessment[Target[p]]) \in Artifacts
      BY <1>1, <1>2, BuildNextType
    <3>2. next \in [Assessors -> Artifacts]
      BY <1>2 DEF TypeOK
    <3> QED BY <1>7, <3>1, <3>2 DEF ReadAssessment
  <2>2. pc' \in [Commands -> Calls]
    BY <1>2, <1>7, CallsOfTypeOK DEF ReadAssessment, Goto, Calls, Holding
  <2>3. TypeOK'
    BY <1>2, <1>7, <2>1, <2>2 DEF ReadAssessment, TypeOK, Calls
  <2>4. StoreReady'
    BY <1>2, <1>7 DEF ReadAssessment, TypeInv, TypeOK, StoreReady, Goto
  <2> QED BY <2>3, <2>4 DEF TypeInv
<1>8. CASE ReplaceAssessment(p)
  <2>1. assessment' \in [Cases -> Artifacts]
    BY <1>2, <1>8 DEF ReplaceAssessment, TypeOK
  <2> QED BY <1>1, <1>2, <1>8, <2>1, GotoKeepsTypes DEF ReplaceAssessment, Calls, Holding, Rebuilding
<1>9. CASE GiveUp(p)
  BY <1>1, <1>2, <1>9, GotoKeepsTypes DEF GiveUp, Calls, Holding
<1>10. CASE Release(p)
  BY <1>1, <1>2, <1>10, EndKeepsTypes DEF Release, Over
<1>11. CASE LeaveLock(p)
  BY <1>1, <1>2, <1>11, EndKeepsTypes DEF LeaveLock, Over
<1> QED BY <1>3, <1>4, <1>5, <1>6, <1>7, <1>8, <1>9, <1>10, <1>11 DEF AssessCase
LEMMA RebuildKeepsTypes ==
  ASSUME TypeInv, NEW p \in Commands, Rebuild(p)
  PROVE  TypeInv'
<1> USE DEF derivedVars, rebuildVars, assessVars
<1>1. TypeOK /\ run.exitCode \in {0, 1, 2, 130} /\ lock \in [Cases -> BOOLEAN]
      /\ assessment \in [Cases -> Artifacts] /\ results \in [Cases -> CaseResults]
  BY DEF TypeInv, TypeOK
<1>2. at[p] \in Cases
  BY DEF TypeInv, TypeOK
<1> USE DEF Calls, Holding, Rebuilding
<1>3. CASE RebuildCaseResult(p)
  <2>1. collected' \in [Commands -> [Cases -> Artifacts \cup {NoFile}]]
    BY <1>1, <1>2, <1>3 DEF RebuildCaseResult, TypeOK
  <2>2. pc' \in [Commands -> Calls]
    BY <1>1, <1>3, CallsOfTypeOK DEF RebuildCaseResult, Goto
  <2>3. TypeOK'
    BY <1>1, <1>3, <2>1, <2>2 DEF RebuildCaseResult, TypeOK
  <2>4. collected'[p][at[p]] \in Artifacts
    BY <1>1, <1>2, <1>3 DEF RebuildCaseResult, TypeOK
  <2>5. StoreReady'
    BY <1>1, <1>3, <2>4 DEF RebuildCaseResult, TypeInv, TypeOK, StoreReady, Goto
  <2> QED BY <2>3, <2>5 DEF TypeInv
<1>4. CASE ReplaceCaseResult(p)
  <2>1. collected[p][at[p]] \in Artifacts
    BY <1>4 DEF TypeInv, StoreReady, ReplaceCaseResult
  <2>2. results' \in [Cases -> CaseResults]
    BY <1>1, <1>2, <1>4, <2>1, CaseResultType DEF ReplaceCaseResult
  <2>3. at' \in [Commands -> Cases]
    BY <1>1, <1>2, <1>4, AssessmentAssumption DEF ReplaceCaseResult, TypeOK, Cases
  <2>4. pc' \in [Commands -> Calls] /\ pc'[p] # "store" /\ \A q \in Commands \ {p} : pc'[q] = pc[q]
    BY <1>1, <1>4, CallsOfTypeOK DEF ReplaceCaseResult, Goto
  <2>5. TypeOK'
    BY <1>1, <1>4, <2>2, <2>3, <2>4 DEF ReplaceCaseResult, TypeOK
  <2>6. \A q \in Commands \ {p} : at'[q] = at[q]
    BY <1>1, <1>4 DEF ReplaceCaseResult, TypeOK
  <2>7. collected' = collected
    BY <1>4 DEF ReplaceCaseResult
  <2>8. StoreReady'
    BY <2>4, <2>6, <2>7 DEF TypeInv, StoreReady
  <2> QED BY <2>5, <2>8 DEF TypeInv
<1>5. CASE FinalizeRun(p)
  <2>1. run'.exitCode \in {0, 1, 2, 130}
    BY <1>5, ExitCodeType DEF FinalizeRun
  <2> QED BY <1>1, <1>5, <2>1, GotoKeepsTypes DEF FinalizeRun
<1>6. CASE WriteTaskConclusions(p)
  BY <1>1, <1>6, GotoKeepsTypes DEF WriteTaskConclusions
<1>7. CASE ReadConclusions(p)
  BY <1>1, <1>7, GotoKeepsTypes DEF ReadConclusions
<1>8. CASE WriteNormalizedRun(p)
  BY <1>1, <1>8, GotoKeepsTypes DEF WriteNormalizedRun
<1>9. CASE WriteReport(p)
  <2> DEFINE call == IF p \in Assessors THEN "release" ELSE "summary"
  <2>1. call \in Calls /\ call # "store"
    OBVIOUS
  <2> QED BY <1>1, <1>9, <2>1, GotoKeepsTypes DEF WriteReport
<1>10. CASE WriteSummary(p)
  BY <1>1, <1>10, EndKeepsTypes DEF WriteSummary, Over
<1> QED BY <1>3, <1>4, <1>5, <1>6, <1>7, <1>8, <1>9, <1>10 DEF Rebuild

LEMMA OthersKeepTypes ==
  ASSUME TypeInv,
         \/ \E p \in Reporters : StartReport(p)
         \/ \E p \in Commands : Stop(p)
         \/ \E c \in Cases : RemoveStaleLock(c)
         \/ UNCHANGED vars
  PROVE  TypeInv'
<1> USE DEF derivedVars, rebuildVars, assessVars
<1>1. TypeOK /\ run.exitCode \in {0, 1, 2, 130} /\ lock \in [Cases -> BOOLEAN]
      /\ assessment \in [Cases -> Artifacts] /\ results \in [Cases -> CaseResults]
  BY DEF TypeInv, TypeOK
<1>2. ASSUME NEW p \in Reporters, StartReport(p)
      PROVE  TypeInv'
  BY <1>1, <1>2, GotoKeepsTypes DEF StartReport, Commands, Calls, Holding, Rebuilding
<1>3. ASSUME NEW p \in Commands, Stop(p)
      PROVE  TypeInv'
  BY <1>1, <1>3, EndKeepsTypes DEF Stop, Refused, Over
<1>4. ASSUME NEW c \in Cases, RemoveStaleLock(c)
      PROVE  TypeInv'
  <2>1. lock' \in [Cases -> BOOLEAN]
    BY <1>1, <1>4 DEF RemoveStaleLock
  <2>2. pc' \in [Commands -> Calls] /\ \A p \in Commands : pc'[p] \in {pc[p], "error"}
    BY <1>1, <1>4, CallsOfTypeOK DEF RemoveStaleLock, Calls, Over
  <2>3. TypeOK'
    BY <1>4, <2>1, <2>2 DEF TypeInv, TypeOK, RemoveStaleLock, Calls
  <2>4. StoreReady'
    BY <1>4, <2>2 DEF TypeInv, StoreReady, RemoveStaleLock
  <2> QED BY <2>3, <2>4 DEF TypeInv
<1>5. CASE UNCHANGED vars
  BY <1>5 DEF vars, TypeInv, TypeOK, StoreReady
<1> QED BY <1>2, <1>3, <1>4, <1>5

LEMMA InitTypes == Init => TypeInv
<1> SUFFICES ASSUME Init PROVE TypeInv
  OBVIOUS
<1>1. assessment \in [Cases -> Artifacts] /\ next \in [Assessors -> Artifacts]
  BY NoArtifactType DEF Init, Unassessed
<1>2. results \in [Cases -> CaseResults]
  BY NoArtifactType, CaseResultType DEF Init
<1>3. run.exitCode \in {0, 1, 2, 130}
  BY ExitCodeType DEF Init, Recorded
<1>4. seen \in [Assessors -> [Checks -> Records \cup {NoRecord}]]
  BY DEF Init, NoArtifact
<1>5. TypeOK
  BY <1>1, <1>2, <1>3, <1>4, AssessmentAssumption
  DEF Init, TypeOK, Cases, Holding, Rebuilding, Undecided, NothingCollected
<1>6. StoreReady
  BY DEF Init, StoreReady
<1> QED BY <1>5, <1>6 DEF TypeInv

LEMMA StepKeepsTypes == TypeInv /\ [Next]_vars => TypeInv'
<1> SUFFICES ASSUME TypeInv, [Next]_vars PROVE TypeInv'
  OBVIOUS
<1> QED BY AssessKeepsTypes, RebuildKeepsTypes, OthersKeepTypes DEF Next

\* Every reachable state of the commands and of the run's directory is well
\* typed: the loops, locks and revisions of assess.ts never leave their ranges.
THEOREM TypeCorrect == Spec => []TypeOK
<1>1. Init => TypeInv
  BY InitTypes
<1>2. TypeInv /\ [Next]_vars => TypeInv'
  BY StepKeepsTypes
<1>3. TypeInv => TypeOK
  BY DEF TypeInv
<1> QED BY <1>1, <1>2, <1>3, PTL DEF Spec
-----------------------------------------------------------------------------
(* The lock.                                                               *)

LEMMA LockByCommand ==
  LockAccounted <=> \A c \in Cases :
    /\ lock[c] <=> \E p \in Assessors : Target[p] = c /\ InLock(p)
    /\ \A p, q \in Assessors : Target[p] = c /\ InLock(p) /\ Target[q] = c /\ InLock(q) => p = q
<1>1. \A c \in Cases, p \in Assessors : p \in Holders(c) <=> Target[p] = c /\ InLock(p)
  BY DEF Holders, InLock
<1>2. \A c \in Cases : Holders(c) \subseteq Assessors
  BY DEF Holders
<1> QED BY <1>1, <1>2 DEF LockAccounted

\* A step that moves no assess command into or out of its lock keeps the account.
LEMMA SameHolders ==
  ASSUME LockAccounted, UNCHANGED lock, \A p \in Assessors : InLock(p)' <=> InLock(p)
  PROVE  LockAccounted'
<1>1. \A c \in Cases : Holders(c)' = Holders(c)
  BY DEF Holders, InLock
<1> QED BY <1>1 DEF LockAccounted

LEMMA AssessKeepsLock ==
  ASSUME TypeInv, LockInv, NEW p \in Assessors, AssessCase(p)
  PROVE  LockInv'
<1> USE DEF derivedVars, rebuildVars, assessVars, Holding, Rebuilding
<1>1. pc \in [Commands -> Calls] /\ p \in Commands /\ Assessors \subseteq Commands
  BY CallsOfTypeOK DEF TypeInv, Commands
<1>2. lock \in [Cases -> BOOLEAN] /\ Target[p] \in Cases
  BY AssessmentAssumption DEF TypeInv, TypeOK
<1>3. \A q \in Assessors \ {p} : pc'[q] = pc[q]
  BY <1>1 DEF AssessCase, ReadAssessmentContext, RunAssessmentWizard, AcquireAssessmentLock,
     RefuseAssessment, Refused, ReadAssessment, ReplaceAssessment, GiveUp, Release, LeaveLock, End, Goto
<1>4. pc'[p] # "summary"
  BY <1>1 DEF AssessCase, ReadAssessmentContext, RunAssessmentWizard, AcquireAssessmentLock,
     RefuseAssessment, Refused, ReadAssessment, ReplaceAssessment, GiveUp, Release, LeaveLock, End, Goto
<1>5. KeepsSummary'
  BY <1>3, <1>4 DEF LockInv, KeepsSummary
<1>6. CASE AcquireAssessmentLock(p)
  <2>1. ~lock[Target[p]] /\ lock' = [lock EXCEPT ![Target[p]] = TRUE] /\ InLock(p)'
    BY <1>1, <1>6 DEF AcquireAssessmentLock, Goto, InLock
  <2>2. \A q \in Assessors \ {p} : InLock(q)' <=> InLock(q)
    BY <1>3 DEF InLock
  <2>3. LockAccounted'
    BY <1>2, <2>1, <2>2, LockByCommand DEF LockInv, LockAccounted, Holders, InLock
  <2> QED BY <1>5, <2>3 DEF LockInv
<1>7. CASE Release(p)
  <2>1. lock' = [lock EXCEPT ![Target[p]] = FALSE] /\ InLock(p) /\ ~InLock(p)'
    BY <1>1, <1>7 DEF Release, End, Goto, InLock
  <2>2. \A q \in Assessors \ {p} : InLock(q)' <=> InLock(q)
    BY <1>3 DEF InLock
  <2>3. LockAccounted'
    BY <1>2, <2>1, <2>2, LockByCommand DEF LockInv, LockAccounted, Holders, InLock
  <2> QED BY <1>5, <2>3 DEF LockInv
<1>8. CASE ~AcquireAssessmentLock(p) /\ ~Release(p)
  <2>1. UNCHANGED lock
    BY <1>8 DEF AssessCase, ReadAssessmentContext, RunAssessmentWizard, RefuseAssessment, Refused,
       ReadAssessment, ReplaceAssessment, GiveUp, LeaveLock
  <2>2. InLock(p)' <=> InLock(p)
    BY <1>1, <1>8 DEF AssessCase, ReadAssessmentContext, RunAssessmentWizard, RefuseAssessment, Refused,
       ReadAssessment, ReplaceAssessment, GiveUp, LeaveLock, MayStart, End, Goto, InLock
  <2>3. \A q \in Assessors : InLock(q)' <=> InLock(q)
    BY <1>3, <2>2 DEF InLock
  <2> QED BY <1>5, <2>1, <2>3, SameHolders DEF LockInv
<1> QED BY <1>6, <1>7, <1>8

LEMMA RebuildKeepsLock ==
  ASSUME TypeInv, LockInv, NEW p \in Commands, Rebuild(p)
  PROVE  LockInv'
<1> USE DEF derivedVars, rebuildVars, assessVars, Holding, Rebuilding
<1>1. pc \in [Commands -> Calls] /\ Assessors \subseteq Commands
  BY CallsOfTypeOK DEF TypeInv, Commands
<1>2. UNCHANGED lock
  BY DEF Rebuild, RebuildCaseResult, ReplaceCaseResult, FinalizeRun, WriteTaskConclusions,
     ReadConclusions, WriteNormalizedRun, WriteReport, WriteSummary
<1>3. \A q \in Commands \ {p} : pc'[q] = pc[q]
  BY <1>1 DEF Rebuild, RebuildCaseResult, ReplaceCaseResult, FinalizeRun, WriteTaskConclusions,
     ReadConclusions, WriteNormalizedRun, WriteReport, WriteSummary, End, Goto
<1>4. p \in Assessors => pc[p] \in Rebuilding \ {"summary"} /\ pc'[p] \in Holding \ {"summary"}
  BY <1>1 DEF Rebuild, RebuildCaseResult, ReplaceCaseResult, FinalizeRun, WriteTaskConclusions,
     ReadConclusions, WriteNormalizedRun, WriteReport, WriteSummary, Goto, LockInv, KeepsSummary
<1>5. \A q \in Assessors : InLock(q)' <=> InLock(q)
  BY <1>1, <1>3, <1>4 DEF InLock
<1>6. KeepsSummary'
  BY <1>1, <1>3, <1>4 DEF LockInv, KeepsSummary
<1> QED BY <1>2, <1>5, <1>6, SameHolders DEF LockInv

LEMMA OthersKeepLock ==
  ASSUME TypeInv, LockInv,
         \/ \E p \in Reporters : StartReport(p)
         \/ \E p \in Commands : Stop(p)
         \/ \E c \in Cases : RemoveStaleLock(c)
         \/ UNCHANGED vars
  PROVE  LockInv'
<1> USE DEF derivedVars, rebuildVars, assessVars
<1>1. pc \in [Commands -> Calls] /\ Assessors \subseteq Commands /\ lock \in [Cases -> BOOLEAN]
  BY CallsOfTypeOK DEF TypeInv, TypeOK, Commands
<1>2. ASSUME NEW p \in Reporters, StartReport(p)
      PROVE  LockInv'
  <2>1. UNCHANGED lock /\ \A q \in Assessors : pc'[q] = pc[q]
    BY <1>1, <1>2, AssessmentAssumption DEF StartReport, Goto
  <2> QED BY <2>1, SameHolders DEF LockInv, KeepsSummary, InLock
<1>3. ASSUME NEW p \in Commands, Stop(p)
      PROVE  LockInv'
  <2>1. UNCHANGED lock /\ \A q \in Assessors : pc'[q] = pc[q]
    BY <1>1, <1>3 DEF Stop, Refused, End, Goto
  <2> QED BY <2>1, SameHolders DEF LockInv, KeepsSummary, InLock
<1>4. ASSUME NEW c \in Cases, RemoveStaleLock(c)
      PROVE  LockInv'
  <2>1. \A q \in Assessors : IF Target[q] = c /\ InLock(q) THEN pc'[q] = "error" ELSE pc'[q] = pc[q]
    BY <1>1, <1>4 DEF RemoveStaleLock, Holders, InLock
  <2>2. \A q \in Assessors : InLock(q)' <=> Target[q] # c /\ InLock(q)
    BY <2>1 DEF InLock, Holding, Rebuilding
  <2>3. lock' = [lock EXCEPT ![c] = FALSE]
    BY <1>4 DEF RemoveStaleLock
  <2>4. LockAccounted'
    BY <1>1, <2>2, <2>3, LockByCommand DEF LockInv, LockAccounted, Holders, InLock
  <2>5. KeepsSummary'
    BY <2>1 DEF LockInv, KeepsSummary
  <2> QED BY <2>4, <2>5 DEF LockInv
<1>5. CASE UNCHANGED vars
  <2>1. UNCHANGED lock /\ \A q \in Assessors : pc'[q] = pc[q]
    BY <1>5 DEF vars
  <2> QED BY <2>1, SameHolders DEF LockInv, KeepsSummary, InLock
<1> QED BY <1>2, <1>3, <1>4, <1>5

LEMMA InitLock == Init => LockInv
<1> SUFFICES ASSUME Init PROVE LockInv
  OBVIOUS
<1>1. \A p \in Assessors : pc[p] = "idle"
  BY AssessmentAssumption DEF Init, Commands
<1>2. \A c \in Cases : ~lock[c] /\ Holders(c) = {}
  BY <1>1 DEF Init, Holders, Holding, Rebuilding
<1> QED BY <1>1, <1>2 DEF LockInv, LockAccounted, KeepsSummary

\* The lock directory of a case stands for exactly one assess command, inside
\* the lock or gone without removing it, whatever fails or is killed.
THEOREM OneAssessor == Spec => []LockAccounted
<1>1. Init => TypeInv /\ LockInv
  BY InitTypes, InitLock
<1>2. TypeInv /\ LockInv /\ [Next]_vars => (TypeInv /\ LockInv)'
  BY StepKeepsTypes, AssessKeepsLock, RebuildKeepsLock, OthersKeepLock DEF Next
<1>3. LockInv => LockAccounted
  BY DEF LockInv
<1> QED BY <1>1, <1>2, <1>3, PTL DEF Spec
-----------------------------------------------------------------------------
(* The commit.                                                             *)

\* The only step that writes an assessment is the commit of a command that is ready.
LEMMA OnlyCommitWrites ==
  ASSUME [Next]_vars
  PROVE  UNCHANGED assessment \/ \E p \in Assessors : ReplaceAssessment(p)
BY DEF Next, vars, derivedVars, AssessCase, ReadAssessmentContext, RunAssessmentWizard,
   AcquireAssessmentLock, RefuseAssessment, Refused, ReadAssessment, GiveUp, Release, LeaveLock,
   Rebuild, RebuildCaseResult, ReplaceCaseResult, FinalizeRun, WriteTaskConclusions,
   ReadConclusions, WriteNormalizedRun, WriteReport, WriteSummary, StartReport, Stop, RemoveStaleLock

\* A step of one assess command leaves what the others decided and prepared.
Private(p) ==
  /\ UNCHANGED <<decision[p], seen[p], next[p]>>
  /\ pc'[p] = "commit" => pc[p] = "commit"

LEMMA StepIsPrivate ==
  ASSUME TypeInv, LockInv, [Next]_vars, NEW p \in Assessors
  PROVE  Private(p) \/ ReadAssessment(p)
           \/ (pc'[p] # "commit"
               /\ (decision'[p] = Undecided \/ decision'[p] = decision[p] \/ RunAssessmentWizard(p)))
<1> USE DEF derivedVars, rebuildVars, assessVars, Private
<1>1. pc \in [Commands -> Calls] /\ Assessors \subseteq Commands
  BY CallsOfTypeOK DEF TypeInv, Commands
<1>2. /\ decision \in [Assessors -> [Checks -> {"none", "passed", "failed"}]]
      /\ seen \in [Assessors -> [Checks -> Records \cup {NoRecord}]]
      /\ next \in [Assessors -> Artifacts]
  BY DEF TypeInv, TypeOK
<1>3. ASSUME NEW q \in Assessors, AssessCase(q), q # p
      PROVE  Private(p)
  BY <1>1, <1>2, <1>3 DEF AssessCase, ReadAssessmentContext, RunAssessmentWizard, AcquireAssessmentLock,
     RefuseAssessment, Refused, ReadAssessment, ReplaceAssessment, GiveUp, Release, LeaveLock, End, Goto
<1>4. CASE AssessCase(p)
  <2>1. CASE ReadAssessment(p)
    BY <2>1
  <2>2. CASE RunAssessmentWizard(p)
    BY <1>1, <2>2 DEF RunAssessmentWizard, Goto
  <2>3. CASE ReadAssessmentContext(p) \/ AcquireAssessmentLock(p) \/ ReplaceAssessment(p) \/ GiveUp(p)
    BY <1>1, <2>3 DEF ReadAssessmentContext, AcquireAssessmentLock, ReplaceAssessment, GiveUp, Goto
  <2>4. CASE RefuseAssessment(p) \/ Release(p) \/ LeaveLock(p)
    BY <1>1, <1>2, <2>4 DEF RefuseAssessment, Refused, Release, LeaveLock, End, Goto
  <2> QED BY <1>4, <2>1, <2>2, <2>3, <2>4 DEF AssessCase
<1>5. ASSUME NEW q \in Commands, Rebuild(q), ~WriteSummary(q)
      PROVE  Private(p)
  BY <1>1, <1>5 DEF Rebuild, RebuildCaseResult, ReplaceCaseResult, FinalizeRun, WriteTaskConclusions,
     ReadConclusions, WriteNormalizedRun, WriteReport, Goto
<1>6. ASSUME NEW q \in Commands, WriteSummary(q) \/ Stop(q)
      PROVE  Private(p)
  <2>1. q # p
    BY <1>6 DEF WriteSummary, Stop, LockInv, KeepsSummary
  <2> QED BY <1>1, <1>2, <1>6, <2>1 DEF WriteSummary, Stop, Refused, End, Goto
<1>7. ASSUME NEW q \in Reporters, StartReport(q)
      PROVE  Private(p)
  BY <1>1, <1>7 DEF StartReport, Goto
<1>8. ASSUME NEW c \in Cases, RemoveStaleLock(c)
      PROVE  Private(p)
  BY <1>1, <1>8 DEF RemoveStaleLock
<1>9. CASE UNCHANGED vars
  BY <1>9 DEF vars
<1> QED BY <1>3, <1>4, <1>5, <1>6, <1>7, <1>8, <1>9 DEF Next

LEMMA DecisionsStayAssessable ==
  ASSUME TypeInv, LockInv, DecidesAssessable, [Next]_vars
  PROVE  DecidesAssessable'
<1> SUFFICES ASSUME NEW p \in Assessors, NEW k \in Checks, decision'[p][k] # "none"
             PROVE  k \in Assessable[Target[p]]
  BY DEF DecidesAssessable
<1>1. CASE decision'[p] = decision[p]
  BY <1>1 DEF DecidesAssessable
<1>2. CASE decision'[p] = Undecided
  BY <1>2 DEF Undecided
<1>3. CASE RunAssessmentWizard(p)
  BY <1>3 DEF RunAssessmentWizard, TypeInv, TypeOK
<1>4. CASE ReadAssessment(p)
  BY <1>1, <1>4 DEF ReadAssessment
<1> QED BY <1>1, <1>2, <1>3, <1>4, StepIsPrivate DEF Private

LEMMA CommitStaysReady ==
  ASSUME TypeInv, LockInv, CommitReady, [Next]_vars
  PROVE  CommitReady'
<1> SUFFICES ASSUME NEW p \in Assessors, pc'[p] = "commit"
             PROVE  /\ next'[p] = BuildNextAssessment(p, assessment[Target[p]])'
                    /\ ValidateAssessmentInput(p, assessment[Target[p]].current)'
  BY DEF CommitReady
<1>1. Target[p] \in Cases /\ pc \in [Commands -> Calls] /\ Assessors \subseteq Commands
  BY AssessmentAssumption, CallsOfTypeOK DEF TypeInv, Commands
<1>2. CASE ReadAssessment(p)
  BY <1>2 DEF ReadAssessment, derivedVars, TypeInv, TypeOK, BuildNextAssessment,
     ValidateAssessmentInput, ReplaceExisting
<1>3. CASE Private(p)
  <2>1. /\ pc[p] = "commit"
        /\ next[p] = BuildNextAssessment(p, assessment[Target[p]])
        /\ ValidateAssessmentInput(p, assessment[Target[p]].current)
    BY <1>3 DEF Private, CommitReady
  <2>2. assessment'[Target[p]] = assessment[Target[p]]
    <3>1. ASSUME NEW q \in Assessors, ReplaceAssessment(q)
          PROVE  assessment'[Target[p]] = assessment[Target[p]]
      <4>1. q # p
        BY <1>1, <3>1 DEF ReplaceAssessment, Goto
      <4>2. InLock(p) /\ InLock(q)
        BY <2>1, <3>1 DEF ReplaceAssessment, InLock, Holding
      <4>3. Target[q] # Target[p]
        BY <1>1, <4>1, <4>2, LockByCommand DEF LockInv
      <4> QED BY <1>1, <3>1, <4>3 DEF ReplaceAssessment, TypeInv, TypeOK
    <3> QED BY <3>1, OnlyCommitWrites
  <2> QED BY <1>3, <2>1, <2>2 DEF Private, BuildNextAssessment, ValidateAssessmentInput, ReplaceExisting
<1> QED BY <1>2, <1>3, StepIsPrivate

LEMMA CommandsKeepInv == IInv /\ [Next]_vars => IInv'
BY StepKeepsTypes, AssessKeepsLock, RebuildKeepsLock, OthersKeepLock, DecisionsStayAssessable,
   CommitStaysReady DEF IInv, Next

LEMMA CommandsBegin == Init => IInv
<1> SUFFICES ASSUME Init PROVE IInv
  OBVIOUS
<1>1. TypeInv /\ LockInv
  BY InitTypes, InitLock
<1>2. DecidesAssessable
  BY DEF Init, DecidesAssessable, Undecided
<1>3. CommitReady
  BY DEF Init, CommitReady, Commands
<1> QED BY <1>1, <1>2, <1>3 DEF IInv
-----------------------------------------------------------------------------
(* What a commit does to the verdicts of its case.                         *)

\* The revision a command builds keeps every verdict of the one it was built from.
LEMMA NextKeepsVerdicts ==
  ASSUME NEW p \in Assessors, NEW a \in Artifacts, TypeOK
  PROVE  Verdicts(a) \subseteq Verdicts(BuildNextAssessment(p, a))
<1> DEFINE b == BuildNextAssessment(p, a)
           prior(k) == Shown(Target[p], k, a.current)
<1>1. a.history \subseteq b.history
  BY DEF BuildNextAssessment
<1>2. ASSUME NEW k \in Checks, a.current[k] # NoRecord
      PROVE  [check |-> k, verdict |-> a.current[k].verdict, by |-> a.current[k].by] \in Verdicts(b)
  <2>1. a.current[k] \in Records
    BY <1>2 DEF Artifacts
  <2>2. CASE decision[p][k] = "none"
    <3>1. b.current[k] = a.current[k]
      BY <2>2 DEF BuildNextAssessment
    <3> QED BY <1>2, <3>1 DEF Verdicts
  <2>3. CASE decision[p][k] # "none"
    <3>1. prior(k) = a.current[k] /\ prior(k).verdict # "pending"
      BY <1>2, <2>1 DEF Shown, Records
    <3> DEFINE e == [check |-> k, verdict |-> prior(k).verdict, by |-> prior(k).by, replacedBy |-> p]
    <3>2. e \in b.history
      BY <2>3, <3>1 DEF BuildNextAssessment
    <3>3. [check |-> e.check, verdict |-> e.verdict, by |-> e.by] \in Verdicts(b)
      BY <3>2 DEF Verdicts
    <3> QED BY <3>1, <3>3
  <2> QED BY <2>2, <2>3
<1>3. ASSUME NEW e \in a.history
      PROVE  [check |-> e.check, verdict |-> e.verdict, by |-> e.by] \in Verdicts(b)
  <2>1. e \in b.history
    BY <1>1
  <2> QED BY <2>1 DEF Verdicts
<1> SUFFICES ASSUME NEW v \in Verdicts(a) PROVE v \in Verdicts(b)
  OBVIOUS
<1>4. \/ \E k \in Checks : /\ a.current[k] # NoRecord
                           /\ v = [check |-> k, verdict |-> a.current[k].verdict, by |-> a.current[k].by]
      \/ \E e \in a.history : v = [check |-> e.check, verdict |-> e.verdict, by |-> e.by]
  BY DEF Verdicts
<1> HIDE DEF b
<1> QED BY <1>2, <1>3, <1>4

\* A revision that passed the validation moves to the history only verdicts
\* whose replacement its operator chose.
LEMMA NextReplacesChosen ==
  ASSUME NEW p \in Assessors, NEW a \in Artifacts, TypeOK, DecidesAssessable,
         ValidateAssessmentInput(p, a.current),
         NEW e \in BuildNextAssessment(p, a).history \ a.history
  PROVE  ReplaceExisting(e.replacedBy, e.check)
<1>1. PICK k \in Checks : /\ decision[p][k] # "none"
                          /\ Shown(Target[p], k, a.current).verdict # "pending"
                          /\ e.replacedBy = p /\ e.check = k
  BY DEF BuildNextAssessment
<1>2. k \in Assessable[Target[p]]
  BY <1>1 DEF DecidesAssessable
<1>3. ReplaceExisting(p, k)
  BY <1>1, <1>2 DEF ValidateAssessmentInput, ReplaceExisting
<1> QED BY <1>1, <1>3

LEMMA CommitIsBuilt ==
  ASSUME IInv, NEW p \in Assessors, ReplaceAssessment(p)
  PROVE  /\ Target[p] \in Cases /\ assessment[Target[p]] \in Artifacts
         /\ ValidateAssessmentInput(p, assessment[Target[p]].current)
         /\ assessment' = [assessment EXCEPT ![Target[p]]
                             = BuildNextAssessment(p, assessment[Target[p]])]
<1>1. Target[p] \in Cases /\ assessment \in [Cases -> Artifacts]
  BY AssessmentAssumption DEF IInv, TypeInv, TypeOK
<1>2. /\ next[p] = BuildNextAssessment(p, assessment[Target[p]])
      /\ ValidateAssessmentInput(p, assessment[Target[p]].current)
  BY DEF ReplaceAssessment, IInv, CommitReady
<1> QED BY <1>1, <1>2 DEF ReplaceAssessment

\* No committed verdict is ever lost: it stays current or is in the history,
\* however many commands assess, fail and die, and whatever they overlap with.
THEOREM NoVerdictLost == Spec => VerdictsKept
<1>1. IInv /\ [Next]_vars
        => [\A c \in Cases : Verdicts(assessment[c]) \subseteq Verdicts(assessment'[c])]_assessment
  <2> SUFFICES ASSUME IInv, [Next]_vars, NEW c \in Cases
               PROVE  Verdicts(assessment[c]) \subseteq Verdicts(assessment'[c])
    OBVIOUS
  <2>1. CASE UNCHANGED assessment
    BY <2>1
  <2>2. ASSUME NEW p \in Assessors, ReplaceAssessment(p)
        PROVE  Verdicts(assessment[c]) \subseteq Verdicts(assessment'[c])
    <3>1. CASE c = Target[p]
      <4>1. assessment'[c] = BuildNextAssessment(p, assessment[c])
        BY <2>2, <3>1, CommitIsBuilt DEF IInv, TypeInv, TypeOK
      <4> QED BY <2>2, <3>1, <4>1, CommitIsBuilt, NextKeepsVerdicts DEF IInv, TypeInv
    <3>2. CASE c # Target[p]
      <4>1. assessment'[c] = assessment[c]
        BY <2>2, <3>2 DEF ReplaceAssessment, IInv, TypeInv, TypeOK
      <4> QED BY <4>1
    <3> QED BY <3>1, <3>2
  <2> QED BY <2>1, <2>2, OnlyCommitWrites
<1> QED BY <1>1, CommandsBegin, CommandsKeepInv, PTL DEF Spec, VerdictsKept

\* A verdict is replaced only when the operator of the replacing command chose
\* to replace that check, even if it was recorded after the wizard had read it.
THEOREM NoUnaskedReplacement == Spec => ReplacementChosen
<1>1. IInv /\ [Next]_vars
        => [\A c \in Cases : \A e \in Replaced(c) : ReplaceExisting(e.replacedBy, e.check)]_assessment
  <2> SUFFICES ASSUME IInv, [Next]_vars, NEW c \in Cases, NEW e \in Replaced(c)
               PROVE  ReplaceExisting(e.replacedBy, e.check)
    OBVIOUS
  <2>1. CASE UNCHANGED assessment
    BY <2>1 DEF Replaced
  <2>2. ASSUME NEW p \in Assessors, ReplaceAssessment(p)
        PROVE  ReplaceExisting(e.replacedBy, e.check)
    <3>1. c = Target[p]
      BY <2>2 DEF Replaced, ReplaceAssessment, IInv, TypeInv, TypeOK
    <3>2. e \in BuildNextAssessment(p, assessment[c]).history \ assessment[c].history
      BY <2>2, <3>1, CommitIsBuilt DEF Replaced, IInv, TypeInv, TypeOK
    <3> QED BY <2>2, <3>1, <3>2, CommitIsBuilt, NextReplacesChosen DEF IInv, TypeInv
  <2> QED BY <2>1, <2>2, OnlyCommitWrites
<1> QED BY <1>1, CommandsBegin, CommandsKeepInv, PTL DEF Spec, ReplacementChosen
-----------------------------------------------------------------------------
(* What a rebuild leaves.                                                  *)

Finishing == {"finalize", "conclusions", "result", "report", "summary", "release"}

\* The cases whose assessment a rebuild has read, and those it has stored a result of.
ReadCases(p) == {c \in Cases : c < at[p] \/ (c = at[p] /\ pc[p] # "collect")}
StoredCases(p) == {c \in Cases : c < at[p] \/ (c = at[p] /\ pc[p] \notin {"collect", "store"})}

\* A rebuild begins at the first case and finishes when it has stored the last.
LoopInOrder ==
  \A p \in Commands :
    /\ pc[p] \notin Rebuilding \cup {"release", "give-up"} => at[p] = 1
    /\ pc[p] \in Finishing => at[p] = NumCases

\* While nobody has assessed, a rebuild reads nothing and the exit code is the run's.
RecountIsSame ==
  assessment = Unassessed =>
    /\ run.exitCode = Recorded.exitCode
    /\ \A p \in Commands : pc[p] \in Rebuilding =>
         \A c \in ReadCases(p) : collected[p][c] = NoArtifact

\* Commands that are under way together assess one case.
OneCaseShared ==
  \A p, q \in Commands : Live(p) /\ Live(q) /\ p # q =>
    p \in Assessors /\ q \in Assessors /\ Target[p] = Target[q]

\* What a rebuild read and wrote is what the saved assessments give.
Current(p) ==
  /\ pc[p] \in Rebuilding \cup {"release"} =>
       /\ \A c \in ReadCases(p) : collected[p][c] = assessment[c]
       /\ \A c \in StoredCases(p) : results[c] = CaseResult(c, assessment[c])
  /\ pc[p] \in Finishing \ {"finalize"} => run = RunResult(assessment, FALSE)
  /\ pc[p] \in {"result", "report", "summary", "release"} => saved[p] = conclusions
  /\ pc[p] \in {"report", "summary", "release"} => normalized = NormalizedRun(assessment)
  /\ pc[p] \in {"summary", "release"} => report = Report(assessment, conclusions)

RebuildsCurrent == \A p \in Commands : Current(p)

\* The conclusions a command has read are its own.
SavedFits == saved = [p \in Commands |-> saved[p]]

RebuildInv == IInv /\ SavedFits /\ LoopInOrder

-----------------------------------------------------------------------------
(* The steps of a command, seen by the files and by the rebuilds.          *)

Same(p) == at'[p] = at[p] /\ collected'[p] = collected[p] /\ saved'[p] = saved[p]
Stays(p) == pc'[p] = pc[p] /\ Same(p)

\* The files a rebuild derives, except the summary.
SameFiles == results' = results /\ run' = run /\ normalized' = normalized
               /\ report' = report /\ conclusions' = conclusions

\* A command goes on without a file, or ends.
Waits(p) ==
  /\ SameFiles /\ assessment' = assessment
  /\ \/ /\ Same(p)
        /\ pc[p] \in {"idle", "ask", "lock", "read"} /\ pc'[p] \in {"ask", "lock", "read", "commit"}
        /\ pc[p] = "idle" => MayStart(p)
     \/ Same(p) /\ Live(p) /\ pc'[p] = "give-up"
     \/ /\ at'[p] = 1 /\ pc'[p] \in Over
        /\ pc'[p] = "ok" => \/ p \in Assessors /\ pc[p] = "release"
                            \/ p \notin Assessors /\ WriteSummary(p)

\* A command begins to rebuild, with an assessment of its own or without one.
Begins(p) ==
  /\ SameFiles /\ Same(p) /\ pc'[p] = "collect"
  /\ \/ MayStart(p) /\ assessment' = assessment
     \/ p \in Assessors /\ ReplaceAssessment(p)

\* The rebuild goes on.
GoesOn(p) == assessment' = assessment /\ Rebuild(p) /\ ~WriteSummary(p)

Moves(p) == (Waits(p) \/ Begins(p) \/ GoesOn(p)) /\ \A q \in Commands \ {p} : Stays(q)

\* No file and no rebuild moves; a command whose lock was left behind and removed is over.
Settles ==
  /\ SameFiles /\ assessment' = assessment
  /\ \A q \in Commands : Same(q) /\ (pc'[q] = pc[q] \/ (pc[q] = "lock-left" /\ pc'[q] = "error"))

LEMMA CommandTypes ==
  ASSUME RebuildInv
  PROVE  /\ pc \in [Commands -> Calls] /\ at \in [Commands -> Cases]
         /\ collected \in [Commands -> [Cases -> Artifacts \cup {NoFile}]]
         /\ assessment \in [Cases -> Artifacts] /\ results \in [Cases -> CaseResults]
         /\ Assessors \subseteq Commands /\ 1 \in Cases /\ NumCases \in Cases
  BY CallsOfTypeOK, AssessmentAssumption DEF RebuildInv, IInv, TypeInv, TypeOK, Commands, Cases

\* A command that ends carries nothing on, and others do not notice.
LEMMA EndsAlone ==
  ASSUME RebuildInv, NEW p \in Commands, NEW how, End(p, how)
  PROVE  /\ pc'[p] = how /\ at'[p] = 1
         /\ \A q \in Commands \ {p} : Stays(q)
         /\ SavedFits'
  BY CommandTypes DEF RebuildInv, SavedFits, End, Goto, Stays, Same

LEMMA GoesAlone ==
  ASSUME RebuildInv, NEW p \in Commands, NEW call, Goto(p, call), UNCHANGED rebuildVars
  PROVE  /\ pc'[p] = call /\ Same(p)
         /\ \A q \in Commands \ {p} : Stays(q)
         /\ SavedFits'
  BY CommandTypes DEF RebuildInv, SavedFits, Goto, Stays, Same, rebuildVars

LEMMA AssessMoves ==
  ASSUME RebuildInv, NEW p \in Assessors, AssessCase(p)
  PROVE  Moves(p) /\ SavedFits'
<1>1. p \in Commands
  BY CommandTypes
<1>2. CASE ReadAssessmentContext(p) \/ RunAssessmentWizard(p) \/ AcquireAssessmentLock(p) \/ ReadAssessment(p)
  <2>1. /\ pc[p] \in {"idle", "ask", "lock", "read"} /\ SameFiles /\ assessment' = assessment
        /\ UNCHANGED rebuildVars
        /\ pc[p] = "idle" => MayStart(p)
        /\ \E call \in {"ask", "lock", "read", "commit"} : Goto(p, call)
    BY <1>2 DEF ReadAssessmentContext, MayStart, RunAssessmentWizard, AcquireAssessmentLock, ReadAssessment,
       SameFiles, derivedVars, rebuildVars
  <2>2. Same(p) /\ pc'[p] \in {"ask", "lock", "read", "commit"} /\ (\A q \in Commands \ {p} : Stays(q)) /\ SavedFits'
    BY <1>1, <2>1, GoesAlone
  <2>3. Waits(p)
    BY <2>1, <2>2 DEF Waits
  <2> QED BY <2>2, <2>3 DEF Moves
<1>3. CASE GiveUp(p)
  <2>1. Goto(p, "give-up") /\ UNCHANGED rebuildVars /\ SameFiles /\ assessment' = assessment /\ Live(p)
    BY <1>3 DEF GiveUp, SameFiles, derivedVars, Rebuilding, Live, Over
  <2> QED BY <1>1, <2>1, GoesAlone DEF Moves, Waits
<1>4. CASE ReplaceAssessment(p)
  <2>1. Goto(p, "collect") /\ UNCHANGED rebuildVars /\ SameFiles
    BY <1>4 DEF ReplaceAssessment, SameFiles, derivedVars
  <2> QED BY <1>1, <1>4, <2>1, GoesAlone DEF Moves, Begins
<1>5. CASE RefuseAssessment(p) \/ Release(p) \/ LeaveLock(p)
  <2>1. PICK how \in Over : End(p, how) /\ (how = "ok" => pc[p] = "release")
    BY <1>5 DEF RefuseAssessment, Refused, Release, LeaveLock, Over
  <2>2. SameFiles /\ assessment' = assessment
    BY <1>5 DEF RefuseAssessment, Refused, Release, LeaveLock, SameFiles, derivedVars
  <2>3. pc'[p] = how /\ at'[p] = 1 /\ (\A q \in Commands \ {p} : Stays(q)) /\ SavedFits'
    BY <1>1, <2>1, EndsAlone
  <2> QED BY <2>1, <2>2, <2>3 DEF Moves, Waits
<1> QED BY <1>2, <1>3, <1>4, <1>5 DEF AssessCase

LEMMA RebuildMoves ==
  ASSUME RebuildInv, NEW p \in Commands, Rebuild(p)
  PROVE  Moves(p) /\ SavedFits'
<1>1. assessment' = assessment
  BY DEF Rebuild, RebuildCaseResult, ReplaceCaseResult, FinalizeRun, WriteTaskConclusions,
     ReadConclusions, WriteNormalizedRun, WriteReport, WriteSummary
<1>2. CASE WriteSummary(p)
  <2>1. End(p, "ok") /\ SameFiles /\ p \notin Assessors
    BY <1>2 DEF WriteSummary, SameFiles, RebuildInv, IInv, LockInv, KeepsSummary
  <2>2. pc'[p] = "ok" /\ at'[p] = 1 /\ (\A q \in Commands \ {p} : Stays(q)) /\ SavedFits'
    BY <2>1, EndsAlone
  <2> QED BY <1>1, <1>2, <2>1, <2>2 DEF Moves, Waits, Over
<1>3. CASE ~WriteSummary(p)
  <2>1. /\ \A q \in Commands \ {p} : pc'[q] = pc[q] /\ at'[q] = at[q]
        /\ \A q \in Commands \ {p} : collected'[q] = collected[q]
    BY <1>3, CommandTypes DEF Rebuild, RebuildCaseResult, ReplaceCaseResult, FinalizeRun,
       WriteTaskConclusions, ReadConclusions, WriteNormalizedRun, WriteReport, Goto, rebuildVars
  <2>2. saved' = saved \/ \E value : saved' = [saved EXCEPT ![p] = value]
    BY <1>3 DEF Rebuild, RebuildCaseResult, ReplaceCaseResult, FinalizeRun,
       WriteTaskConclusions, ReadConclusions, WriteNormalizedRun, WriteReport, rebuildVars
  <2>3. SavedFits' /\ \A q \in Commands \ {p} : saved'[q] = saved[q]
    BY <2>2 DEF RebuildInv, SavedFits
  <2> QED BY <1>1, <1>3, <2>1, <2>3 DEF Moves, GoesOn, Stays, Same
<1> QED BY <1>2, <1>3

LEMMA StepMoves ==
  ASSUME RebuildInv, [Next]_vars
  PROVE  (Settles \/ \E p \in Commands : Moves(p)) /\ SavedFits'
<1>1. ASSUME NEW p \in Assessors, AssessCase(p)
      PROVE  (\E q \in Commands : Moves(q)) /\ SavedFits'
  BY <1>1, AssessMoves, CommandTypes
<1>2. ASSUME NEW p \in Commands, Rebuild(p)
      PROVE  (\E q \in Commands : Moves(q)) /\ SavedFits'
  BY <1>2, RebuildMoves
<1>3. ASSUME NEW p \in Reporters, StartReport(p)
      PROVE  (\E q \in Commands : Moves(q)) /\ SavedFits'
  <2>1. p \in Commands /\ MayStart(p) /\ Goto(p, "collect") /\ UNCHANGED rebuildVars
        /\ SameFiles /\ assessment' = assessment
    BY <1>3 DEF StartReport, SameFiles, derivedVars, Commands
  <2> QED BY <2>1, GoesAlone DEF Moves, Begins
<1>4. ASSUME NEW p \in Commands, Stop(p)
      PROVE  (\E q \in Commands : Moves(q)) /\ SavedFits'
  <2>1. End(p, "error") /\ SameFiles /\ assessment' = assessment
    BY <1>4 DEF Stop, Refused, SameFiles, derivedVars
  <2> QED BY <2>1, EndsAlone DEF Moves, Waits, Over
<1>5. ASSUME NEW c \in Cases, RemoveStaleLock(c)
      PROVE  Settles /\ SavedFits'
  <2>1. \A q \in Commands : IF q \in Holders(c) THEN pc'[q] = "error" ELSE pc'[q] = pc[q]
    BY <1>5 DEF RemoveStaleLock
  <2>2. \A q \in Holders(c) : pc[q] = "lock-left"
    BY <1>5 DEF RemoveStaleLock, Holders, Live, Holding, Rebuilding, Over
  <2> QED BY <1>5, <2>1, <2>2 DEF RemoveStaleLock, Settles, SameFiles, Same, derivedVars, rebuildVars,
             RebuildInv, SavedFits
<1>6. CASE UNCHANGED vars
  BY <1>6 DEF vars, Settles, SameFiles, Same, derivedVars, rebuildVars, RebuildInv, SavedFits
<1> QED BY <1>1, <1>2, <1>3, <1>4, <1>5, <1>6 DEF Next

-----------------------------------------------------------------------------
(* The loop over the cases.                                                *)

LEMMA LoopStaysInOrder ==
  ASSUME RebuildInv, [Next]_vars
  PROVE  LoopInOrder'
<1> SUFFICES ASSUME NEW p \in Commands
             PROVE  /\ pc'[p] \notin Rebuilding \cup {"release", "give-up"} => at'[p] = 1
                    /\ pc'[p] \in Finishing => at'[p] = NumCases
  BY DEF LoopInOrder
<1>1. /\ pc[p] \notin Rebuilding \cup {"release", "give-up"} => at[p] = 1
      /\ pc[p] \in Finishing => at[p] = NumCases
  BY DEF RebuildInv, LoopInOrder
<1>2. CASE Stays(p)
  BY <1>1, <1>2 DEF Stays, Same
<1>3. CASE Settles
  BY <1>1, <1>3 DEF Settles, Same, Rebuilding, Finishing
<1>4. CASE Waits(p)
  BY <1>1, <1>4 DEF Waits, Same, Rebuilding, Finishing, Over
<1>5. CASE Begins(p)
  BY <1>1, <1>5 DEF Begins, MayStart, ReplaceAssessment, Same, Rebuilding, Finishing
<1>6. CASE GoesOn(p)
  <2>1. CASE ReplaceCaseResult(p)
    BY <1>1, <2>1, CommandTypes, AssessmentAssumption DEF ReplaceCaseResult, Goto, Cases, Rebuilding, Finishing
  <2>2. CASE ~ReplaceCaseResult(p)
    BY <1>1, <1>6, <2>2, CommandTypes DEF GoesOn, Rebuild, RebuildCaseResult, FinalizeRun,
       WriteTaskConclusions, ReadConclusions, WriteNormalizedRun, WriteReport, Goto, rebuildVars,
       Rebuilding, Finishing
  <2> QED BY <2>1, <2>2
<1> QED BY <1>2, <1>3, <1>4, <1>5, <1>6, StepMoves DEF Moves

LEMMA RebuildKeepsInv == RebuildInv /\ [Next]_vars => RebuildInv'
<1> SUFFICES ASSUME RebuildInv, [Next]_vars PROVE RebuildInv'
  OBVIOUS
<1>1. IInv'
  BY CommandsKeepInv DEF RebuildInv
<1> QED BY <1>1, StepMoves, LoopStaysInOrder DEF RebuildInv

LEMMA RebuildBegins == Init => RebuildInv
<1> SUFFICES ASSUME Init PROVE RebuildInv
  OBVIOUS
<1>1. SavedFits
  BY DEF Init, SavedFits
<1>2. LoopInOrder
  BY DEF Init, LoopInOrder, Finishing, Rebuilding
<1> QED BY <1>1, <1>2, CommandsBegin DEF RebuildInv

-----------------------------------------------------------------------------
(* The exit code of a run that nobody assessed.                            *)

\* A run that was cancelled has a case that was.
CancellationShows == Interrupted => \E c \in Cases : Ended[c] = "cancelled"

LEMMA RecountedExitCode ==
  ASSUME CancellationShows
  PROVE  RunResult(Unassessed, FALSE).exitCode = Recorded.exitCode
BY AssessmentAssumption DEF CancellationShows, Recorded, RunResult, ReduceRunExitCode

\* A committed assessment has a revision.
LEMMA UnassessedBefore ==
  ASSUME RebuildInv, [Next]_vars, assessment' = Unassessed
  PROVE  assessment' = assessment
<1>1. ASSUME NEW p \in Assessors, ReplaceAssessment(p)
      PROVE  FALSE
  <2>1. Target[p] \in Cases /\ assessment[Target[p]] \in Artifacts
        /\ assessment'[Target[p]] = BuildNextAssessment(p, assessment[Target[p]])
    BY <1>1, CommitIsBuilt, CommandTypes DEF RebuildInv
  <2>2. assessment'[Target[p]].revision = assessment[Target[p]].revision + 1
        /\ assessment[Target[p]].revision \in Nat
    BY <2>1 DEF BuildNextAssessment, Artifacts
  <2>3. assessment'[Target[p]].revision = 0
    BY <2>1 DEF Unassessed, NoArtifact
  <2> QED BY <2>2, <2>3
<1> QED BY <1>1, OnlyCommitWrites
LEMMA RecountStaysSame ==
  ASSUME CancellationShows, RebuildInv, RecountIsSame, [Next]_vars
  PROVE  RecountIsSame'
<1> SUFFICES ASSUME assessment' = Unassessed
             PROVE  /\ run'.exitCode = Recorded.exitCode
                    /\ \A p \in Commands : pc'[p] \in Rebuilding =>
                         \A c \in ReadCases(p)' : collected'[p][c] = NoArtifact
  BY DEF RecountIsSame, Unassessed, Recorded
<1>1. /\ assessment' = assessment /\ run.exitCode = Recorded.exitCode
      /\ \A p \in Commands : pc[p] \in Rebuilding =>
           \A c \in ReadCases(p) : collected[p][c] = NoArtifact
  BY UnassessedBefore DEF RecountIsSame
<1>2. ASSUME NEW p \in Commands, Stays(p), pc'[p] \in Rebuilding, NEW c \in ReadCases(p)'
      PROVE  collected'[p][c] = NoArtifact
  BY <1>1, <1>2 DEF Stays, Same, ReadCases
<1>3. CASE Settles
  <2>1. run' = run
    BY <1>3 DEF Settles, SameFiles
  <2>2. \A p \in Commands : Stays(p) \/ pc'[p] = "error"
    BY <1>3 DEF Settles, Stays
  <2> QED BY <1>1, <1>2, <2>1, <2>2 DEF Rebuilding
<1>4. ASSUME NEW p \in Commands, Moves(p)
      PROVE  /\ run'.exitCode = Recorded.exitCode
             /\ \A q \in Commands : pc'[q] \in Rebuilding =>
                  \A c \in ReadCases(q)' : collected'[q][c] = NoArtifact
  <2>1. \A q \in Commands \ {p} : pc'[q] \in Rebuilding =>
          \A c \in ReadCases(q)' : collected'[q][c] = NoArtifact
    BY <1>2, <1>4 DEF Moves
  <2>2. CASE Waits(p)
    <3>1. run' = run /\ pc'[p] \notin Rebuilding
      BY <2>2 DEF Waits, SameFiles, Rebuilding, Over
    <3> QED BY <1>1, <2>1, <3>1
  <2>3. CASE Begins(p)
    <3>1. run' = run /\ pc'[p] = "collect" /\ at'[p] = 1
      BY <2>3 DEF Begins, SameFiles, Same, MayStart, ReplaceAssessment, RebuildInv, LoopInOrder, Rebuilding
    <3>2. ReadCases(p)' = {}
      BY <3>1, AssessmentAssumption DEF ReadCases, Cases
    <3> QED BY <1>1, <2>1, <3>1, <3>2
  <2>4. CASE GoesOn(p)
    <3>1. pc[p] \in Rebuilding
      BY <2>4 DEF GoesOn, Rebuild, RebuildCaseResult, ReplaceCaseResult, FinalizeRun, WriteTaskConclusions,
         ReadConclusions, WriteNormalizedRun, WriteReport, Rebuilding
    <3>2. \A c \in ReadCases(p) : collected[p][c] = NoArtifact
      BY <1>1, <3>1
    <3>3. CASE RebuildCaseResult(p)
      <4>1. /\ run' = run /\ pc[p] = "collect" /\ pc'[p] = "store" /\ at'[p] = at[p]
            /\ collected' = [collected EXCEPT ![p][at[p]] = NoArtifact]
        <5>1. assessment[at[p]] = NoArtifact
          BY <1>1, CommandTypes DEF Unassessed
        <5> QED BY <3>3, <5>1, CommandTypes DEF RebuildCaseResult, Goto, derivedVars
      <4>2. ReadCases(p)' = ReadCases(p) \cup {at[p]}
        BY <4>1, CommandTypes, AssessmentAssumption DEF ReadCases, Cases
      <4>3. \A c \in Cases : collected'[p][c] = IF c = at[p] THEN NoArtifact ELSE collected[p][c]
        BY <4>1, CommandTypes
      <4>4. \A c \in ReadCases(p)' : collected'[p][c] = NoArtifact
        BY <3>2, <4>2, <4>3 DEF ReadCases
      <4> QED BY <1>1, <2>1, <4>1, <4>4
    <3>4. CASE ReplaceCaseResult(p)
      <4>1. run' = run /\ collected' = collected
        BY <3>4 DEF ReplaceCaseResult
      <4>2. ReadCases(p)' \subseteq ReadCases(p)
        BY <3>4, CommandTypes, AssessmentAssumption DEF ReplaceCaseResult, Goto, ReadCases, Cases
      <4> QED BY <1>1, <2>1, <3>2, <4>1, <4>2
    <3>5. CASE FinalizeRun(p)
      <4>1. /\ at'[p] = at[p] /\ collected' = collected /\ run' = RunResult(collected[p], FALSE)
            /\ at[p] = NumCases /\ pc[p] # "collect"
        BY <3>5 DEF FinalizeRun, rebuildVars, RebuildInv, LoopInOrder, Finishing
      <4>2. ReadCases(p) = Cases /\ ReadCases(p)' \subseteq Cases
        BY <4>1, AssessmentAssumption DEF ReadCases, Cases
      <4>3. collected[p] = Unassessed
        BY <3>2, <4>2, CommandTypes DEF Unassessed
      <4>4. run'.exitCode = Recorded.exitCode
        BY <4>1, <4>3, RecountedExitCode
      <4> QED BY <2>1, <3>2, <4>1, <4>2, <4>4
    <3>6. CASE WriteTaskConclusions(p) \/ ReadConclusions(p) \/ WriteNormalizedRun(p) \/ WriteReport(p)
      <4>1. run' = run /\ collected' = collected /\ at' = at /\ pc[p] # "collect"
        BY <3>6 DEF WriteTaskConclusions, ReadConclusions, WriteNormalizedRun, WriteReport,
           derivedVars, rebuildVars
      <4>2. ReadCases(p)' \subseteq ReadCases(p)
        BY <4>1 DEF ReadCases
      <4> QED BY <1>1, <2>1, <3>2, <4>1, <4>2
    <3> QED BY <2>4, <3>3, <3>4, <3>5, <3>6 DEF GoesOn, Rebuild
  <2> QED BY <1>4, <2>2, <2>3, <2>4 DEF Moves
<1> QED BY <1>3, <1>4, StepMoves

\* Rebuilding without any assessment keeps the exit code that the run returned, however
\* many commands rebuild side by side, fail or die, in a run whose cancellation a case
\* shows (reduceRunExitCode).
THEOREM ExitCodeStays ==
  ASSUME CancellationShows
  PROVE  Spec => []ExitCodeKept
<1>1. Init => RebuildInv /\ RecountIsSame
  <2> SUFFICES ASSUME Init PROVE RecountIsSame
    BY RebuildBegins
  <2>1. \A p \in Commands : pc[p] \in Rebuilding => ReadCases(p) = {}
    BY AssessmentAssumption DEF Init, ReadCases, Rebuilding, Cases
  <2> QED BY <2>1 DEF Init, RecountIsSame
<1>2. RebuildInv /\ RecountIsSame /\ [Next]_vars => (RebuildInv /\ RecountIsSame)'
  BY RebuildKeepsInv, RecountStaysSame
<1>3. RecountIsSame => ExitCodeKept
  BY DEF RecountIsSame, ExitCodeKept
<1> QED BY <1>1, <1>2, <1>3, PTL DEF Spec
-----------------------------------------------------------------------------
(* What a command that succeeds leaves, when only assessments of one case  *)
(* are run at the same time.                                               *)

\* The operator runs nothing at the same time but assessments of one case; the run is one.
OnlyOneCaseOverlaps ==
  /\ \A p, q \in Commands : <<p, q>> \in Overlap =>
       p \in Assessors /\ q \in Assessors /\ Target[p] = Target[q]
  /\ \A p, q \in Runs : p = q

Writing(p) == pc[p] \in {"commit", "release"} \cup Rebuilding

LEMMA OneCaseStaysShared ==
  ASSUME OnlyOneCaseOverlaps, RebuildInv, OneCaseShared, [Next]_vars
  PROVE  OneCaseShared'
<1> SUFFICES ASSUME NEW p \in Commands, NEW q \in Commands, Live(p)', Live(q)', p # q
             PROVE  p \in Assessors /\ q \in Assessors /\ Target[p] = Target[q]
  BY DEF OneCaseShared
<1>1. CASE Live(p) /\ Live(q)
  BY <1>1 DEF OneCaseShared
<1>2. CASE Settles
  BY <1>1, <1>2 DEF Settles, Live, Over
<1>3. ASSUME NEW r \in Commands, Moves(r)
      PROVE  p \in Assessors /\ q \in Assessors /\ Target[p] = Target[q]
  <2>1. \A o \in Commands \ {r} : Live(o)' <=> Live(o)
    BY <1>3 DEF Moves, Stays, Live
  <2>2. Live(r)' => Live(r) \/ MayStart(r)
    <3>1. CASE Waits(r)
      BY <3>1 DEF Waits, Live, Over
    <3>2. CASE Begins(r)
      BY <3>2 DEF Begins, ReplaceAssessment, Live, Over
    <3>3. CASE GoesOn(r)
      BY <3>3 DEF GoesOn, Rebuild, RebuildCaseResult, ReplaceCaseResult, FinalizeRun, WriteTaskConclusions,
         ReadConclusions, WriteNormalizedRun, WriteReport, Live, Over
    <3> QED BY <1>3, <3>1, <3>2, <3>3 DEF Moves
  <2>3. MayStart(r) => \A o \in Commands : Live(o) => <<r, o>> \in Overlap
    BY DEF MayStart
  <2> QED BY <1>1, <2>1, <2>2, <2>3 DEF OnlyOneCaseOverlaps
<1> QED BY <1>2, <1>3, StepMoves

\* The lock of the one case lets one command write.
LEMMA OneCommandWrites ==
  ASSUME RebuildInv, OneCaseShared, NEW p \in Commands, NEW q \in Commands, Writing(p), Writing(q)
  PROVE  p = q
<1> SUFFICES ASSUME p # q PROVE FALSE
  OBVIOUS
<1>1. Live(p) /\ Live(q)
  BY DEF Writing, Live, Over, Rebuilding
<1>2. p \in Assessors /\ q \in Assessors /\ Target[p] = Target[q]
  BY <1>1 DEF OneCaseShared
<1>3. InLock(p) /\ InLock(q)
  BY DEF Writing, InLock, Holding
<1>4. Target[p] \in Cases
  BY <1>2, AssessmentAssumption
<1> QED BY <1>2, <1>3, <1>4, LockByCommand DEF RebuildInv, IInv, LockInv

LEMMA RestIsCurrent ==
  ASSUME NEW p \in Commands
  PROVE  /\ ~Writing(p) => Current(p)
         /\ ~Writing(p)' => Current(p)'
         /\ Current(p) /\ Stays(p) /\ SameFiles /\ assessment' = assessment => Current(p)'
<1>1. ~Writing(p) => Current(p)
  BY DEF Writing, Current, Finishing, Rebuilding
<1>2. ~Writing(p)' => Current(p)'
  BY DEF Writing, Current, Finishing, Rebuilding
<1>3. Current(p) /\ Stays(p) /\ SameFiles /\ assessment' = assessment => Current(p)'
  BY DEF Current, Stays, Same, SameFiles, ReadCases, StoredCases
<1> QED BY <1>1, <1>2, <1>3

\* What a rebuild has read when its loop is over is what is saved.
LEMMA AllRead ==
  ASSUME RebuildInv, NEW p \in Commands, Current(p), pc[p] \in Finishing
  PROVE  /\ StoredCases(p) = Cases
         /\ \A c \in Cases : results[c] = CaseResult(c, assessment[c])
         /\ collected[p] = assessment
<1>1. at[p] = NumCases /\ pc[p] \notin {"collect", "store"}
  BY DEF RebuildInv, LoopInOrder, Finishing
<1>2. StoredCases(p) = Cases /\ ReadCases(p) = Cases
  BY <1>1, AssessmentAssumption DEF StoredCases, ReadCases, Cases
<1>3. pc[p] \in Rebuilding \cup {"release"}
  BY DEF Finishing, Rebuilding
<1>4. /\ \A c \in Cases : collected[p][c] = assessment[c]
      /\ \A c \in Cases : results[c] = CaseResult(c, assessment[c])
  BY <1>2, <1>3 DEF Current
<1>5. collected[p] = assessment
  BY <1>4, CommandTypes
<1> QED BY <1>2, <1>4, <1>5

\* A step of the rebuild keeps what is behind it current and adds its own file.
LEMMA GoingOnKeepsCurrent ==
  ASSUME RebuildInv, NEW p \in Commands, Current(p), GoesOn(p)
  PROVE  Current(p)'
<1>1. /\ pc[p] \in Rebuilding /\ assessment' = assessment
      /\ at[p] \in Cases /\ at \in [Commands -> Cases] /\ pc \in [Commands -> Calls]
  BY CommandTypes DEF GoesOn, Rebuild, RebuildCaseResult, ReplaceCaseResult, FinalizeRun, WriteTaskConclusions,
     ReadConclusions, WriteNormalizedRun, WriteReport, Rebuilding
<1>2. /\ \A c \in ReadCases(p) : collected[p][c] = assessment[c]
      /\ \A c \in StoredCases(p) : results[c] = CaseResult(c, assessment[c])
  BY <1>1 DEF Current
<1>3. CASE RebuildCaseResult(p)
  <2>1. /\ pc[p] = "collect" /\ pc'[p] = "store" /\ at'[p] = at[p] /\ results' = results
        /\ collected' = [collected EXCEPT ![p][at[p]] = assessment[at[p]]]
    BY <1>1, <1>3 DEF RebuildCaseResult, Goto, derivedVars
  <2>2. ReadCases(p)' = ReadCases(p) \cup {at[p]} /\ StoredCases(p)' = StoredCases(p)
    BY <1>1, <2>1, AssessmentAssumption DEF ReadCases, StoredCases, Cases
  <2>3. \A c \in Cases : collected'[p][c] = IF c = at[p] THEN assessment[c] ELSE collected[p][c]
    BY <2>1, CommandTypes
  <2>4. \A c \in ReadCases(p)' : collected'[p][c] = assessment'[c]
    BY <1>1, <1>2, <2>2, <2>3 DEF ReadCases
  <2>5. \A c \in StoredCases(p)' : results'[c] = CaseResult(c, assessment'[c])
    BY <1>1, <1>2, <2>1, <2>2
  <2> QED BY <2>1, <2>4, <2>5 DEF Current, Finishing
<1>4. CASE ReplaceCaseResult(p)
  <2>1. /\ pc[p] = "store" /\ collected' = collected
        /\ results' = [results EXCEPT ![at[p]] = CaseResult(at[p], collected[p][at[p]])]
        /\ IF at[p] < NumCases THEN at'[p] = at[p] + 1 /\ pc'[p] = "collect"
           ELSE at'[p] = at[p] /\ pc'[p] = "finalize"
    BY <1>1, <1>4 DEF ReplaceCaseResult, Goto
  <2>2. at[p] \in ReadCases(p) /\ collected[p][at[p]] = assessment[at[p]]
    BY <1>1, <1>2, <2>1 DEF ReadCases
  <2>3. ReadCases(p)' \subseteq ReadCases(p) /\ StoredCases(p)' \subseteq StoredCases(p) \cup {at[p]}
    BY <1>1, <2>1, AssessmentAssumption DEF ReadCases, StoredCases, Cases
  <2>4. \A c \in ReadCases(p)' : collected'[p][c] = assessment'[c]
    BY <1>1, <1>2, <2>1, <2>3
  <2>5. ASSUME NEW c \in StoredCases(p)'
        PROVE  results'[c] = CaseResult(c, assessment'[c])
    <3>1. c \in Cases /\ results'[c] = IF c = at[p] THEN CaseResult(c, collected[p][c]) ELSE results[c]
      BY <2>1, CommandTypes DEF StoredCases
    <3> QED BY <1>1, <1>2, <2>2, <2>3, <3>1
  <2>6. pc'[p] \in {"collect", "finalize"}
    BY <2>1
  <2> QED BY <2>4, <2>5, <2>6 DEF Current, Finishing
<1>5. CASE FinalizeRun(p) \/ WriteTaskConclusions(p) \/ ReadConclusions(p) \/ WriteNormalizedRun(p) \/ WriteReport(p)
  <2>1. /\ pc[p] \in Finishing /\ pc'[p] \in Finishing \ {"finalize"}
        /\ at' = at /\ collected' = collected /\ results' = results
    BY <1>1, <1>5 DEF FinalizeRun, WriteTaskConclusions, ReadConclusions, WriteNormalizedRun, WriteReport,
       Goto, derivedVars, rebuildVars, Finishing
  <2>2. (\A c \in Cases : results[c] = CaseResult(c, assessment[c])) /\ collected[p] = assessment
    BY <2>1, AllRead
  <2>3. /\ \A c \in ReadCases(p)' : collected'[p][c] = assessment'[c]
        /\ \A c \in StoredCases(p)' : results'[c] = CaseResult(c, assessment'[c])
    BY <1>1, <2>1, <2>2 DEF ReadCases, StoredCases
  <2>4. run' = RunResult(assessment', FALSE)
    BY <1>1, <1>5, <2>2 DEF FinalizeRun, WriteTaskConclusions, ReadConclusions, WriteNormalizedRun, WriteReport,
       derivedVars, Current, Finishing
  <2>5. pc'[p] # "conclusions" => saved'[p] = conclusions'
    <3>1. CASE FinalizeRun(p)
      BY <1>1, <3>1 DEF FinalizeRun, Goto
    <3>2. CASE WriteTaskConclusions(p) \/ ReadConclusions(p)
      BY <3>2 DEF WriteTaskConclusions, ReadConclusions, derivedVars, RebuildInv, SavedFits
    <3>3. CASE WriteNormalizedRun(p) \/ WriteReport(p)
      BY <3>3 DEF WriteNormalizedRun, WriteReport, rebuildVars, Current
    <3> QED BY <1>5, <3>1, <3>2, <3>3
  <2>6. pc'[p] \in {"report", "summary", "release"} => normalized' = NormalizedRun(assessment')
    <3>1. CASE WriteNormalizedRun(p)
      BY <1>1, <2>2, <3>1 DEF WriteNormalizedRun
    <3>2. CASE WriteReport(p)
      BY <1>1, <3>2 DEF WriteReport, Current
    <3>3. CASE FinalizeRun(p) \/ WriteTaskConclusions(p) \/ ReadConclusions(p)
      BY <1>1, <3>3 DEF FinalizeRun, WriteTaskConclusions, ReadConclusions, Goto
    <3> QED BY <1>5, <3>1, <3>2, <3>3
  <2>7. pc'[p] \in {"summary", "release"} => report' = Report(assessment', conclusions')
    <3>1. CASE WriteReport(p)
      BY <1>1, <2>2, <3>1 DEF WriteReport, Current
    <3>2. CASE ~WriteReport(p)
      BY <1>1, <1>5, <3>2 DEF FinalizeRun, WriteTaskConclusions, ReadConclusions, WriteNormalizedRun, Goto
    <3> QED BY <3>1, <3>2
  <2> QED BY <2>1, <2>3, <2>4, <2>5, <2>6, <2>7 DEF Current, Finishing
<1> QED BY <1>3, <1>4, <1>5 DEF GoesOn, Rebuild

LEMMA RebuildsStayCurrent ==
  ASSUME RebuildInv, OneCaseShared, RebuildsCurrent, [Next]_vars
  PROVE  RebuildsCurrent'
<1> SUFFICES ASSUME NEW p \in Commands PROVE Current(p)'
  BY DEF RebuildsCurrent
<1>1. Current(p)
  BY DEF RebuildsCurrent
<1>2. CASE Settles
  <2>1. Stays(p) \/ ~Writing(p)'
    BY <1>2 DEF Settles, Stays, Writing, Rebuilding
  <2> QED BY <1>1, <1>2, <2>1, RestIsCurrent DEF Settles
<1>3. CASE Moves(p)
  <2>1. CASE Waits(p)
    <3>1. ~Writing(p)' \/ pc'[p] = "commit"
      BY <2>1 DEF Waits, Writing, Rebuilding, Over
    <3>2. pc'[p] = "commit" => Current(p)'
      BY DEF Current, Finishing, Rebuilding
    <3> QED BY <3>1, <3>2, RestIsCurrent
  <2>2. CASE Begins(p)
    <3>1. pc'[p] = "collect" /\ at'[p] = 1
      BY <2>2 DEF Begins, Same, MayStart, ReplaceAssessment, RebuildInv, LoopInOrder, Rebuilding
    <3>2. ReadCases(p)' = {} /\ StoredCases(p)' = {}
      BY <3>1, AssessmentAssumption DEF ReadCases, StoredCases, Cases
    <3> QED BY <3>1, <3>2 DEF Current, Finishing
  <2> QED BY <1>1, <1>3, <2>1, <2>2, GoingOnKeepsCurrent DEF Moves
<1>4. ASSUME NEW q \in Commands, Moves(q), p # q
      PROVE  Current(p)'
  <2>1. Stays(p)
    BY <1>4 DEF Moves
  <2>2. CASE ~Writing(p)
    <3>1. ~Writing(p)'
      BY <2>1, <2>2 DEF Stays, Writing
    <3> QED BY <3>1, RestIsCurrent
  <2>3. CASE Writing(p)
    <3>1. ~Writing(q)
      BY <1>4, <2>3, OneCommandWrites
    <3>2. SameFiles /\ assessment' = assessment
      BY <1>4, <3>1 DEF Moves, Waits, Begins, GoesOn, ReplaceAssessment, Writing, Rebuild, RebuildCaseResult,
         ReplaceCaseResult, FinalizeRun, WriteTaskConclusions, ReadConclusions, WriteNormalizedRun,
         WriteReport, Rebuilding
    <3> QED BY <1>1, <2>1, <3>2, RestIsCurrent
  <2> QED BY <2>2, <2>3
<1> QED BY <1>2, <1>3, <1>4, StepMoves

\* Commands of which only assessments of one case overlap leave every derived file current
\* when one of them succeeds, whatever failed or died before (rebuildRunDerived).
THEOREM SuccessIsCurrent ==
  ASSUME OnlyOneCaseOverlaps
  PROVE  Spec => EndsCurrent
<1> DEFINE Inv == RebuildInv /\ OneCaseShared /\ RebuildsCurrent
<1>1. Init => Inv
  <2> SUFFICES ASSUME Init PROVE OneCaseShared /\ RebuildsCurrent
    BY RebuildBegins
  <2>1. \A p \in Commands : Live(p) => p \in Runs
    BY DEF Init, Live
  <2>2. \A p \in Commands : pc[p] \in {"idle", "collect"} /\ at[p] = 1
    BY DEF Init
  <2>3. \A p \in Commands : pc[p] = "collect" => ReadCases(p) = {} /\ StoredCases(p) = {}
    BY <2>2, AssessmentAssumption DEF ReadCases, StoredCases, Cases
  <2> QED BY <2>1, <2>2, <2>3 DEF OnlyOneCaseOverlaps, OneCaseShared, RebuildsCurrent, Current, Finishing,
             Rebuilding
<1>2. Inv /\ [Next]_vars => Inv'
  BY RebuildKeepsInv, OneCaseStaysShared, RebuildsStayCurrent
<1>3. Inv /\ [Next]_vars
        => [\A p \in Commands : pc[p] # "ok" /\ pc'[p] = "ok" /\ (\A q \in Commands \ {p} : ~Live(q))
              => Derived' /\ Rendered(p)']_pc
  <2> SUFFICES ASSUME Inv, [Next]_vars, NEW p \in Commands, pc[p] # "ok", pc'[p] = "ok"
               PROVE  Derived' /\ Rendered(p)'
    OBVIOUS
  <2>1. Waits(p)
    <3>1. ~Settles /\ ~Begins(p) /\ ~Stays(p)
      BY DEF Settles, Begins, Stays
    <3>2. ~GoesOn(p)
      BY CommandTypes DEF GoesOn, Rebuild, RebuildCaseResult, ReplaceCaseResult, FinalizeRun,
         WriteTaskConclusions, ReadConclusions, WriteNormalizedRun, WriteReport, Goto
    <3> QED BY <3>1, <3>2, StepMoves DEF Moves
  <2>2. /\ SameFiles /\ assessment' = assessment
        /\ \/ p \in Assessors /\ pc[p] = "release"
           \/ p \notin Assessors /\ WriteSummary(p)
    BY <2>1 DEF Waits
  <2>3. pc[p] \in {"summary", "release"}
    BY <2>2 DEF WriteSummary
  <2>4. Current(p) /\ pc[p] \in Finishing
    BY <2>3 DEF RebuildsCurrent, Finishing
  <2>5. /\ \A c \in Cases : results[c] = CaseResult(c, assessment[c])
        /\ collected[p] = assessment
    BY <2>4, AllRead
  <2>6. /\ run = RunResult(assessment, FALSE) /\ saved[p] = conclusions
        /\ normalized = NormalizedRun(assessment) /\ report = Report(assessment, conclusions)
    BY <2>3, <2>4 DEF Current, Finishing
  <2>7. Derived'
    BY <2>2, <2>5, <2>6 DEF Derived, SameFiles
  <2>8. Rendered(p)'
    BY <2>2, <2>5, <2>6 DEF Rendered, SameFiles, WriteSummary
  <2> QED BY <2>7, <2>8
<1> QED BY <1>1, <1>2, <1>3, PTL DEF Spec, EndsCurrent
=============================================================================
