------------------------ MODULE ManagedProcessProofs ------------------------
(***************************************************************************)
(* Proofs about runManagedProcess for any set of processes the child may   *)
(* start, whether or not some of them leave its process group.             *)
(***************************************************************************)
EXTENDS ManagedProcess, TLAPS

\* Before the launch there is nothing to clean up.
Unlaunched ==
  stage \in {"called", "preparing"} =>
    ended = {} /\ ~exited /\ ~killSent /\ timers = {} /\ ~listening /\ file = "none"

\* The last await of a call with a file has nothing left but the file.
Cleared ==
  /\ file # "none" \/ stage \in {"polling", "draining"} => target = "file"
  /\ stage = "draining" => timers = {} /\ ~listening
  /\ NothingLeftBehind

\* Only running processes hold a stream open, and the child is the first of them.
Live ==
  /\ \A s \in Outputs : \A m \in writers[s] : proc[m] \in {"alive", "killed"}
  /\ proc[Child] = "unborn" => \A m \in Members : proc[m] = "unborn"
  /\ exited => proc[Child] = "gone"

\* No member of the group writes to a stream whose end was seen, and once the
\* survivors are sent SIGKILL the streams they leave open are marked.
Captured ==
  /\ cut \subseteq incomplete
  /\ \A s \in ended : writers[s] \subseteq escaped
  /\ killSent /\ Group # {} => Outputs \ ended \subseteq incomplete

\* The final SIGKILL comes before the capture file is read.
Quieted ==
  stage \in {"draining", "completed"} => \A m \in Members \ escaped : proc[m] # "alive"

CallInv == TypeOK /\ Unlaunched /\ Cleared
GroupInv == Live /\ Captured /\ Quieted
IInv == CallInv /\ GroupInv

TimerSteps == TimeoutFires \/ GraceEnds \/ SurvivorGraceEnds

\* The steps of the call that signal nobody.
PlainSteps ==
  \/ ExitSeen \/ \E s \in Outputs : EndSeen(s)
  \/ AwaitGroup \/ GroupEmpties \/ DrainCaptureFile

KillSteps == SettlePipe \/ GiveUpOnGroup

LEMMA NextByKind ==
  Next <=> \/ Call \/ OpenUnnamedCaptureFile
           \/ PlainSteps \/ KillSteps \/ TimerSteps \/ Abort
           \/ ProcessStep \/ \E m \in Members : KilledDies(m)
  BY DEF Next, Proceed, PlainSteps, KillSteps, TimerSteps

-----------------------------------------------------------------------------
(* Types and what is left behind.                                          *)

LEMMA CallInit == Init => CallInv
  BY ProcessAssumption
  DEF Init, CallInv, TypeOK, Unlaunched, Cleared, NothingLeftBehind, Over, Outputs, Members

LEMMA LaunchKeepsCallInv ==
  ASSUME CallInv, stage \in {"called", "preparing"}, Launch \/ (Refuse /\ UNCHANGED file),
         UNCHANGED <<target, aborted, killSent, exited, verdict, captures>>
  PROVE  CallInv'
<1> USE DEF CallInv, verdict, captures
<1>1. timers = {} /\ ~listening /\ file = "none"
  BY DEF Unlaunched
<1>2. CASE stage' = "refused"
  <2>1. /\ UNCHANGED <<target, aborted, killSent, exited, cause, termination, ended, incomplete,
                       cut, listening, timers, proc, escaped, writers>>
        /\ file' \in {"none", "closed"} /\ (file' # "none" => target = "file")
    BY <1>1, <1>2 DEF Launch, Refuse, osVars
  <2>2. TypeOK'
    BY <1>2, <2>1 DEF TypeOK, Over
  <2>3. Unlaunched' /\ Cleared'
    BY <1>1, <1>2, <2>1 DEF Unlaunched, Cleared, NothingLeftBehind, Over
  <2> QED BY <2>2, <2>3
<1>3. CASE stage' # "refused"
  <2>1. /\ UNCHANGED <<target, aborted, killSent, exited, cause, termination, ended, incomplete,
                       cut, escaped>>
        /\ stage' = "running" /\ listening' = TRUE /\ timers' = {"timeout"}
        /\ file' = IF target = "file" THEN "open" ELSE "none"
    BY <1>3 DEF Launch, Refuse
  <2>2. /\ proc' \in [Members -> {"unborn", "alive", "killed", "gone"}]
        /\ writers' \in [Outputs -> SUBSET Members]
    BY <1>3 DEF Launch, Refuse, TypeOK, Members
  <2>3. TypeOK'
    BY <2>1, <2>2 DEF TypeOK
  <2>4. Unlaunched' /\ Cleared'
    BY <2>1 DEF Unlaunched, Cleared, NothingLeftBehind, Over
  <2> QED BY <2>3, <2>4
<1> QED BY <1>2, <1>3

LEMMA CallKeepsCallInv ==
  ASSUME CallInv, Call \/ OpenUnnamedCaptureFile
  PROVE  CallInv'
<1>1. CASE Call /\ ~aborted /\ target = "file"
  BY <1>1 DEF Call, CallInv, TypeOK, Unlaunched, Cleared, NothingLeftBehind, Over,
              verdict, captures, osVars
<1>2. CASE (Call /\ ~(~aborted /\ target = "file")) \/ OpenUnnamedCaptureFile
  BY <1>2, LaunchKeepsCallInv DEF Call, OpenUnnamedCaptureFile
<1> QED BY <1>1, <1>2

GroupTypes ==
  /\ incomplete \subseteq Outputs /\ cut \subseteq Outputs /\ ended \subseteq Outputs
  /\ proc \in [Members -> {"unborn", "alive", "killed", "gone"}]
  /\ escaped \subseteq Kids
  /\ writers \in [Outputs -> SUBSET Members]

LEMMA KillTyped ==
  ASSUME TypeOK, NEW settled \in BOOLEAN, Kill(settled)
  PROVE  GroupTypes'
  BY DEF TypeOK, GroupTypes, Kill, MarkOpenStreams, CutStreams

LEMMA BeginTerminationTyped ==
  ASSUME TypeOK, NEW trigger \in {"timeout", "cancellation"}, NEW others \in SUBSET timers,
         BeginTermination(trigger, others)
  PROVE  /\ incomplete' \subseteq Outputs /\ cut' \subseteq Outputs /\ ended' \subseteq Outputs
         /\ cause' \in {"none", "timeout", "cancellation"}
         /\ termination' \in {"none", "graceful", "forced"}
         /\ timers' \subseteq {"timeout", "grace", "survivor"}
         /\ UNCHANGED osVars
  BY DEF TypeOK, BeginTermination, Terminate, MarkOpenStreams, CutStreams,
         verdict, captures, osVars

LEMMA AbortKeepsCallInv ==
  ASSUME CallInv, Abort
  PROVE  CallInv'
<1>1. CASE listening
  <2>1. BeginTermination("cancellation", timers)
    BY <1>1 DEF Abort
  <2>2. TypeOK'
    BY <2>1, BeginTerminationTyped DEF CallInv, TypeOK, Abort, osVars
  <2>3. Unlaunched' /\ Cleared'
    BY <1>1, <2>2 DEF CallInv, TypeOK, Unlaunched, Cleared, NothingLeftBehind, Abort, Over
  <2> QED BY <2>2, <2>3 DEF CallInv
<1>2. CASE ~listening
  BY <1>2 DEF CallInv, TypeOK, Unlaunched, Cleared, NothingLeftBehind, Abort,
              verdict, captures, osVars
<1> QED BY <1>1, <1>2

LEMMA TimerKeepsCallInv ==
  ASSUME CallInv, TimerSteps
  PROVE  CallInv'
<1>1. CASE TimeoutFires
  <2>1. TypeOK'
    BY <1>1, BeginTerminationTyped DEF CallInv, TypeOK, TimeoutFires, osVars
  <2>2. Unlaunched' /\ Cleared'
    BY <1>1 DEF CallInv, TypeOK, Unlaunched, Cleared, NothingLeftBehind, TimeoutFires, Over
  <2> QED BY <2>1, <2>2 DEF CallInv
<1>2. CASE GraceEnds
  <2>1. /\ UNCHANGED <<target, aborted, stage, file, listening, killSent, exited, cause>>
        /\ timers' \subseteq timers /\ termination' = "forced"
    BY <1>2 DEF GraceEnds
  <2>2. GroupTypes'
    BY <1>2, KillTyped DEF CallInv, GraceEnds
  <2>3. TypeOK'
    BY <2>1, <2>2 DEF CallInv, TypeOK, GroupTypes
  <2>4. Unlaunched' /\ Cleared'
    BY <1>2, <2>1 DEF CallInv, TypeOK, Unlaunched, Cleared, NothingLeftBehind, GraceEnds, Over
  <2> QED BY <2>3, <2>4 DEF CallInv
<1>3. CASE SurvivorGraceEnds
  <2>1. /\ UNCHANGED <<target, aborted, stage, file, listening, exited, cause, termination>>
        /\ timers' \subseteq timers /\ killSent' = TRUE
    BY <1>3 DEF SurvivorGraceEnds, verdict
  <2>2. GroupTypes'
    BY <1>3, KillTyped DEF CallInv, SurvivorGraceEnds
  <2>3. TypeOK'
    BY <2>1, <2>2 DEF CallInv, TypeOK, GroupTypes
  <2>4. Unlaunched' /\ Cleared'
    BY <1>3 DEF CallInv, TypeOK, Unlaunched, Cleared, NothingLeftBehind, SurvivorGraceEnds, Over
  <2> QED BY <2>3, <2>4 DEF CallInv
<1> QED BY <1>1, <1>2, <1>3 DEF TimerSteps

LEMMA FinishKeepsCallInv ==
  ASSUME CallInv, KillSteps
  PROVE  CallInv'
<1>1. Finish /\ stage \in {"running", "polling"}
  BY DEF KillSteps, SettlePipe, GiveUpOnGroup, Settles
<1>2. GroupTypes'
  BY <1>1, KillTyped DEF CallInv, Finish
<1>3. TypeOK'
  BY <1>1, <1>2 DEF CallInv, TypeOK, GroupTypes, Finish, Over, verdict
<1>4. Unlaunched' /\ Cleared'
  BY <1>1 DEF CallInv, TypeOK, Unlaunched, Cleared, NothingLeftBehind, Finish, Over
<1> QED BY <1>3, <1>4 DEF CallInv

LEMMA PlainKeepsCallInv ==
  ASSUME CallInv, PlainSteps
  PROVE  CallInv'
<1> USE DEF CallInv, TypeOK, Unlaunched, Cleared, NothingLeftBehind, Over, Outputs,
            callVars, verdict, captures, osVars
<1>1. CASE ExitSeen
  BY <1>1 DEF ExitSeen
<1>2. ASSUME NEW s \in Outputs, EndSeen(s) PROVE CallInv'
  BY <1>2 DEF EndSeen
<1>3. CASE AwaitGroup
  BY <1>3 DEF AwaitGroup, Settles
<1>4. CASE GroupEmpties
  BY <1>4 DEF GroupEmpties
<1>5. CASE DrainCaptureFile
  <2>1. /\ UNCHANGED <<target, aborted, listening, timers, killSent, exited, cause, termination,
                       ended, cut, proc, escaped, writers>>
        /\ stage' \in Over /\ file' = "closed" /\ incomplete' \subseteq Outputs
    BY <1>5 DEF DrainCaptureFile
  <2>2. TypeOK'
    BY <2>1
  <2>3. Unlaunched' /\ Cleared'
    BY <1>5 DEF DrainCaptureFile
  <2> QED BY <2>2, <2>3
<1> QED BY <1>1, <1>2, <1>3, <1>4, <1>5 DEF PlainSteps

LEMMA DieTyped ==
  ASSUME TypeOK, NEW m \in Members, Die(m)
  PROVE  /\ proc' \in [Members -> {"unborn", "alive", "killed", "gone"}]
         /\ escaped' \subseteq Kids
         /\ writers' \in [Outputs -> SUBSET Members]
  BY DEF TypeOK, Die

LEMMA ProcessStepTyped ==
  ASSUME TypeOK, ProcessStep
  PROVE  /\ proc' \in [Members -> {"unborn", "alive", "killed", "gone"}]
         /\ escaped' \subseteq Kids
         /\ writers' \in [Outputs -> SUBSET Members]
<1>1. ASSUME NEW kid \in Kids, LeaveGroup(kid)
      PROVE  UNCHANGED <<proc, writers>> /\ escaped' \subseteq Kids
  BY <1>1 DEF TypeOK, LeaveGroup
<1>2. ASSUME NEW kid \in Kids, NEW parent \in Members, Fork(parent, kid)
      PROVE  /\ proc' \in [Members -> {"unborn", "alive", "killed", "gone"}]
             /\ escaped' \subseteq Kids
             /\ writers' \in [Outputs -> SUBSET Members]
  BY <1>2 DEF TypeOK, Fork, Members
<1>3. ASSUME NEW m \in Members, NEW s \in Outputs, CloseOutput(m, s)
      PROVE  UNCHANGED <<proc, escaped>> /\ writers' \in [Outputs -> SUBSET Members]
  BY <1>3 DEF TypeOK, CloseOutput
<1> QED BY <1>1, <1>2, <1>3, DieTyped DEF ProcessStep, TypeOK

LEMMA ProcessesKeepCallInv ==
  ASSUME CallInv, ProcessStep \/ \E m \in Members : KilledDies(m)
  PROVE  CallInv'
<1>1. /\ UNCHANGED <<target, aborted, callVars, exited, verdict, captures>>
      /\ proc' \in [Members -> {"unborn", "alive", "killed", "gone"}]
      /\ escaped' \subseteq Kids
      /\ writers' \in [Outputs -> SUBSET Members]
  BY ProcessStepTyped, DieTyped DEF CallInv, ProcessStep, KilledDies
<1> QED
  BY <1>1 DEF CallInv, TypeOK, Unlaunched, Cleared, NothingLeftBehind,
              callVars, verdict, captures

LEMMA NextKeepsCallInv ==
  ASSUME CallInv, [Next]_vars
  PROVE  CallInv'
<1>1. CASE UNCHANGED vars
  BY <1>1 DEF vars, callVars, verdict, captures, osVars, CallInv, TypeOK, Unlaunched, Cleared,
              NothingLeftBehind
<1>2. CASE Next
  BY <1>2, NextByKind, CallKeepsCallInv, AbortKeepsCallInv, TimerKeepsCallInv,
     FinishKeepsCallInv, PlainKeepsCallInv, ProcessesKeepCallInv
<1> QED BY <1>1, <1>2

\* The type invariant, for every set of processes.
THEOREM TypeCorrect == Spec => []TypeOK
<1>1. CallInv => TypeOK
  BY DEF CallInv
<1> QED BY <1>1, CallInit, NextKeepsCallInv, PTL DEF Spec

\* When the call returns, completed or refused, no timer of it is armed, no
\* listener registered and no capture file open.
THEOREM LeavesNothingBehind == Spec => []NothingLeftBehind
<1>1. CallInv => NothingLeftBehind
  BY DEF CallInv, Cleared
<1> QED BY <1>1, CallInit, NextKeepsCallInv, PTL DEF Spec

-----------------------------------------------------------------------------
(* Captures and survivors.                                                 *)

LEMMA GroupInit == Init => GroupInv
  BY DEF Init, GroupInv, Live, Captured, Quieted, Group, Outputs, Members

LEMMA LaunchKeepsGroupInv ==
  ASSUME CallInv, GroupInv, Call \/ OpenUnnamedCaptureFile
  PROVE  GroupInv'
<1>1. /\ stage \in {"called", "preparing"} /\ ended = {} /\ ~exited /\ ~killSent
      /\ stage' \in {"preparing", "running", "refused"}
      /\ UNCHANGED <<escaped, ended, exited, killSent, incomplete, cut>>
      /\ \/ UNCHANGED <<proc, writers>>
         \/ /\ proc' = [proc EXCEPT ![Child] = "alive"]
            /\ writers' = [s \in Outputs |-> {Child}]
  BY DEF CallInv, Unlaunched, Call, OpenUnnamedCaptureFile, Launch, Refuse, osVars, captures
<1>2. Live'
  BY <1>1 DEF GroupInv, Live, CallInv, TypeOK, Members
<1>3. Captured' /\ Quieted'
  BY <1>1 DEF GroupInv, Captured, Quieted
<1> QED BY <1>2, <1>3 DEF GroupInv

\* A stream still held by a member of the group has not ended, so a signal
\* before the call settles marks every stream it may cut short.
LEMMA OpenStreamIsMarked ==
  ASSUME TypeOK, Captured, MarkOpenStreams(FALSE), CutStreams
  PROVE  /\ cut' \subseteq incomplete'
         /\ Group # {} => Outputs \ ended \subseteq incomplete'
         /\ incomplete \subseteq incomplete'
<1>1. \A s \in Outputs : writers[s] \cap Group # {} => s \notin ended
  BY DEF Captured, Group
<1>2. Group # {} => incomplete' = incomplete \cup (Outputs \ ended)
  BY DEF MarkOpenStreams, GroupExists
<1>3. Group = {} => cut' = cut
  BY DEF CutStreams
<1>4. incomplete \subseteq incomplete'
  BY DEF MarkOpenStreams
<1> QED BY <1>1, <1>2, <1>3, <1>4 DEF Captured, CutStreams

\* Only members of the group are killed, and nobody joins it.
LEMMA KillShape ==
  ASSUME TypeOK, Live, NEW settled \in BOOLEAN, Kill(settled)
  PROVE  /\ Live' \/ exited' # exited
         /\ Group' = Group
         /\ \A m \in Members \ escaped' : proc'[m] # "alive"
         /\ UNCHANGED <<escaped, writers, ended>>
<1>1. proc' = [m \in Members |-> IF m \in Group THEN "killed" ELSE proc[m]]
      /\ UNCHANGED <<escaped, writers, ended>>
  BY DEF Kill
<1>2. Group' = Group
  BY <1>1 DEF Group
<1>3. \A m \in Members : /\ proc[m] \in {"unborn", "gone"} => proc'[m] = proc[m]
                         /\ proc[m] \in {"alive", "killed"} => proc'[m] \in {"alive", "killed"}
  BY <1>1 DEF Group
<1>4. Child \in Members
  BY DEF Members
<1>5. Live' \/ exited' # exited
  BY <1>1, <1>3, <1>4 DEF Live, TypeOK
<1>6. \A m \in Members \ escaped' : proc'[m] # "alive"
  BY <1>1 DEF Group
<1> QED BY <1>1, <1>2, <1>5, <1>6

LEMMA TimerKillsKeepGroupInv ==
  ASSUME CallInv, GroupInv, GraceEnds \/ SurvivorGraceEnds
  PROVE  GroupInv'
<1>1. /\ Kill(FALSE) /\ UNCHANGED <<stage, exited>>
      /\ killSent' = killSent \/ SurvivorGraceEnds
  BY DEF GraceEnds, SurvivorGraceEnds
<1>2. Live' /\ Quieted' /\ Group' = Group /\ UNCHANGED <<escaped, writers, ended>>
  BY <1>1, KillShape DEF CallInv, GroupInv, Quieted
<1>3. /\ cut' \subseteq incomplete'
      /\ Group # {} => Outputs \ ended \subseteq incomplete'
  BY <1>1, OpenStreamIsMarked DEF CallInv, GroupInv, Kill
<1> QED
  BY <1>2, <1>3 DEF GroupInv, Captured

LEMMA TriggersKeepGroupInv ==
  ASSUME CallInv, GroupInv, Abort \/ TimeoutFires
  PROVE  GroupInv'
<1>1. UNCHANGED <<stage, exited, killSent, osVars, ended>>
  BY DEF Abort, TimeoutFires, BeginTermination, Terminate, captures, osVars
<1>2. UNCHANGED captures \/ (MarkOpenStreams(FALSE) /\ CutStreams)
  BY DEF Abort, TimeoutFires, BeginTermination, Terminate, verdict, captures, osVars
<1>3. Group' = Group
  BY <1>1 DEF Group, osVars
<1>4. Live' /\ Quieted'
  BY <1>1 DEF GroupInv, Live, Quieted, osVars
<1>5. CASE UNCHANGED captures
  BY <1>1, <1>3, <1>4, <1>5 DEF GroupInv, Captured, captures, osVars
<1>6. CASE MarkOpenStreams(FALSE) /\ CutStreams
  BY <1>1, <1>3, <1>4, <1>6, OpenStreamIsMarked DEF CallInv, GroupInv, Captured, osVars
<1> QED BY <1>2, <1>4, <1>5, <1>6 DEF GroupInv

\* The final SIGKILL cuts nothing short that is not marked already: with a pipe
\* both streams ended, with a file the survivors were sent SIGKILL before.
LEMMA FinishKeepsGroupInv ==
  ASSUME CallInv, GroupInv, KillSteps
  PROVE  GroupInv'
<1>1. /\ Kill(TRUE) /\ UNCHANGED <<exited, killSent>>
  BY DEF KillSteps, SettlePipe, GiveUpOnGroup, Finish
<1>2. Live' /\ Quieted' /\ Group' = Group /\ UNCHANGED <<escaped, writers, ended>>
  BY <1>1, KillShape DEF CallInv, GroupInv, Quieted
<1>3. incomplete' = incomplete
  BY <1>1 DEF Kill, MarkOpenStreams
<1>4. \A s \in Outputs : writers[s] \cap Group # {} => s \in incomplete
  <2>1. CASE GiveUpOnGroup
    BY <2>1 DEF GiveUpOnGroup, GroupInv, Captured, Group
  <2>2. CASE SettlePipe /\ exited
    <3>1. Outputs \subseteq ended
      BY <2>2 DEF SettlePipe, Settles, CallInv, TypeOK, GroupInv, Live
    <3> QED BY <3>1 DEF GroupInv, Captured, Group
  <2>3. CASE SettlePipe /\ ~exited
    <3>1. proc[Child] = "unborn"
      BY <2>3 DEF SettlePipe, Settles
    <3> QED BY <3>1 DEF GroupInv, Live, Group
  <2> QED BY <2>1, <2>2, <2>3 DEF KillSteps, CallInv, TypeOK
<1>5. cut' \subseteq incomplete'
  BY <1>1, <1>3, <1>4 DEF Kill, CutStreams, GroupInv, Captured
<1> QED
  BY <1>1, <1>2, <1>3, <1>5 DEF GroupInv, Captured

LEMMA PlainKeepsGroupInv ==
  ASSUME CallInv, GroupInv, PlainSteps
  PROVE  GroupInv'
<1> USE DEF callVars, verdict, captures, osVars
<1>1. CASE ExitSeen
  <2>1. Live' /\ Quieted'
    BY <1>1 DEF ExitSeen, GroupInv, Live, Quieted
  <2>2. Captured'
    BY <1>1 DEF ExitSeen, GroupInv, Captured, Group
  <2> QED BY <2>1, <2>2 DEF GroupInv
<1>2. ASSUME NEW s \in Outputs, EndSeen(s) PROVE GroupInv'
  <2>1. Live' /\ Quieted'
    BY <1>2 DEF EndSeen, GroupInv, Live, Quieted
  <2>2. Captured'
    BY <1>2 DEF EndSeen, GroupInv, Captured, Group
  <2> QED BY <2>1, <2>2 DEF GroupInv
<1>3. CASE AwaitGroup
  <2>1. Live' /\ Quieted'
    BY <1>3 DEF AwaitGroup, GroupInv, Live, Quieted
  <2>2. Captured'
    BY <1>3 DEF AwaitGroup, GroupInv, Captured, Group
  <2> QED BY <2>1, <2>2 DEF GroupInv
<1>4. CASE GroupEmpties
  <2>1. Group = {} /\ UNCHANGED <<proc, escaped, writers, exited, incomplete, cut>>
        /\ ended' = ended \cup {"stdout"}
    BY <1>4 DEF GroupEmpties, GroupExists
  <2>2. writers["stdout"] \subseteq escaped
    BY <2>1 DEF Group, GroupInv, Live, CallInv, TypeOK, Outputs
  <2>3. Live' /\ Quieted'
    BY <2>1 DEF GroupInv, Live, Quieted, Group
  <2>4. Captured'
    BY <2>1, <2>2 DEF GroupInv, Captured, Group
  <2> QED BY <2>3, <2>4 DEF GroupInv
<1>5. CASE DrainCaptureFile
  <2>1. Live' /\ Quieted'
    BY <1>5 DEF DrainCaptureFile, GroupInv, Live, Quieted
  <2>2. Captured'
    BY <1>5 DEF DrainCaptureFile, GroupInv, Captured, Group
  <2> QED BY <2>1, <2>2 DEF GroupInv
<1> QED BY <1>1, <1>2, <1>3, <1>4, <1>5 DEF PlainSteps

LEMMA LeaveGroupKeepsGroupInv ==
  ASSUME CallInv, GroupInv, NEW kid \in Kids, LeaveGroup(kid),
         UNCHANGED <<stage, exited, killSent, captures>>
  PROVE  GroupInv'
<1>1. UNCHANGED <<proc, writers>> /\ escaped' = escaped \cup {kid}
  BY DEF LeaveGroup
<1>2. Live' /\ Quieted'
  BY <1>1 DEF GroupInv, Live, Quieted
<1>3. Group' \subseteq Group
  BY <1>1 DEF Group
<1>4. Captured'
  BY <1>1, <1>3 DEF GroupInv, Captured, captures
<1> QED BY <1>2, <1>4 DEF GroupInv

\* A process starts in the group of its parent, with the streams its parent holds.
LEMMA ForkKeepsGroupInv ==
  ASSUME CallInv, GroupInv, NEW kid \in Kids, NEW parent \in Members, Fork(parent, kid),
         UNCHANGED <<stage, exited, killSent, captures>>
  PROVE  GroupInv'
<1>1. /\ proc[parent] = "alive" /\ proc[kid] = "unborn" /\ parent # kid /\ kid # Child
      /\ Child \in Members /\ kid \in Members
  BY ProcessAssumption DEF Fork, Members
<1>2. /\ proc' = [proc EXCEPT ![kid] = "alive"]
      /\ escaped' = IF parent \in escaped THEN escaped \cup {kid} ELSE escaped
      /\ writers' = [s \in Outputs |-> IF parent \in writers[s] THEN writers[s] \cup {kid} ELSE writers[s]]
  BY DEF Fork
<1>3. \A m \in Members : proc'[m] = IF m = kid THEN "alive" ELSE proc[m]
  BY <1>1, <1>2 DEF CallInv, TypeOK
<1>4. Live'
  BY <1>1, <1>2, <1>3 DEF GroupInv, Live, CallInv, TypeOK
<1>5. Group' # {} => Group # {}
  <2>1. ASSUME NEW m \in Group' PROVE Group # {}
    <3>1. CASE m # kid
      BY <1>2, <1>3, <2>1, <3>1 DEF Group
    <3>2. CASE m = kid
      BY <1>1, <1>2, <2>1, <3>2 DEF Group
    <3> QED BY <3>1, <3>2
  <2> QED BY <2>1
<1>6. \A s \in ended : writers'[s] \subseteq escaped'
  BY <1>2 DEF GroupInv, Captured, CallInv, TypeOK
<1>7. Captured'
  BY <1>5, <1>6 DEF GroupInv, Captured, captures
<1>8. Quieted'
  BY <1>1, <1>2, <1>3 DEF GroupInv, Quieted
<1> QED BY <1>4, <1>7, <1>8 DEF GroupInv

LEMMA CloseKeepsGroupInv ==
  ASSUME CallInv, GroupInv, NEW m \in Members, NEW s \in Outputs, CloseOutput(m, s),
         UNCHANGED <<stage, exited, killSent, captures>>
  PROVE  GroupInv'
<1>1. /\ UNCHANGED <<proc, escaped>>
      /\ \A t \in Outputs : writers'[t] \subseteq writers[t]
  BY DEF CloseOutput, CallInv, TypeOK
<1>2. Live' /\ Quieted'
  BY <1>1 DEF GroupInv, Live, Quieted
<1>3. Captured'
  BY <1>1 DEF GroupInv, Captured, captures, Group, CallInv, TypeOK
<1> QED BY <1>2, <1>3 DEF GroupInv

LEMMA DieKeepsGroupInv ==
  ASSUME CallInv, GroupInv, NEW m \in Members, proc[m] \in {"alive", "killed"}, Die(m),
         UNCHANGED <<stage, exited, killSent, captures>>
  PROVE  GroupInv'
<1>1. /\ escaped' = escaped
      /\ \A n \in Members : proc'[n] = IF n = m THEN "gone" ELSE proc[n]
      /\ \A t \in Outputs : writers'[t] = writers[t] \ {m}
      /\ Child \in Members
  BY DEF Die, CallInv, TypeOK, Members
<1>2. Live'
  BY <1>1 DEF GroupInv, Live, CallInv, TypeOK
<1>3. Quieted'
  BY <1>1 DEF GroupInv, Quieted
<1>4. Group' \subseteq Group
  BY <1>1 DEF Group
<1>5. Captured'
  BY <1>1, <1>4 DEF GroupInv, Captured, captures, CallInv, TypeOK
<1> QED BY <1>2, <1>3, <1>5 DEF GroupInv

LEMMA NextKeepsGroupInv ==
  ASSUME CallInv, GroupInv, [Next]_vars
  PROVE  GroupInv'
<1>1. CASE UNCHANGED vars
  BY <1>1 DEF vars, callVars, captures, osVars, GroupInv, Live, Captured, Quieted, Group
<1>2. CASE ProcessStep
  <2>1. UNCHANGED <<stage, exited, killSent, captures>>
    BY <1>2 DEF ProcessStep, callVars
  <2> QED
    BY <1>2, <2>1, LeaveGroupKeepsGroupInv, ForkKeepsGroupInv, CloseKeepsGroupInv,
       DieKeepsGroupInv DEF ProcessStep
<1>3. ASSUME NEW m \in Members, KilledDies(m) PROVE GroupInv'
  BY <1>3, DieKeepsGroupInv DEF KilledDies, callVars
<1>4. CASE Next
  BY <1>2, <1>3, <1>4, NextByKind, LaunchKeepsGroupInv, PlainKeepsGroupInv, FinishKeepsGroupInv,
     TimerKillsKeepGroupInv, TriggersKeepGroupInv DEF TimerSteps
<1> QED BY <1>1, <1>4

LEMMA InductiveInvariant == Spec => []IInv
<1>1. Init => IInv
  BY CallInit, GroupInit DEF IInv
<1>2. IInv /\ [Next]_vars => IInv'
  BY NextKeepsCallInv, NextKeepsGroupInv DEF IInv
<1> QED BY <1>1, <1>2, PTL DEF Spec

\* A capture the call may have cut short is marked, however many processes hold
\* the stream and whichever of them left the group.
THEOREM NoCutCapturePasses == Spec => []CutShortIsMarked
<1>1. IInv => CutShortIsMarked
  BY DEF IInv, GroupInv, Captured, CutShortIsMarked
<1> QED BY <1>1, InductiveInvariant, PTL

\* The call never completes with a running process in the child's group.
THEOREM NobodySurvives == Spec => []NoSurvivor
<1>1. IInv => NoSurvivor
  BY DEF IInv, GroupInv, Quieted, NoSurvivor
<1> QED BY <1>1, InductiveInvariant, PTL

\* Once the call has a cause, or the child's exit was seen, no later callback
\* gives it another.
THEOREM CauseIsFinal == Spec => FirstCauseStands
<1>1. [Next]_vars => [exited \/ cause # "none" => UNCHANGED cause]_vars
  <2>1. ASSUME Next, exited \/ cause # "none" PROVE UNCHANGED cause
    <3>1. PlainSteps \/ KillSteps \/ Call \/ OpenUnnamedCaptureFile => UNCHANGED cause
      BY DEF PlainSteps, KillSteps, Call, OpenUnnamedCaptureFile, ExitSeen, EndSeen, AwaitGroup,
             GroupEmpties, DrainCaptureFile, SettlePipe, GiveUpOnGroup, Finish, verdict
    <3>2. TimerSteps \/ Abort => UNCHANGED cause
      BY <2>1 DEF TimerSteps, TimeoutFires, GraceEnds, SurvivorGraceEnds, Abort,
                  BeginTermination, verdict
    <3>3. ProcessStep \/ (\E m \in Members : KilledDies(m)) => UNCHANGED cause
      BY DEF ProcessStep, KilledDies, verdict
    <3> QED BY <2>1, <3>1, <3>2, <3>3, NextByKind
  <2> QED BY <2>1
<1> QED BY <1>1, PTL DEF Spec, FirstCauseStands
=============================================================================
