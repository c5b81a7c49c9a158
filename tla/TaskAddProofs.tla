----------------------------- MODULE TaskAddProofs -----------------------------
(***************************************************************************)
(* What tevu task add promises of the configuration file and of            *)
(* interrupts, for any number of wizards that share the file and of edits  *)
(* made meanwhile: ConfigKept and InterruptsHonoured. The file has no      *)
(* lock; what the proof rests on is that a write replaces the whole file   *)
(* by what was read and one task, so that whatever was there is in the new *)
(* text or was written by another since the read, and that every way out   *)
(* of a wait looks at the signal first and then at what the wait took.     *)
(*                                                                         *)
(* And what its interview promises for any repositories, places and output *)
(* directories: InterviewSound. A question is asked again in many places,  *)
(* so that the proof says for each step what has been checked by then and  *)
(* has not changed since.                                                  *)
(***************************************************************************)
EXTENDS TaskAdd, TaskInterview, ConfigDocument, FiniteSetTheorems, WellFoundedInduction, TLAPS

\* Before the first question no wait is open, and the exit question knows its way back.
StagesFit ==
  \A w \in Wizards :
    /\ Stage(w) = "starting" => wizard[w].wait = "closed"
    /\ Stage(w) = "exit" => wizard[w].back \in {"question", "save"}

\* An exit window is open, with its timer, from a press on.
KeysFit ==
  \A w \in Wizards :
    keys[w] = IF pressed[w] = "none" THEN NoKeys ELSE [window |-> pressed[w], timers |-> <<pressed[w]>>]

\* An interrupt that is not answered is held by the signal or by the wait that took it.
OwedFits ==
  \A w \in owed :
    /\ Stage(w) \notin Prompts \cup Results
    /\ wizard[w].aborted \/ wizard[w].wait = "taken"

\* A wizard has written when it says so, and what it has not written removed nothing.
WritesFit ==
  /\ \A w \in Wizards :
       /\ writes[w] = (IF Stage(w) \in {"written", "completed"} THEN 1 ELSE 0)
       /\ writes[w] = 0 => lost[w] = {}
       /\ lost[w] \subseteq raced[w]
  /\ ~config.there => config.tasks = {}

\* What a save does not know of the file, others wrote after it was read.
SeesAll ==
  \A w \in Wizards : Stage(w) \in {"resolve", "write"} =>
    config.tasks \subseteq save[w].text \cup raced[w]

\* Every task there has ever been.
Ever == config.tasks \cup UNION {lost[v] : v \in Wizards}
Own(w) == [id |-> save[w].id, by |-> w]
Edited == {t \in Ever : t.by = "editor"}

EverFits ==
  /\ \A w \in Wizards :
       /\ save[w].text \subseteq Ever
       /\ writes[w] = 1 => Own(w) \in config.tasks \cup UNION {lost[v] : v \in Wizards \ {w}}
  /\ \A t \in Ever : t.by # "editor" => writes[t.by] = 1 /\ t = Own(t.by)
  /\ IsFiniteSet(Ever) /\ Cardinality(Edited) <= edits + 1

\* No two tasks have one number.
Distinct(tasks) == \A t, u \in tasks : t.id = u.id => t = u

NumbersDistinct ==
  /\ Distinct(config.tasks)
  /\ \A w \in Wizards :
       /\ Distinct(save[w].text)
       /\ Stage(w) = "write" => save[w].id \notin Numbered(save[w].text)

\* What concerns the wizards alone, and what concerns the file.
TalkInv == StagesFit /\ KeysFit /\ OwedFits
FileInv == WritesFit /\ SeesAll /\ EverFits /\ NumbersDistinct
AddInv == AddTypeOK /\ TalkInv /\ FileInv

-----------------------------------------------------------------------------
(* What the moves of a wizard do.                                          *)

Stages == {"starting", "waiting"} \cup Prompts \cup Saving \cup Results
WizardRecords == [stage : Stages, back : {"none", "question", "save"},
                  wait : {"closed", "open", "taken"}, aborted : BOOLEAN]
KeyRecords == [window : {"closed"} \cup ExitKeys, timers : Seq(ExitKeys)]

\* The wizards' part of the type invariant.
TalkTypes ==
  /\ wizard \in [Wizards -> WizardRecords] /\ keys \in [Wizards -> KeyRecords]
  /\ owed \subseteq Wizards /\ pressed \in [Wizards -> {"none"} \cup ExitKeys]

FileTypes ==
  /\ config \in [there : BOOLEAN, loads : BOOLEAN, tasks : SUBSET TaskRecords]
  /\ edits \in 0..MaxEdits
  /\ save \in [Wizards -> [bootstrap : BOOLEAN, id : Numbers, text : SUBSET TaskRecords]]
  /\ raced \in [Wizards -> SUBSET TaskRecords] /\ lost \in [Wizards -> SUBSET TaskRecords]
  /\ writes \in [Wizards -> 0..2]

LEMMA TypesAre ==
  /\ AddTypeOK <=> TalkTypes /\ FileTypes
  /\ AddTypeOK' <=> TalkTypes' /\ FileTypes'
BY DEF AddTypeOK, TalkTypes, FileTypes, Stages, WizardRecords, KeyRecords

\* The wizard w and no other has become one of these fields.
Becomes(w, stage, back, wait, aborted) ==
  /\ wizard' \in [Wizards -> WizardRecords]
  /\ \A v \in Wizards \ {w} : wizard'[v] = wizard[v]
  /\ wizard'[w].stage = stage /\ wizard'[w].back = back
  /\ wizard'[w].wait = wait /\ wizard'[w].aborted = aborted

\* The exit windows are as the presses say.
KeysStayFit == KeysFit' /\ keys' \in [Wizards -> KeyRecords] /\ pressed' \in [Wizards -> {"none"} \cup ExitKeys]

LEMMA PressesType ==
  ASSUME NEW k \in ExitKeys
  PROVE  /\ [window |-> k, timers |-> <<k>>] \in KeyRecords /\ NoKeys \in KeyRecords
         /\ Len(<<k>>) = 1 /\ Tail(<<k>>) = <<>> /\ k # "none"
BY DEF KeyRecords, NoKeys, ExitKeys

LEMMA KeysCleared ==
  ASSUME TalkTypes, KeysFit, NEW w \in Wizards,
         keys' = [keys EXCEPT ![w] = NoKeys], pressed' = [pressed EXCEPT ![w] = "none"]
  PROVE  KeysStayFit
<1>1. NoKeys \in KeyRecords  BY PressesType DEF ExitKeys
<1>2. keys' \in [Wizards -> KeyRecords] /\ pressed' \in [Wizards -> {"none"} \cup ExitKeys]
  BY <1>1 DEF TalkTypes
<1>3. KeysFit'  BY DEF KeysFit, TalkTypes
<1>. QED  BY <1>2, <1>3 DEF KeysStayFit

LEMMA KeysUnchanged ==
  ASSUME TalkTypes, KeysFit, UNCHANGED <<keys, pressed>>
  PROVE  KeysStayFit
BY DEF KeysStayFit, KeysFit, TalkTypes

LEMMA GoesToIs ==
  ASSUME TalkTypes, KeysFit, NEW w \in Wizards, NEW stage \in Stages, GoesTo(w, stage)
  PROVE  /\ KeysStayFit
         /\ Becomes(w, IF stage \in Prompts /\ wizard[w].aborted THEN "cancelled" ELSE stage,
                    "none", "closed", wizard[w].aborted)
<1>1. KeysStayFit  BY KeysCleared DEF GoesTo
<1>. DEFINE next == IF stage \in Prompts /\ wizard[w].aborted THEN "cancelled" ELSE stage
<1>2. next \in Stages  BY DEF Stages, Results
<1>3. wizard' = [wizard EXCEPT ![w].wait = "closed", ![w].back = "none", ![w].stage = next]
  BY DEF GoesTo
<1>4. wizard \in [Wizards -> WizardRecords]  BY DEF TalkTypes
<1>. HIDE DEF next
<1>5. Becomes(w, next, "none", "closed", wizard[w].aborted)
  BY <1>2, <1>3, <1>4 DEF Becomes, WizardRecords
<1>. QED  BY <1>1, <1>5 DEF next

LEMMA BeginsWaitIs ==
  ASSUME TalkTypes, KeysFit, NEW w \in Wizards, NEW stage \in Stages, BeginsWait(w, stage)
  PROVE  KeysStayFit /\ Becomes(w, stage, wizard[w].back, "open", wizard[w].aborted)
<1>1. KeysStayFit  BY KeysCleared DEF BeginsWait
<1>2. wizard \in [Wizards -> WizardRecords]  BY DEF TalkTypes
<1>. QED  BY <1>1, <1>2 DEF BeginsWait, Becomes, WizardRecords

LEMMA AsksExitIs ==
  ASSUME TalkTypes, KeysFit, NEW w \in Wizards, NEW back \in {"question", "save"}, AsksExit(w, back)
  PROVE  KeysStayFit /\ Becomes(w, "exit", back, "closed", wizard[w].aborted)
<1>1. KeysStayFit  BY KeysCleared DEF AsksExit
<1>2. wizard \in [Wizards -> WizardRecords] /\ "exit" \in Stages  BY DEF TalkTypes, Stages, Prompts
<1>. QED  BY <1>1, <1>2, ZenonT(40) DEF AsksExit, Becomes, WizardRecords

LEMMA ExitsIs ==
  ASSUME TalkTypes, KeysFit, NEW w \in Wizards, Exits(w)
  PROVE  /\ KeysStayFit /\ owed' = owed \ {w}
         /\ Becomes(w, "cancelled", "none", "closed", wizard[w].aborted)
<1>1. "cancelled" \in Stages /\ "cancelled" \notin Prompts  BY DEF Stages, Results, Prompts
<1>. QED  BY <1>1, GoesToIs DEF Exits

LEMMA SaveGoesIs ==
  ASSUME TalkTypes, KeysFit, NEW w \in Wizards, NEW stage \in Stages, SaveGoes(w, stage),
         UNCHANGED <<keys, pressed>>
  PROVE  KeysStayFit /\ Becomes(w, stage, wizard[w].back, wizard[w].wait, wizard[w].aborted)
<1>1. wizard \in [Wizards -> WizardRecords]  BY DEF TalkTypes
<1>. QED  BY <1>1, KeysUnchanged DEF SaveGoes, Becomes, WizardRecords

-----------------------------------------------------------------------------
(* The steps that leave the file alone.                                    *)

LEMMA TalkStays ==
  ASSUME TalkTypes, TalkInv, KeysStayFit,
         NEW w \in Wizards, NEW stage, NEW back, NEW wait, NEW aborted,
         Becomes(w, stage, back, wait, aborted),
         owed' \subseteq owed \cup {w},
         stage = "starting" => wait = "closed",
         stage = "exit" => back \in {"question", "save"},
         w \in owed' => stage \notin Prompts \cup Results /\ (aborted \/ wait = "taken")
  PROVE  TalkTypes' /\ TalkInv'
<1>1. TalkTypes'  BY DEF TalkTypes, Becomes, KeysStayFit
<1>2. StagesFit'  BY DEF TalkInv, StagesFit, Becomes, Stage
<1>3. OwedFits'
  <2>. SUFFICES ASSUME NEW v \in owed'
                PROVE  /\ wizard'[v].stage \notin Prompts \cup Results
                       /\ wizard'[v].aborted \/ wizard'[v].wait = "taken"
    BY DEF OwedFits, Stage
  <2>1. CASE v = w  BY <2>1 DEF Becomes
  <2>2. CASE v # w
    <3>1. v \in owed /\ v \in Wizards /\ wizard'[v] = wizard[v]
      BY <2>2 DEF Becomes, TalkTypes
    <3>. QED  BY <3>1 DEF TalkInv, OwedFits, Stage
  <2>. QED  BY <2>1, <2>2
<1>. QED  BY <1>1, <1>2, <1>3 DEF TalkInv, KeysStayFit

LEMMA FileStays ==
  ASSUME FileTypes, FileInv,
         NEW w \in Wizards, NEW stage, NEW back, NEW wait, NEW aborted,
         Becomes(w, stage, back, wait, aborted),
         UNCHANGED <<config, edits, save, raced, lost, writes>>,
         stage \in {"written", "completed"} <=> Stage(w) \in {"written", "completed"},
         stage \in {"resolve", "write"} => stage = Stage(w)
  PROVE  FileTypes' /\ FileInv'
<1>1. FileTypes'  BY DEF FileTypes
<1>2. WritesFit'  BY DEF FileInv, WritesFit, Becomes, Stage
<1>3. SeesAll'  BY DEF FileInv, SeesAll, Becomes, Stage
<1>4. EverFits'
  <2>1. Ever' = Ever /\ Edited' = Edited  BY DEF Ever, Edited
  <2>. QED  BY <2>1 DEF FileInv, EverFits, Own
<1>5. NumbersDistinct'  BY DEF FileInv, NumbersDistinct, Distinct, Numbered, Becomes, Stage
<1>. QED  BY <1>1, <1>2, <1>3, <1>4, <1>5 DEF FileInv

\* Both.
LEMMA TalkKeeps ==
  ASSUME AddInv, KeysStayFit,
         NEW w \in Wizards, NEW stage, NEW back, NEW wait, NEW aborted,
         Becomes(w, stage, back, wait, aborted),
         UNCHANGED <<config, edits, save, raced, lost, writes>>,
         owed' \subseteq owed \cup {w},
         stage = "starting" => wait = "closed",
         stage = "exit" => back \in {"question", "save"},
         w \in owed' => stage \notin Prompts \cup Results /\ (aborted \/ wait = "taken"),
         stage \in {"written", "completed"} <=> Stage(w) \in {"written", "completed"},
         stage \in {"resolve", "write"} => stage = Stage(w)
  PROVE  AddInv'
<1>1. TalkTypes /\ FileTypes /\ TalkInv /\ FileInv  BY TypesAre DEF AddInv
<1>2. TalkTypes' /\ TalkInv'  BY <1>1, TalkStays
<1>3. FileTypes' /\ FileInv'  BY <1>1, FileStays
<1>. QED  BY <1>2, <1>3, TypesAre DEF AddInv

\* What a wizard is before it talks.
LEMMA Before ==
  ASSUME AddInv, NEW w \in Wizards
  PROVE  /\ TalkTypes /\ KeysFit
         /\ wizard[w] \in WizardRecords /\ owed \subseteq Wizards
         /\ w \in owed => /\ Stage(w) \notin Prompts \cup Results
                          /\ wizard[w].aborted \/ wizard[w].wait = "taken"
         /\ Stage(w) = "exit" => wizard[w].back \in {"question", "save"}
         /\ Stage(w) = "starting" => wizard[w].wait = "closed"
BY TypesAre DEF AddInv, TalkInv, TalkTypes, OwedFits, StagesFit

\* Keys are pressed and windows close while the wizard stays as it is.
LEMMA KeepsTalking ==
  ASSUME AddInv, KeysStayFit, UNCHANGED <<config, edits, wizard, save, owed, raced, lost, writes>>
  PROVE  AddInv'
<1>1. TalkTypes /\ FileTypes /\ TalkInv /\ FileInv  BY TypesAre DEF AddInv
<1>2. TalkTypes' /\ FileTypes'  BY <1>1 DEF TalkTypes, FileTypes, KeysStayFit
<1>3. StagesFit' /\ OwedFits'  BY <1>1 DEF TalkInv, StagesFit, OwedFits, Stage
<1>4. WritesFit' /\ SeesAll' /\ NumbersDistinct'
  BY <1>1 DEF FileInv, WritesFit, SeesAll, NumbersDistinct, Distinct, Numbered, Stage
<1>5. EverFits'
  <2>1. Ever' = Ever /\ Edited' = Edited  BY DEF Ever, Edited
  <2>. QED  BY <1>1, <2>1 DEF FileInv, EverFits, Own
<1>. QED  BY <1>2, <1>3, <1>4, <1>5, TypesAre DEF AddInv, TalkInv, FileInv, KeysStayFit

\* It ends: what it was asked is answered.
LEMMA ExitsKeeps ==
  ASSUME AddInv, NEW w \in Wizards, Exits(w), Stage(w) \notin {"written", "completed"},
         UNCHANGED <<config, edits, save, raced, lost, writes>>
  PROVE  AddInv'
<1>1. TalkTypes /\ KeysFit  BY Before
<1>2. /\ KeysStayFit /\ owed' = owed \ {w}
      /\ Becomes(w, "cancelled", "none", "closed", wizard[w].aborted)
  BY <1>1, ExitsIs
<1>. QED  BY <1>2, TalkKeeps

LEMMA AsksExitKeeps ==
  ASSUME AddInv, NEW w \in Wizards, NEW back \in {"question", "save"}, AsksExit(w, back),
         Stage(w) \notin {"written", "completed"},
         UNCHANGED <<config, edits, save, raced, lost, writes>>
  PROVE  AddInv'
<1>1. TalkTypes /\ KeysFit  BY Before
<1>2. KeysStayFit /\ Becomes(w, "exit", back, "closed", wizard[w].aborted)
  BY <1>1, AsksExitIs
<1>3. owed' = owed \ {w}  BY DEF AsksExit
<1>. QED  BY <1>2, <1>3, TalkKeeps

\* It opens a prompt it owes no answer to.
LEMMA OpensKeeps ==
  ASSUME AddInv, NEW w \in Wizards, NEW stage \in {"question", "save"}, GoesTo(w, stage),
         Stage(w) \notin {"written", "completed"}, w \notin owed, UNCHANGED owed,
         UNCHANGED <<config, edits, save, raced, lost, writes>>
  PROVE  AddInv'
<1>1. TalkTypes /\ KeysFit  BY Before
<1>2. stage \in Stages  BY DEF Stages, Prompts
<1>. DEFINE next == IF stage \in Prompts /\ wizard[w].aborted THEN "cancelled" ELSE stage
<1>3. KeysStayFit /\ Becomes(w, next, "none", "closed", wizard[w].aborted)
  BY <1>1, <1>2, GoesToIs
<1>4. next \notin {"starting", "exit", "written", "completed", "resolve", "write"}  OBVIOUS
<1>. HIDE DEF next
<1>. QED  BY <1>3, <1>4, TalkKeeps

\* It begins to wait, and owes only what aborted it.
LEMMA WaitsKeeps ==
  ASSUME AddInv, NEW w \in Wizards, NEW stage \in {"waiting", "find"}, BeginsWait(w, stage),
         Stage(w) \notin {"written", "completed"}, w \in owed => wizard[w].aborted, UNCHANGED owed,
         UNCHANGED <<config, edits, save, raced, lost, writes>>
  PROVE  AddInv'
<1>1. TalkTypes /\ KeysFit  BY Before
<1>2. stage \in Stages /\ stage \notin Prompts \cup Results
  BY DEF Stages, Prompts, Saving, Results
<1>3. KeysStayFit /\ Becomes(w, stage, wizard[w].back, "open", wizard[w].aborted)
  BY <1>1, <1>2, BeginsWaitIs
<1>. QED  BY <1>2, <1>3, TalkKeeps

\* After a wait: the signal first, then what the wait took.
LEMMA EndRunWaitKeeps ==
  ASSUME AddInv, NEW w \in Wizards, NEW then \in {"question", "save"}, EndRunWait(w, then),
         Stage(w) \notin {"written", "completed"},
         UNCHANGED <<config, edits, save, raced, lost, writes>>
  PROVE  AddInv'
<1>1. CASE wizard[w].aborted
  <2>1. Exits(w)  BY <1>1 DEF EndRunWait
  <2>. QED  BY <2>1, ExitsKeeps
<1>2. CASE ~wizard[w].aborted /\ wizard[w].wait = "taken"
  <2>1. AsksExit(w, then)  BY <1>2 DEF EndRunWait
  <2>. QED  BY <2>1, AsksExitKeeps
<1>3. CASE ~wizard[w].aborted /\ wizard[w].wait # "taken"
  <2>1. GoesTo(w, then) /\ UNCHANGED owed  BY <1>3 DEF EndRunWait
  <2>2. w \notin owed  BY <1>3, Before
  <2>. QED  BY <2>1, <2>2, OpensKeeps
<1>. QED  BY <1>1, <1>2, <1>3

LEMMA PressKeeps ==
  ASSUME AddInv, NEW w \in Wizards, Press(w)
  PROVE  AddInv'
<1>1. PICK k \in ExitKeys : PressExitKey(w, k)  BY DEF Press
<1>2. /\ Prompting(w) /\ UNCHANGED <<config, edits, save, raced, lost, writes>>
      /\ Stage(w) \notin {"written", "completed"}
  BY DEF Press, Prompting, Prompts
<1>3. CASE keys[w].window = k
  <2>1. Exits(w)  BY <1>1, <1>3 DEF PressExitKey
  <2>. QED  BY <1>2, <2>1, ExitsKeeps
<1>4. CASE keys[w].window # k
  <2>1. /\ keys' = [keys EXCEPT ![w] = [window |-> k, timers |-> <<k>>]]
        /\ pressed' = [pressed EXCEPT ![w] = k] /\ UNCHANGED <<wizard, owed>>
    BY <1>1, <1>4 DEF PressExitKey
  <2>2. TalkTypes /\ KeysFit  BY Before
  <2>3. KeysStayFit
    <3>1. keys' \in [Wizards -> KeyRecords] /\ pressed' \in [Wizards -> {"none"} \cup ExitKeys]
      BY <2>1, <2>2, PressesType DEF TalkTypes
    <3>2. KeysFit'  BY <2>1, <2>2, PressesType DEF KeysFit, TalkTypes
    <3>. QED  BY <3>1, <3>2 DEF KeysStayFit
  <2>. QED  BY <1>2, <2>1, <2>3, KeepsTalking
<1>. QED  BY <1>3, <1>4

LEMMA WindowKeeps ==
  ASSUME AddInv, NEW w \in Wizards, WindowCloses(w)
  PROVE  AddInv'
<1>1. TalkTypes /\ KeysFit  BY Before
<1>2. /\ keys[w].timers # <<>> /\ UNCHANGED <<config, edits, wizard, save, owed, raced, lost, writes>>
      /\ keys' = [keys EXCEPT ![w] = [window |-> "closed", timers |-> Tail(@.timers)]]
      /\ pressed' = [pressed EXCEPT ![w] = IF Len(keys[w].timers) = 1 THEN "none" ELSE @]
  BY DEF WindowCloses
<1>3. pressed[w] # "none" /\ keys[w].timers = <<pressed[w]>> /\ pressed[w] \in ExitKeys
  BY <1>1, <1>2 DEF KeysFit, NoKeys, TalkTypes
<1>4. keys' = [keys EXCEPT ![w] = NoKeys] /\ pressed' = [pressed EXCEPT ![w] = "none"]
  <2>1. Len(keys[w].timers) = 1 /\ Tail(keys[w].timers) = <<>>  BY <1>3, PressesType
  <2>. QED  BY <1>1, <1>2, <2>1 DEF NoKeys, TalkTypes
<1>5. KeysStayFit  BY <1>1, <1>4, KeysCleared
<1>. QED  BY <1>2, <1>5, KeepsTalking

LEMMA AnswerQuestionKeeps ==
  ASSUME AddInv, NEW w \in Wizards, AnswerQuestion(w)
  PROVE  AddInv'
<1>1. /\ Stage(w) = "question" /\ UNCHANGED owed
      /\ UNCHANGED <<config, edits, save, raced, lost, writes>>
  BY DEF AnswerQuestion
<1>2. w \notin owed  BY <1>1, Before DEF Prompts
<1>3. CASE BeginsWait(w, "waiting")  BY <1>1, <1>2, <1>3, WaitsKeeps
<1>4. ASSUME NEW next \in {"question", "save"}, GoesTo(w, next)  PROVE AddInv'
  BY <1>1, <1>2, <1>4, OpensKeeps
<1>. QED  BY <1>3, <1>4 DEF AnswerQuestion

LEMMA AnswerSaveKeeps ==
  ASSUME AddInv, NEW w \in Wizards, AnswerSave(w)
  PROVE  AddInv'
<1>1. Stage(w) = "save" /\ UNCHANGED <<config, edits, save, raced, lost, writes>>
  BY DEF AnswerSave
<1>2. w \notin owed  BY <1>1, Before DEF Prompts
<1>3. CASE BeginsWait(w, "find") /\ UNCHANGED owed  BY <1>1, <1>2, <1>3, WaitsKeeps
<1>4. CASE AsksExit(w, "save")  BY <1>1, <1>4, AsksExitKeeps
<1>. QED  BY <1>3, <1>4 DEF AnswerSave

LEMMA AnswerExitKeeps ==
  ASSUME AddInv, NEW w \in Wizards, AnswerExit(w)
  PROVE  AddInv'
<1>1. Stage(w) = "exit" /\ UNCHANGED <<config, edits, save, raced, lost, writes>>
  BY DEF AnswerExit
<1>2. w \notin owed /\ wizard[w].back \in {"question", "save"}  BY <1>1, Before DEF Prompts
<1>3. CASE Exits(w)  BY <1>1, <1>3, ExitsKeeps
<1>4. CASE GoesTo(w, wizard[w].back) /\ UNCHANGED owed  BY <1>1, <1>2, <1>4, OpensKeeps
<1>. QED  BY <1>3, <1>4 DEF AnswerExit

LEMMA EndWaitKeeps ==
  ASSUME AddInv, NEW w \in Wizards, EndWait(w)
  PROVE  AddInv'
<1>1. Stage(w) = "waiting" /\ UNCHANGED <<config, edits, save, raced, lost, writes>>
  BY DEF EndWait
<1>2. CASE EndRunWait(w, "question")  BY <1>1, <1>2, EndRunWaitKeeps
<1>3. CASE /\ ~wizard[w].aborted /\ wizard[w].wait = "open"
           /\ BeginsWait(w, "waiting") /\ UNCHANGED owed
  <2>1. w \notin owed  BY <1>3, Before
  <2>. QED  BY <1>1, <1>3, <2>1, WaitsKeeps
<1>. QED  BY <1>2, <1>3 DEF EndWait

\* What a save said stands; what failed is asked again.
LEMMA EndSaveKeeps ==
  ASSUME AddInv, NEW w \in Wizards, EndSave(w)
  PROVE  AddInv'
<1>1. UNCHANGED <<config, edits, save, raced, lost, writes>>  BY DEF EndSave
<1>2. CASE Stage(w) = "written"
  <2>1. GoesTo(w, "completed") /\ owed' = owed \ {w}  BY <1>2 DEF EndSave
  <2>2. TalkTypes /\ KeysFit /\ "completed" \in Stages /\ "completed" \notin Prompts
    BY Before DEF Stages, Results, Prompts
  <2>3. KeysStayFit /\ Becomes(w, "completed", "none", "closed", wizard[w].aborted)
    BY <2>1, <2>2, GoesToIs
  <2>. QED  BY <1>1, <1>2, <2>1, <2>3, TalkKeeps
<1>3. CASE Stage(w) = "unwritten"
  <2>1. EndRunWait(w, "save")  BY <1>3 DEF EndSave
  <2>. QED  BY <1>1, <1>3, <2>1, EndRunWaitKeeps
<1>. QED  BY <1>2, <1>3 DEF EndSave

\* What an abort does, at a prompt and elsewhere.
LEMMA AbortIs ==
  ASSUME AddInv, NEW w \in Wizards, Abort(w)
  PROVE  /\ KeysStayFit
         /\ Becomes(w, IF Prompting(w) THEN "cancelled" ELSE Stage(w), wizard[w].back,
                    wizard[w].wait, TRUE)
<1>1. TalkTypes /\ KeysFit /\ wizard \in [Wizards -> WizardRecords]  BY Before DEF TalkTypes
<1>2. CASE Prompting(w)
  <2>1. "cancelled" \in Stages  BY DEF Stages, Results
  <2>2. /\ wizard' = [wizard EXCEPT ![w].aborted = TRUE, ![w].stage = "cancelled"]
        /\ keys' = [keys EXCEPT ![w] = NoKeys] /\ pressed' = [pressed EXCEPT ![w] = "none"]
    BY <1>2 DEF Abort
  <2>3. KeysStayFit  BY <1>1, <2>2, KeysCleared
  <2>. QED  BY <1>1, <1>2, <2>1, <2>2, <2>3 DEF Becomes, WizardRecords
<1>3. CASE ~Prompting(w)
  <2>1. wizard' = [wizard EXCEPT ![w].aborted = TRUE] /\ UNCHANGED <<keys, pressed>>
    BY <1>3 DEF Abort
  <2>2. KeysStayFit  BY <1>1, <2>1, KeysUnchanged
  <2>. QED  BY <1>1, <1>3, <2>1, <2>2 DEF Becomes, WizardRecords, Stage
<1>. QED  BY <1>2, <1>3

LEMMA AbortKeeps ==
  ASSUME AddInv, NEW w \in Wizards, Abort(w), Stage(w) \notin Results,
         \/ UNCHANGED owed
         \/ owed' = IF Stage(w) \in Prompts THEN owed ELSE owed \cup {w},
         UNCHANGED <<config, edits, save, raced, lost, writes>>
  PROVE  AddInv'
<1>. DEFINE next == IF Prompting(w) THEN "cancelled" ELSE Stage(w)
<1>1. KeysStayFit /\ Becomes(w, next, wizard[w].back, wizard[w].wait, TRUE)  BY AbortIs
<1>2. /\ next = "starting" => wizard[w].wait = "closed"
      /\ next = "exit" => wizard[w].back \in {"question", "save"}
  BY Before
<1>3. w \in owed' => next \notin Prompts \cup Results  BY Before DEF Prompting
<1>4. owed' \subseteq owed \cup {w}  OBVIOUS
<1>5. /\ next \in {"written", "completed"} <=> Stage(w) \in {"written", "completed"}
      /\ next \in {"resolve", "write"} => next = Stage(w)
  BY DEF Prompting, Prompts
<1>. HIDE DEF next
<1>. QED  BY <1>1, <1>2, <1>3, <1>4, <1>5, TalkKeeps

LEMMA SignalKeeps ==
  ASSUME AddInv, NEW w \in Wizards, Signal(w)
  PROVE  AddInv'
<1>1. /\ Stage(w) \notin Results /\ UNCHANGED <<config, edits, save, raced, lost, writes>>
      /\ owed' = IF Stage(w) \in Prompts THEN owed ELSE owed \cup {w}
  BY DEF Signal
<1>2. CASE /\ wizard[w].wait = "open" /\ wizard' = [wizard EXCEPT ![w].wait = "taken"]
           /\ UNCHANGED <<keys, pressed>>
  <2>1. TalkTypes /\ KeysFit /\ wizard \in [Wizards -> WizardRecords]  BY Before DEF TalkTypes
  <2>2. KeysStayFit  BY <1>2, <2>1, KeysUnchanged
  <2>3. Becomes(w, Stage(w), wizard[w].back, "taken", wizard[w].aborted)
    BY <1>2, <2>1 DEF Becomes, WizardRecords, Stage
  <2>4. Stage(w) # "starting" /\ (Stage(w) = "exit" => wizard[w].back \in {"question", "save"})
    BY <1>2, Before
  <2>5. w \in owed' => Stage(w) \notin Prompts \cup Results  BY <1>1, Before
  <2>. QED  BY <1>1, <2>2, <2>3, <2>4, <2>5, TalkKeeps
<1>3. CASE Abort(w)  BY <1>1, <1>3, AbortKeeps
<1>. QED  BY <1>2, <1>3 DEF Signal

LEMMA TerminateKeeps ==
  ASSUME AddInv, NEW w \in Wizards, Terminate(w)
  PROVE  AddInv'
BY AbortKeeps DEF Terminate

-----------------------------------------------------------------------------
(* There is always a free number.                                          *)

\* A finite set of integers that is not empty has a least one.
LEMMA Least ==
  ASSUME NEW S, S \subseteq Int, IsFiniteSet(S), S # {}
  PROVE  \E x \in S : \A y \in S : x <= y
<1>. DEFINE below == [n \in S |-> {m \in S : m < n}]
            family == {below[n] : n \in S}
            smaller == StrictSubsetOrdering(S)
<1>1. \A n \in S : below[n] \in SUBSET S /\ IsFiniteSet(below[n])
  BY FS_Subset
<1>2. family \subseteq FiniteSubsetsOf(S) /\ family # {}
  BY <1>1, Zenon DEF FiniteSubsetsOf
<1>3. \A x, y \in S : y < x => <<below[y], below[x]>> \in smaller
  <2>. SUFFICES ASSUME NEW x \in S, NEW y \in S, y < x  PROVE <<below[y], below[x]>> \in smaller
    OBVIOUS
  <2>1. \A n \in S : \A m : m \in below[n] <=> m \in S /\ m < n
    OBVIOUS
  <2>. HIDE DEF below
  <2>2. \A m \in S : m < y => m < x
    OBVIOUS
  <2>3. ~(y < y)
    OBVIOUS
  <2>4. below[y] \subseteq below[x] /\ y \in below[x] /\ y \notin below[y]
    BY <2>1, <2>2, <2>3
  <2>. QED  BY <1>1, <2>4 DEF StrictSubsetOrdering
<1>. HIDE DEF below
<1>4. \E T \in family : \A U \in family : <<U, T>> \notin smaller
  BY <1>2, FS_StrictSubsetOrderingWellFounded, WFMin, Zenon
<1>5. PICK x \in S : \A y \in S : <<below[y], below[x]>> \notin smaller
  BY <1>4
<1>. HIDE DEF smaller
<1>6. \A y \in S : ~(y < x)  BY <1>3, <1>5
<1>. QED  BY <1>6

\* An image is no larger than what it is the image of.
LEMMA ImageIsSmall ==
  ASSUME NEW S, IsFiniteSet(S), NEW f
  PROVE  IsFiniteSet({f[x] : x \in S}) /\ Cardinality({f[x] : x \in S}) <= Cardinality(S)
<1>. DEFINE T == {f[x] : x \in S}
            g == [x \in S |-> f[x]]
<1>1. g \in Surjection(S, T)  BY DEF Surjection
<1>. QED  BY <1>1, FS_Surjection

LEMMA NumberedIsSmall ==
  ASSUME NEW tasks, IsFiniteSet(tasks)
  PROVE  /\ IsFiniteSet(Numbered(tasks)) /\ Cardinality(Numbered(tasks)) <= Cardinality(tasks)
         /\ Distinct(tasks) => Cardinality(Numbered(tasks)) = Cardinality(tasks)
<1>. DEFINE g == [t \in tasks |-> t.id]
<1>1. g \in Surjection(tasks, Numbered(tasks))  BY DEF Surjection, Numbered
<1>2. ASSUME Distinct(tasks)  PROVE g \in Injection(tasks, Numbered(tasks))
  <2>1. g \in [tasks -> Numbered(tasks)]  BY DEF Numbered
  <2>2. \A t, u \in tasks : g[t] = g[u] => t = u  BY <1>2 DEF Distinct
  <2>. HIDE DEF g
  <2>. QED  BY <2>1, <2>2 DEF Injection, IsInjective
<1>. QED  BY <1>1, <1>2, FS_Surjection

LEMMA EverIs ==
  /\ \A t : t \in Ever <=> t \in config.tasks \/ \E v \in Wizards : t \in lost[v]
  /\ \A t : t \in Ever' <=> t \in config'.tasks \/ \E v \in Wizards : t \in lost'[v]
BY DEF Ever

\* Each wizard has used one number at most, the editor one for each edit and one before.
LEMMA NumbersUsed ==
  ASSUME AddInv, NEW W \in SUBSET Wizards, \A w \in Wizards : writes[w] = 1 => w \in W
  PROVE  /\ IsFiniteSet(Numbered(config.tasks))
         /\ Cardinality(Numbered(config.tasks)) <= Cardinality(W) + edits + 1
         /\ Cardinality(W) \in Nat /\ Cardinality(Numbered(config.tasks)) \in Nat
<1>. DEFINE number == [w \in W |-> save[w].id]
            own == {number[w] : w \in W}
            edited == Numbered(Edited)
<1>1. EverFits /\ edits \in Nat
  <2>1. MaxEdits \in Nat  BY TaskAddAssumption DEF TaskAddAssumption
  <2>. QED  BY <2>1 DEF AddInv, FileInv, AddTypeOK
<1>2. IsFiniteSet(W)  BY TaskAddAssumption, FS_Subset DEF TaskAddAssumption
<1>3. IsFiniteSet(own) /\ Cardinality(own) <= Cardinality(W)  BY <1>2, ImageIsSmall
<1>4. IsFiniteSet(Edited)  BY <1>1, FS_Subset DEF EverFits, Edited
<1>5. IsFiniteSet(edited) /\ Cardinality(edited) <= Cardinality(Edited)  BY <1>4, NumberedIsSmall
<1>6. /\ Cardinality(own) \in Nat /\ Cardinality(W) \in Nat /\ Cardinality(edited) \in Nat
      /\ Cardinality(Edited) \in Nat
  BY <1>2, <1>3, <1>4, <1>5, FS_CardinalityType
<1>7. Numbered(config.tasks) \subseteq edited \cup own
  <2>. SUFFICES ASSUME NEW t \in config.tasks  PROVE t.id \in edited \cup own
    BY DEF Numbered
  <2>1. t \in Ever /\ t \in TaskRecords  BY EverIs DEF AddInv, AddTypeOK
  <2>2. CASE t.by = "editor"  BY <2>1, <2>2 DEF Edited, Numbered
  <2>3. CASE t.by # "editor"
    <3>1. t.by \in Wizards /\ writes[t.by] = 1 /\ t = Own(t.by)
      BY <1>1, <2>1, <2>3 DEF EverFits, TaskRecords
    <3>2. t.by \in W /\ t.id = save[t.by].id  BY <3>1 DEF Own
    <3>. QED  BY <3>2
  <2>. QED  BY <2>2, <2>3
<1>. HIDE DEF own, edited
<1>8. /\ IsFiniteSet(edited \cup own)
      /\ Cardinality(edited \cup own) <= Cardinality(edited) + Cardinality(own)
  <2>1. IsFiniteSet(edited \cap own)  BY <1>3, <1>5, FS_Subset
  <2>2. Cardinality(edited \cap own) \in Nat  BY <2>1, FS_CardinalityType
  <2>. QED  BY <1>3, <1>5, <1>6, <2>2, FS_Union
<1>9. /\ IsFiniteSet(Numbered(config.tasks))
      /\ Cardinality(Numbered(config.tasks)) <= Cardinality(edited \cup own)
  BY <1>7, <1>8, FS_Subset
<1>10. Cardinality(Numbered(config.tasks)) \in Nat /\ Cardinality(edited \cup own) \in Nat
  BY <1>8, <1>9, FS_CardinalityType
<1>11. Cardinality(Edited) <= edits + 1  BY <1>1 DEF EverFits
<1>. QED  BY <1>1, <1>3, <1>5, <1>6, <1>8, <1>9, <1>10, <1>11

\* So a wizard that begins, or an edit that is made, finds a number nobody has.
LEMMA NextNumberIsFree ==
  ASSUME AddInv, edits < MaxEdits \/ \E w \in Wizards : Stage(w) = "starting"
  PROVE  NextNumber \in Numbers /\ NextNumber \notin Numbered(config.tasks)
<1>. DEFINE free == Numbers \ Numbered(config.tasks)
            many == Cardinality(Wizards)
<1>1. IsFiniteSet(Wizards) /\ MaxEdits \in Nat /\ many \in Nat /\ edits \in 0..MaxEdits
  BY TaskAddAssumption, FS_CardinalityType DEF TaskAddAssumption, AddInv, AddTypeOK
<1>2. /\ IsFiniteSet(Numbered(config.tasks))
      /\ Cardinality(Numbered(config.tasks)) <= many + MaxEdits
  <2>1. CASE edits < MaxEdits
    <3>1. /\ IsFiniteSet(Numbered(config.tasks)) /\ Cardinality(Numbered(config.tasks)) \in Nat
          /\ Cardinality(Numbered(config.tasks)) <= many + edits + 1
      BY NumbersUsed
    <3>. QED  BY <1>1, <2>1, <3>1
  <2>2. ASSUME NEW w \in Wizards, Stage(w) = "starting"
        PROVE  /\ IsFiniteSet(Numbered(config.tasks))
               /\ Cardinality(Numbered(config.tasks)) <= many + MaxEdits
    <3>1. \A v \in Wizards : writes[v] = 1 => v \in Wizards \ {w}
      BY <2>2 DEF AddInv, FileInv, WritesFit
    <3>2. /\ IsFiniteSet(Numbered(config.tasks)) /\ Cardinality(Numbered(config.tasks)) \in Nat
          /\ Cardinality(Numbered(config.tasks)) <= Cardinality(Wizards \ {w}) + edits + 1
      BY <3>1, NumbersUsed
    <3>3. Cardinality(Wizards \ {w}) = many - 1  BY <1>1, FS_RemoveElement
    <3>. QED  BY <1>1, <3>2, <3>3
  <2>. QED  BY <2>1, <2>2
<1>3. Numbers \subseteq Int /\ IsFiniteSet(Numbers) /\ Cardinality(Numbers) = many + MaxEdits + 1
  <2>1. many + MaxEdits + 1 \in Int /\ ~(1 > many + MaxEdits + 1)  BY <1>1
  <2>2. /\ IsFiniteSet(1..(many + MaxEdits + 1))
        /\ Cardinality(1..(many + MaxEdits + 1)) = many + MaxEdits + 1
    <3>. HIDE DEF many
    <3>. QED  BY <1>1, <2>1, FS_Interval
  <2>. QED  BY <2>2 DEF Numbers
<1>4. free # {}
  <2>. SUFFICES ASSUME Numbers \subseteq Numbered(config.tasks)  PROVE FALSE
    OBVIOUS
  <2>1. Cardinality(Numbers) <= Cardinality(Numbered(config.tasks))  BY <1>2, FS_Subset
  <2>2. Cardinality(Numbered(config.tasks)) \in Nat  BY <1>2, FS_CardinalityType
  <2>. QED  BY <1>1, <1>2, <1>3, <2>1, <2>2
<1>5. IsFiniteSet(free) /\ free \subseteq Int  BY <1>3, FS_Subset
<1>. HIDE DEF free
<1>6. \E n \in free : \A m \in free : n <= m  BY <1>4, <1>5, Least
<1>7. NextNumber = CHOOSE n \in free : \A m \in free : n <= m  BY DEF NextNumber, free
<1>8. NextNumber \in free  BY <1>6, <1>7
<1>. QED  BY <1>8 DEF free

-----------------------------------------------------------------------------
(* The steps of a save.                                                    *)

\* A step of a save leaves what the wizard owes as it was.
LEMMA SaveTalks ==
  ASSUME AddInv, NEW w \in Wizards, NEW stage \in Saving, SaveGoes(w, stage), Stage(w) \in Saving,
         UNCHANGED <<keys, owed, pressed>>
  PROVE  /\ TalkTypes' /\ TalkInv'
         /\ Becomes(w, stage, wizard[w].back, wizard[w].wait, wizard[w].aborted)
<1>1. TalkTypes /\ TalkInv /\ KeysFit /\ stage \in Stages
  BY TypesAre DEF AddInv, TalkInv, Stages
<1>2. KeysStayFit /\ Becomes(w, stage, wizard[w].back, wizard[w].wait, wizard[w].aborted)
  BY <1>1, SaveGoesIs
<1>3. w \in owed' => stage \notin Prompts \cup Results /\ (wizard[w].aborted \/ wizard[w].wait = "taken")
  BY Before DEF Prompts, Results, Saving
<1>4. stage # "starting" /\ stage # "exit"  BY DEF Saving
<1>. QED  BY <1>1, <1>2, <1>3, <1>4, TalkStays

\* A save that has no text yet, as it is when it starts.
LEMMA FindKeeps ==
  ASSUME AddInv, NEW w \in Wizards, FindConfig(w)
  PROVE  AddInv'
<1>. DEFINE next == CASE wizard[w].aborted -> "unwritten"
                      [] ~wizard[w].aborted /\ config.there -> "read"
                      [] ~wizard[w].aborted /\ ~config.there /\ save[w].bootstrap -> "resolve"
                      [] OTHER -> "unwritten"
<1>1. /\ Stage(w) = "find" /\ SaveGoes(w, next)
      /\ save' = [save EXCEPT ![w].text = {}] /\ raced' = [raced EXCEPT ![w] = {}]
      /\ UNCHANGED <<config, edits, keys, owed, pressed, lost, writes>>
  BY DEF FindConfig
<1>2. next \in {"unwritten", "read", "resolve"} /\ (next = "resolve" => ~config.there)
  OBVIOUS
<1>. HIDE DEF next
<1>3. TalkTypes' /\ TalkInv' /\ Becomes(w, next, wizard[w].back, wizard[w].wait, wizard[w].aborted)
  BY <1>1, <1>2, SaveTalks DEF Saving
<1>4. TalkTypes /\ FileTypes /\ FileInv  BY TypesAre DEF AddInv
<1>5. FileTypes'  BY <1>1, <1>4 DEF FileTypes
<1>6. /\ save'[w].text = {} /\ save'[w].id = save[w].id /\ raced'[w] = {}
      /\ \A v \in Wizards \ {w} : save'[v] = save[v] /\ raced'[v] = raced[v]
  BY <1>1, <1>4 DEF FileTypes
<1>7. WritesFit'  BY <1>1, <1>2, <1>3, <1>4, <1>6 DEF FileInv, WritesFit, Becomes, Stage
<1>8. SeesAll'
  BY <1>1, <1>2, <1>3, <1>4, <1>6 DEF FileInv, WritesFit, SeesAll, Becomes, Stage
<1>9. EverFits'
  <2>1. Ever' = Ever /\ Edited' = Edited  BY <1>1 DEF Ever, Edited
  <2>2. \A v \in Wizards : save'[v].text \subseteq save[v].text /\ save'[v].id = save[v].id  BY <1>6
  <2>3. \A t \in Ever : t.by # "editor" => t.by \in Wizards
    BY <1>4 DEF Ever, FileTypes, TaskRecords
  <2>. QED  BY <1>1, <1>4, <2>1, <2>2, <2>3 DEF FileInv, EverFits, Own
<1>10. NumbersDistinct'
  BY <1>1, <1>2, <1>3, <1>4, <1>6 DEF FileInv, NumbersDistinct, Distinct, Numbered, Becomes, Stage
<1>. QED  BY <1>3, <1>5, <1>7, <1>8, <1>9, <1>10, TypesAre DEF AddInv, FileInv

\* A step of a save that fails changes nothing.
LEMMA UnwrittenKeeps ==
  ASSUME AddInv, NEW w \in Wizards, Stage(w) \in {"read", "resolve", "write"}, SaveGoes(w, "unwritten"),
         UNCHANGED <<config, edits, keys, save, owed, pressed, raced, lost, writes>>
  PROVE  AddInv'
<1>1. Stage(w) \in Saving /\ "unwritten" \in Saving  BY DEF Saving
<1>2. TalkTypes' /\ TalkInv' /\ Becomes(w, "unwritten", wizard[w].back, wizard[w].wait, wizard[w].aborted)
  BY <1>1, SaveTalks
<1>3. FileTypes /\ FileInv  BY TypesAre DEF AddInv
<1>4. FileTypes' /\ FileInv'  BY <1>2, <1>3, FileStays
<1>. QED  BY <1>2, <1>4, TypesAre DEF AddInv

LEMMA ReadKeeps ==
  ASSUME AddInv, NEW w \in Wizards, ReadText(w)
  PROVE  AddInv'
<1>1. Stage(w) = "read" /\ UNCHANGED <<config, edits, keys, owed, pressed, lost, writes>>
  BY DEF ReadText
<1>2. CASE SaveGoes(w, "unwritten") /\ UNCHANGED <<save, raced>>
  BY <1>1, <1>2, UnwrittenKeeps
<1>3. CASE /\ SaveGoes(w, "resolve") /\ save' = [save EXCEPT ![w].text = config.tasks]
           /\ raced' = [raced EXCEPT ![w] = {}]
  <2>1. "resolve" \in Saving /\ Stage(w) \in Saving  BY <1>1 DEF Saving
  <2>2. TalkTypes' /\ TalkInv' /\ Becomes(w, "resolve", wizard[w].back, wizard[w].wait, wizard[w].aborted)
    BY <1>1, <1>3, <2>1, SaveTalks
  <2>3. FileTypes /\ FileInv  BY TypesAre DEF AddInv
  <2>4. FileTypes'  BY <1>1, <1>3, <2>3 DEF FileTypes
  <2>5. /\ save'[w].text = config.tasks /\ save'[w].id = save[w].id /\ raced'[w] = {}
        /\ \A v \in Wizards \ {w} : save'[v] = save[v] /\ raced'[v] = raced[v]
    BY <1>3, <2>3 DEF FileTypes
  <2>6. WritesFit'  BY <1>1, <2>2, <2>3, <2>5 DEF FileInv, WritesFit, Becomes, Stage
  <2>7. SeesAll'  BY <1>1, <2>2, <2>3, <2>5 DEF FileInv, SeesAll, Becomes, Stage
  <2>8. EverFits'
    <3>1. Ever' = Ever /\ Edited' = Edited  BY <1>1 DEF Ever, Edited
    <3>2. \A v \in Wizards : save'[v].text \subseteq save[v].text \cup Ever /\ save'[v].id = save[v].id
      BY <2>5, EverIs
    <3>3. \A t \in Ever : t.by # "editor" => t.by \in Wizards
      BY <2>3 DEF Ever, FileTypes, TaskRecords
    <3>. QED  BY <1>1, <2>3, <3>1, <3>2, <3>3 DEF FileInv, EverFits, Own
  <2>9. NumbersDistinct'
    BY <1>1, <2>2, <2>3, <2>5 DEF FileInv, NumbersDistinct, Distinct, Numbered, Becomes, Stage
  <2>. QED  BY <2>2, <2>4, <2>6, <2>7, <2>8, <2>9, TypesAre DEF AddInv, FileInv
<1>. QED  BY <1>2, <1>3 DEF ReadText

LEMMA ResolveKeeps ==
  ASSUME AddInv, NEW w \in Wizards, ResolveCandidate(w)
  PROVE  AddInv'
<1>1. /\ Stage(w) = "resolve"
      /\ UNCHANGED <<config, edits, keys, save, owed, pressed, raced, lost, writes>>
  BY DEF ResolveCandidate, histories
<1>2. CASE SaveGoes(w, "unwritten")  BY <1>1, <1>2, UnwrittenKeeps
<1>3. CASE save[w].id \notin Numbered(save[w].text) /\ SaveGoes(w, "write")
  <2>1. "write" \in Saving /\ Stage(w) \in Saving  BY <1>1 DEF Saving
  <2>2. TalkTypes' /\ TalkInv' /\ Becomes(w, "write", wizard[w].back, wizard[w].wait, wizard[w].aborted)
    BY <1>1, <1>3, <2>1, SaveTalks
  <2>3. FileTypes /\ FileInv  BY TypesAre DEF AddInv
  <2>4. FileTypes'  BY <1>1, <2>3 DEF FileTypes
  <2>5. WritesFit' /\ SeesAll'
    BY <1>1, <2>2, <2>3 DEF FileInv, WritesFit, SeesAll, Becomes, Stage
  <2>6. EverFits'
    <3>1. Ever' = Ever /\ Edited' = Edited  BY <1>1 DEF Ever, Edited
    <3>. QED  BY <1>1, <2>3, <3>1 DEF FileInv, EverFits, Own
  <2>7. NumbersDistinct'
    BY <1>1, <1>3, <2>2, <2>3 DEF FileInv, NumbersDistinct, Distinct, Numbered, Becomes, Stage
  <2>. QED  BY <2>2, <2>4, <2>5, <2>6, <2>7, TypesAre DEF AddInv, FileInv
<1>. QED  BY <1>2, <1>3 DEF ResolveCandidate

\* The whole file is replaced: by what was read of it and one task.
LEMMA ReplaceKeeps ==
  ASSUME AddInv, NEW w \in Wizards, ReplaceText(w)
  PROVE  AddInv'
<1>1. Stage(w) = "write" /\ UNCHANGED <<edits, keys, save, owed, pressed>>
  BY DEF ReplaceText
<1>2. CASE SaveGoes(w, "unwritten") /\ UNCHANGED <<config, raced, lost, writes>>
  BY <1>1, <1>2, UnwrittenKeeps
<1>3. CASE /\ config' = [there |-> TRUE, loads |-> TRUE, tasks |-> Candidate(w)]
           /\ lost' = [lost EXCEPT ![w] = @ \cup (config.tasks \ Candidate(w))]
           /\ writes' = [writes EXCEPT ![w] = @ + 1]
           /\ raced' = [RacedBy(Candidate(w)) EXCEPT ![w] = raced[w]]
           /\ SaveGoes(w, "written")
  <2>1. "written" \in Saving /\ Stage(w) \in Saving  BY <1>1 DEF Saving
  <2>2. TalkTypes' /\ TalkInv' /\ Becomes(w, "written", wizard[w].back, wizard[w].wait, wizard[w].aborted)
    BY <1>1, <1>3, <2>1, SaveTalks
  <2>3. FileTypes /\ FileInv  BY TypesAre DEF AddInv
  <2>4. writes[w] = 0 /\ lost[w] = {}  BY <1>1, <2>3 DEF FileInv, WritesFit
  <2>5. /\ config'.tasks = save[w].text \cup {Own(w)} /\ config'.there /\ config'.loads
        /\ lost'[w] = config.tasks \ config'.tasks
        /\ writes'[w] = 1 /\ raced'[w] = raced[w]
        /\ \A v \in Wizards \ {w} :
             /\ lost'[v] = lost[v] /\ writes'[v] = writes[v]
             /\ raced'[v] = IF Stage(v) \in Saving THEN raced[v] \cup config'.tasks ELSE raced[v]
    <3>1. config'.tasks = Candidate(w) /\ config'.there /\ config'.loads  BY <1>3
    <3>2. Candidate(w) = save[w].text \cup {Own(w)}  BY DEF Candidate, Own
    <3>3. lost'[w] = config.tasks \ Candidate(w) /\ writes'[w] = 1
      BY <1>3, <2>3, <2>4 DEF FileTypes
    <3>4. \A v \in Wizards \ {w} : lost'[v] = lost[v] /\ writes'[v] = writes[v]
      BY <1>3, <2>3 DEF FileTypes
    <3>5. RacedBy(Candidate(w)) =
            [v \in Wizards |-> IF Stage(v) \in Saving THEN raced[v] \cup Candidate(w) ELSE raced[v]]
      BY DEF RacedBy
    <3>6. /\ raced'[w] = raced[w]
          /\ \A v \in Wizards \ {w} :
               raced'[v] = IF Stage(v) \in Saving THEN raced[v] \cup Candidate(w) ELSE raced[v]
      BY <1>3, <3>5
    <3>. QED  BY <3>1, <3>2, <3>3, <3>4, <3>6
  <2>6. Own(w) \in TaskRecords /\ Own(w).by = w /\ w # "editor"
    BY <2>3, TaskAddAssumption DEF FileTypes, Own, TaskRecords, TaskAddAssumption
  <2>7. FileTypes'
    <3>1. Candidate(w) \in SUBSET TaskRecords  BY <2>3, <2>6 DEF FileTypes, Candidate, Own
    <3>2. config' \in [there : BOOLEAN, loads : BOOLEAN, tasks : SUBSET TaskRecords]
      BY <1>3, <3>1
    <3>3. raced' \in [Wizards -> SUBSET TaskRecords]
      BY <1>3, <2>3, <3>1 DEF FileTypes, RacedBy
    <3>4. lost' \in [Wizards -> SUBSET TaskRecords]  BY <1>3, <2>3 DEF FileTypes
    <3>5. writes' \in [Wizards -> 0..2]  BY <1>3, <2>3, <2>4 DEF FileTypes
    <3>. QED  BY <1>1, <2>3, <3>2, <3>3, <3>4, <3>5 DEF FileTypes
  <2>8. WritesFit'
    <3>1. config.tasks \subseteq save[w].text \cup raced[w]  BY <1>1, <2>3 DEF FileInv, SeesAll
    <3>2. lost'[w] \subseteq raced'[w]  BY <2>5, <3>1
    <3>3. \A v \in Wizards \ {w} : lost'[v] = lost[v] /\ writes'[v] = writes[v] /\ raced[v] \subseteq raced'[v]
      BY <2>5
    <3>. QED  BY <2>2, <2>3, <2>5, <3>2, <3>3 DEF FileInv, WritesFit, Becomes, Stage
  <2>9. SeesAll'
    <3>1. Stage(w)' = "written" /\ \A v \in Wizards \ {w} : Stage(v)' = Stage(v)
      BY <2>2 DEF Becomes, Stage
    <3>2. {"resolve", "write"} \subseteq Saving  BY DEF Saving
    <3>3. \A v \in Wizards \ {w} : Stage(v) \in {"resolve", "write"} => config'.tasks \subseteq raced'[v]
      BY <2>5, <3>2
    <3>. QED  BY <3>1, <3>3 DEF SeesAll
  <2>10. \A t : t \in Ever' <=> t \in Ever \/ t = Own(w)
    <3>1. save[w].text \subseteq Ever  BY <2>3 DEF FileInv, EverFits
    <3>. QED  BY <2>4, <2>5, <3>1, EverIs
  <2>11. EverFits'
    <3>1. Ever' = Ever \cup {Own(w)} /\ Edited' = Edited
      <4>1. Ever' = Ever \cup {Own(w)}  BY <2>10
      <4>. QED  BY <2>6, <4>1 DEF Edited
    <3>2. \A v \in Wizards : save'[v].text \subseteq Ever'
      BY <1>1, <2>3, <3>1 DEF FileInv, EverFits
    <3>3. \A v \in Wizards : Own(v)' = Own(v)  BY <1>1 DEF Own
    <3>4. ASSUME NEW v \in Wizards, writes'[v] = 1
          PROVE  Own(v) \in config'.tasks \cup UNION {lost'[u] : u \in Wizards \ {v}}
      <4>1. CASE v = w  BY <2>5, <4>1
      <4>2. CASE v # w
        <5>1. Own(v) \in config.tasks \cup UNION {lost[u] : u \in Wizards \ {v}}
          BY <2>3, <2>5, <3>4, <4>2 DEF FileInv, EverFits
        <5>2. CASE Own(v) \in config.tasks
          BY <2>5, <4>2, <5>2
        <5>3. ASSUME NEW u \in Wizards \ {v}, Own(v) \in lost[u]  PROVE Own(v) \in lost'[u]
          BY <2>4, <2>5, <5>3
        <5>. QED  BY <5>1, <5>2, <5>3
      <4>. QED  BY <4>1, <4>2
    <3>5. ASSUME NEW t \in Ever', t.by # "editor"  PROVE writes'[t.by] = 1 /\ t = Own(t.by)
      <4>1. CASE t = Own(w)  BY <2>5, <2>6, <4>1
      <4>2. CASE t \in Ever
        <5>1. writes[t.by] = 1 /\ t = Own(t.by)  BY <2>3, <3>5, <4>2 DEF FileInv, EverFits
        <5>2. t.by \in Wizards
          <6>1. t \in TaskRecords  BY <2>3, <4>2, EverIs DEF FileTypes
          <6>. QED  BY <3>5, <6>1 DEF TaskRecords
        <5>. QED  BY <2>4, <2>5, <5>1, <5>2
      <4>. QED  BY <2>10, <4>1, <4>2
    <3>6. IsFiniteSet(Ever') /\ Cardinality(Edited') <= edits' + 1
      BY <1>1, <2>3, <3>1, FS_AddElement DEF FileInv, EverFits
    <3>7. \A t \in Ever' : t.by # "editor" => t.by \in Wizards
      <4>1. \A t \in Ever' : t \in TaskRecords  BY <2>7, EverIs DEF FileTypes
      <4>. QED  BY <4>1 DEF TaskRecords
    <3>. QED  BY <3>2, <3>3, <3>4, <3>5, <3>6, <3>7 DEF EverFits
  <2>12. NumbersDistinct'
    <3>1. Distinct(save[w].text) /\ save[w].id \notin Numbered(save[w].text)
      BY <1>1, <2>3 DEF FileInv, NumbersDistinct
    <3>2. Distinct(config.tasks)'
      BY <2>5, <3>1 DEF Distinct, Numbered, Own
    <3>. QED  BY <1>1, <2>2, <2>3, <3>2 DEF FileInv, NumbersDistinct, Distinct, Numbered, Becomes, Stage
  <2>. QED  BY <2>2, <2>7, <2>8, <2>9, <2>11, <2>12, TypesAre DEF AddInv, FileInv
<1>. QED  BY <1>2, <1>3 DEF ReplaceText

-----------------------------------------------------------------------------
(* The first reading, the editor, and the start.                           *)

\* The number a wizard takes at the start is in no task that is its own.
LEMMA NumberingKeeps ==
  ASSUME AddInv, NEW w \in Wizards, Stage(w) = "starting",
         NEW stage \in {"question", "waiting", "cancelled", "failed"}, NEW back, NEW wait, NEW aborted,
         Becomes(w, stage, back, wait, aborted),
         NEW there \in BOOLEAN, NEW n \in Numbers,
         \/ save' = [save EXCEPT ![w].bootstrap = there, ![w].id = n]
         \/ save' = save,
         UNCHANGED <<config, edits, raced, lost, writes>>
  PROVE  FileTypes' /\ FileInv'
<1>1. FileTypes /\ FileInv  BY TypesAre DEF AddInv
<1>2. FileTypes'  BY <1>1 DEF FileTypes
<1>3. /\ \A v \in Wizards : save'[v].text = save[v].text
      /\ \A v \in Wizards \ {w} : save'[v] = save[v]
  BY <1>1 DEF FileTypes
<1>4. WritesFit' /\ SeesAll'
  BY <1>1, <1>3 DEF FileInv, WritesFit, SeesAll, Becomes, Stage
<1>5. writes[w] = 0  BY <1>1 DEF FileInv, WritesFit
<1>6. EverFits'
  <2>1. Ever' = Ever /\ Edited' = Edited  BY DEF Ever, Edited
  <2>2. \A v \in Wizards \ {w} : Own(v)' = Own(v)  BY <1>3 DEF Own
  <2>3. \A t \in Ever : t.by # "editor" => t.by \in Wizards \ {w}
    <3>1. \A t \in Ever : t \in TaskRecords  BY <1>1, EverIs DEF FileTypes
    <3>. QED  BY <1>1, <1>5, <3>1 DEF FileInv, EverFits, TaskRecords
  <2>4. \A t \in Ever : t.by # "editor" => writes'[t.by] = 1 /\ t = Own(t.by)'
    <3>. SUFFICES ASSUME NEW t \in Ever, t.by # "editor"
                  PROVE  writes[t.by] = 1 /\ t = [id |-> save'[t.by].id, by |-> t.by]
      BY DEF Own
    <3>1. writes[t.by] = 1 /\ t = Own(t.by) /\ t.by \in Wizards \ {w}
      BY <1>1, <2>3 DEF FileInv, EverFits
    <3>. QED  BY <1>3, <3>1 DEF Own
  <2>5. \A v \in Wizards : save'[v].text \subseteq Ever  BY <1>1, <1>3 DEF FileInv, EverFits
  <2>6. \A v \in Wizards : writes[v] = 1 =>
          v # w /\ Own(v) \in config.tasks \cup UNION {lost[u] : u \in Wizards \ {v}}
    BY <1>1, <1>5 DEF FileInv, EverFits
  <2>7. IsFiniteSet(Ever) /\ Cardinality(Edited) <= edits + 1  BY <1>1 DEF FileInv, EverFits
  <2>8. \A v \in Wizards : writes'[v] = 1 =>
          Own(v)' \in config'.tasks \cup UNION {lost'[u] : u \in Wizards \ {v}}
    BY <2>2, <2>6
  <2>. QED  BY <2>1, <2>4, <2>5, <2>7, <2>8 DEF EverFits, Own
<1>7. NumbersDistinct'
  BY <1>1, <1>3 DEF FileInv, NumbersDistinct, Distinct, Numbered, Becomes, Stage
<1>. QED  BY <1>2, <1>4, <1>6, <1>7 DEF FileInv

LEMMA ReadConfigKeeps ==
  ASSUME AddInv, NEW w \in Wizards, ReadConfig(w)
  PROVE  AddInv'
<1>1. /\ Stage(w) = "starting" /\ UNCHANGED <<config, edits, raced, lost, writes>>
      /\ owed' = IF wizard'[w].stage \in Results THEN owed \ {w} ELSE owed
  BY DEF ReadConfig
<1>2. TalkTypes /\ TalkInv /\ KeysFit  BY TypesAre DEF AddInv, TalkInv
<1>3. wizard[w].wait = "closed" /\ (w \in owed => wizard[w].aborted) /\ wizard[w].aborted \in BOOLEAN
  BY <1>1, Before DEF WizardRecords
<1>4. ASSUME NEW stage \in {"question", "waiting", "cancelled", "failed"}, NEW back, NEW wait,
             Becomes(w, stage, back, wait, wizard[w].aborted), KeysStayFit,
             stage = "question" => ~wizard[w].aborted,
             NEW there \in BOOLEAN, NEW n \in Numbers,
             save' = [save EXCEPT ![w].bootstrap = there, ![w].id = n] \/ save' = save
      PROVE  AddInv'
  <2>1. FileTypes' /\ FileInv'  BY <1>1, <1>4, NumberingKeeps
  <2>2. wizard'[w].stage = stage  BY <1>4 DEF Becomes
  <2>3. w \in owed' => stage \notin Prompts \cup Results /\ wizard[w].aborted
    BY <1>1, <1>3, <1>4, <2>2 DEF Prompts, Results
  <2>4. owed' \subseteq owed \cup {w}  BY <1>1
  <2>5. TalkTypes' /\ TalkInv'  BY <1>2, <1>4, <2>3, <2>4, TalkStays
  <2>. QED  BY <2>1, <2>5, TypesAre DEF AddInv
<1>5. TRUE \in BOOLEAN /\ 1 \in Numbers
  <2>1. Cardinality(Wizards) \in Nat /\ MaxEdits \in Nat
    BY TaskAddAssumption, FS_CardinalityType DEF TaskAddAssumption
  <2>. QED  BY <2>1 DEF Numbers
<1>6. CASE GoesTo(w, "failed") /\ UNCHANGED save
  <2>1. "failed" \in Stages /\ "failed" \notin Prompts  BY DEF Stages, Results, Prompts
  <2>2. KeysStayFit /\ Becomes(w, "failed", "none", "closed", wizard[w].aborted)
    BY <1>2, <1>6, <2>1, GoesToIs
  <2>. QED  BY <1>4, <1>5, <1>6, <2>2
<1>7. CASE /\ save' = [save EXCEPT ![w].bootstrap = ~config.there, ![w].id = NextNumber]
           /\ GoesTo(w, "question") \/ BeginsWait(w, "waiting")
  <2>1. (~config.there) \in BOOLEAN /\ NextNumber \in Numbers  BY <1>1, NextNumberIsFree
  <2>2. CASE GoesTo(w, "question")
    <3>1. "question" \in Stages /\ "question" \in Prompts  BY DEF Stages, Prompts
    <3>2. KeysStayFit /\ Becomes(w, IF wizard[w].aborted THEN "cancelled" ELSE "question",
                                 "none", "closed", wizard[w].aborted)
      BY <1>2, <2>2, <3>1, GoesToIs
    <3>3. CASE wizard[w].aborted  BY <1>4, <1>7, <2>1, <3>2, <3>3
    <3>4. CASE ~wizard[w].aborted  BY <1>4, <1>7, <2>1, <3>2, <3>4
    <3>. QED  BY <3>3, <3>4
  <2>3. CASE BeginsWait(w, "waiting")
    <3>1. "waiting" \in Stages  BY DEF Stages
    <3>2. KeysStayFit /\ Becomes(w, "waiting", wizard[w].back, "open", wizard[w].aborted)
      BY <1>2, <2>3, <3>1, BeginsWaitIs
    <3>. QED  BY <1>4, <1>7, <2>1, <3>2
  <2>. QED  BY <1>7, <2>2, <2>3
<1>. QED  BY <1>6, <1>7 DEF ReadConfig

\* What the editor writes, those that save are told of.
LEMMA EditKeeps ==
  ASSUME AddInv, Edit
  PROVE  AddInv'
<1>1. /\ edits < MaxEdits /\ edits' = edits + 1 /\ raced' = RacedBy(config'.tasks)
      /\ UNCHANGED <<wizard, keys, save, owed, pressed, lost, writes>>
  BY DEF Edit
<1>2. TalkTypes /\ FileTypes /\ TalkInv /\ FileInv  BY TypesAre DEF AddInv
<1>. DEFINE new == [id |-> NextNumber, by |-> "editor"]
<1>3. NextNumber \in Numbers /\ NextNumber \notin Numbered(config.tasks)  BY <1>1, NextNumberIsFree
<1>4. \/ config'.tasks = config.tasks \cup {new} /\ config'.there
      \/ config'.tasks = config.tasks /\ config'.there = config.there
  BY <1>2 DEF Edit, FileTypes
<1>5. new \in TaskRecords /\ new.by = "editor"  BY <1>3 DEF TaskRecords
<1>6. /\ config' \in [there : BOOLEAN, loads : BOOLEAN, tasks : SUBSET TaskRecords]
      /\ config'.tasks \in SUBSET TaskRecords
  <2>1. config \in [there : BOOLEAN, loads : BOOLEAN, tasks : SUBSET TaskRecords]  BY <1>2 DEF FileTypes
  <2>2. config.tasks \cup {new} \in SUBSET TaskRecords  BY <1>5, <2>1
  <2>. HIDE DEF new
  <2>3. CASE config' = [there |-> TRUE, loads |-> TRUE, tasks |-> config.tasks \cup {new}]
    BY <2>2, <2>3
  <2>4. CASE config' = [config EXCEPT !.loads = ~@]  BY <2>1, <2>4
  <2>. QED  BY <2>3, <2>4 DEF Edit, new
<1>7. raced' = [v \in Wizards |-> IF Stage(v) \in Saving THEN raced[v] \cup config'.tasks ELSE raced[v]]
  BY <1>1 DEF RacedBy
<1>8. FileTypes'
  <2>1. edits' \in 0..MaxEdits
    <3>1. MaxEdits \in Nat /\ edits \in 0..MaxEdits  BY <1>2, TaskAddAssumption DEF FileTypes, TaskAddAssumption
    <3>. QED  BY <1>1, <3>1
  <2>2. raced' \in [Wizards -> SUBSET TaskRecords]  BY <1>2, <1>6, <1>7 DEF FileTypes
  <2>. QED  BY <1>1, <1>2, <1>6, <2>1, <2>2 DEF FileTypes
<1>9. TalkTypes' /\ TalkInv'
  BY <1>1, <1>2 DEF TalkTypes, TalkInv, StagesFit, KeysFit, OwedFits, Stage
<1>10. WritesFit' /\ SeesAll'
  <2>1. ~config'.there => config'.tasks = {}  BY <1>2, <1>4 DEF FileInv, WritesFit
  <2>2. ASSUME NEW v \in Wizards
        PROVE  /\ writes[v] = (IF wizard[v].stage \in {"written", "completed"} THEN 1 ELSE 0)
               /\ writes[v] = 0 => lost[v] = {}
               /\ lost[v] \subseteq raced'[v]
    <3>1. /\ writes[v] = (IF wizard[v].stage \in {"written", "completed"} THEN 1 ELSE 0)
          /\ writes[v] = 0 => lost[v] = {}
          /\ lost[v] \subseteq raced[v]
      BY <1>2 DEF FileInv, WritesFit, Stage
    <3>2. raced[v] \subseteq raced'[v]  BY <1>7
    <3>. QED  BY <3>1, <3>2
  <2>3. WritesFit'  BY <1>1, <2>1, <2>2 DEF WritesFit, Stage
  <2>4. ASSUME NEW v \in Wizards, wizard[v].stage \in {"resolve", "write"}
        PROVE  config'.tasks \subseteq save[v].text \cup raced'[v]
    <3>1. Stage(v) \in Saving  BY <2>4 DEF Saving, Stage
    <3>2. config'.tasks \subseteq raced'[v]  BY <1>7, <3>1
    <3>. QED  BY <3>2
  <2>5. SeesAll'  BY <1>1, <2>4 DEF SeesAll, Stage
  <2>. QED  BY <2>3, <2>5
<1>. HIDE DEF new
<1>11. EverFits'
  <2>1. /\ Ever' \in {Ever, Ever \cup {new}}
        /\ config.tasks \subseteq config'.tasks
    <3>1. CASE config'.tasks = config.tasks
      <4>1. Ever' = Ever  BY <1>1, <3>1 DEF Ever
      <4>. QED  BY <3>1, <4>1
    <3>2. CASE config'.tasks = config.tasks \cup {new}
      <4>1. Ever' = Ever \cup {new}  BY <1>1, <3>2 DEF Ever
      <4>. QED  BY <3>2, <4>1
    <3>. QED  BY <1>4, <3>1, <3>2
  <2>2. IsFiniteSet(Edited) /\ IsFiniteSet(Ever)
    BY <1>2, FS_Subset DEF FileInv, EverFits, Edited
  <2>3. IsFiniteSet(Ever') /\ Cardinality(Edited') <= edits' + 1
    <3>1. Edited' \in {Edited, Edited \cup {new}}  BY <1>5, <2>1 DEF Edited
    <3>2. /\ Cardinality(Edited) \in Nat /\ Cardinality(Edited) <= edits + 1 /\ edits \in Nat
      BY <1>2, <2>2, TaskAddAssumption, FS_CardinalityType
         DEF FileInv, EverFits, FileTypes, TaskAddAssumption
    <3>3. Cardinality(Edited') <= Cardinality(Edited) + 1
      <4>1. Cardinality(Edited \cup {new}) = IF new \in Edited THEN Cardinality(Edited) ELSE Cardinality(Edited) + 1
        BY <2>2, FS_AddElement
      <4>2. CASE Edited' = Edited  BY <3>2, <4>2
      <4>3. CASE Edited' = Edited \cup {new}  BY <3>2, <4>1, <4>3
      <4>. QED  BY <3>1, <4>2, <4>3
    <3>4. Cardinality(Edited') \in Nat
      BY <2>2, <3>1, FS_AddElement, FS_CardinalityType
    <3>5. IsFiniteSet(Ever')  BY <2>1, <2>2, FS_AddElement
    <3>. QED  BY <1>1, <3>2, <3>3, <3>4, <3>5
  <2>4. \A v \in Wizards : Own(v)' = Own(v)  BY <1>1 DEF Own
  <2>5. \A t \in Ever' : t.by # "editor" => t \in Ever  BY <1>5, <2>1
  <2>6. \A t \in Ever : t.by # "editor" => t.by \in Wizards
    <3>1. \A t \in Ever : t \in TaskRecords  BY <1>2, EverIs DEF FileTypes
    <3>. QED  BY <3>1 DEF TaskRecords
  <2>7. \A v \in Wizards : save[v].text \subseteq Ever /\ Ever \subseteq Ever'
    BY <1>2, <2>1 DEF FileInv, EverFits
  <2>8. \A v \in Wizards : writes[v] = 1 =>
          Own(v) \in config'.tasks \cup UNION {lost[u] : u \in Wizards \ {v}}
    BY <1>2, <2>1 DEF FileInv, EverFits
  <2>. QED  BY <1>1, <1>2, <2>3, <2>4, <2>5, <2>6, <2>7, <2>8 DEF FileInv, EverFits
<1>12. NumbersDistinct'
  <2>1. Distinct(config.tasks)  BY <1>2 DEF FileInv, NumbersDistinct
  <2>2. Distinct(config.tasks)'
    BY <1>3, <1>4, <2>1 DEF Distinct, Numbered, new
  <2>. QED  BY <1>1, <1>2, <2>2 DEF FileInv, NumbersDistinct, Distinct, Numbered, Stage
<1>. QED  BY <1>8, <1>9, <1>10, <1>11, <1>12, TypesAre DEF AddInv, FileInv

LEMMA AddBegins == AddInit => AddInv
<1>. SUFFICES ASSUME AddInit  PROVE AddInv
  OBVIOUS
<1>1. Cardinality(Wizards) \in Nat /\ MaxEdits \in Nat
  BY TaskAddAssumption, FS_CardinalityType DEF TaskAddAssumption
<1>2. 1 \in Numbers /\ 0 \in 0..MaxEdits  BY <1>1 DEF Numbers
<1>3. TalkTypes
  <2>1. NoKeys \in KeyRecords  BY PressesType DEF ExitKeys
  <2>. QED  BY <2>1 DEF AddInit, TalkTypes, WizardRecords, Stages
<1>4. /\ config.tasks \subseteq {[id |-> 1, by |-> "editor"]}
      /\ config \in [there : BOOLEAN, loads : BOOLEAN, tasks : SUBSET TaskRecords]
      /\ ~config.there => config.tasks = {}
  <2>1. [id |-> 1, by |-> "editor"] \in TaskRecords  BY <1>2 DEF TaskRecords
  <2>2. CASE config = [there |-> FALSE, loads |-> TRUE, tasks |-> {}]  BY <2>2
  <2>3. ASSUME NEW l \in BOOLEAN, config = [there |-> TRUE, loads |-> l, tasks |-> {[id |-> 1, by |-> "editor"]}]
        PROVE  /\ config.tasks = {[id |-> 1, by |-> "editor"]} /\ config.there
               /\ config \in [there : BOOLEAN, loads : BOOLEAN, tasks : SUBSET TaskRecords]
    BY <2>1, <2>3
  <2>. QED  BY <2>2, <2>3 DEF AddInit
<1>5. FileTypes  BY <1>2, <1>4 DEF AddInit, FileTypes
<1>6. TalkInv
  BY DEF AddInit, TalkInv, StagesFit, KeysFit, OwedFits, Stage
<1>7. WritesFit /\ SeesAll
  BY <1>4 DEF AddInit, WritesFit, SeesAll, Stage
<1>8. EverFits
  <2>1. \A t \in Ever : t = [id |-> 1, by |-> "editor"]  BY <1>4, EverIs DEF AddInit
  <2>. DEFINE one == {[id |-> 1, by |-> "editor"]}
  <2>2. Ever \in SUBSET one /\ Edited \in SUBSET one  BY <2>1 DEF Edited
  <2>3. IsFiniteSet(one) /\ Cardinality(one) = 1  BY FS_Singleton
  <2>. HIDE DEF one
  <2>4. /\ IsFiniteSet(Ever) /\ IsFiniteSet(Edited) /\ Cardinality(Edited) <= 1
    BY <2>2, <2>3, FS_Subset
  <2>. QED  BY <2>1, <2>4 DEF AddInit, EverFits
<1>9. NumbersDistinct
  BY <1>4 DEF AddInit, NumbersDistinct, Distinct, Numbered, Stage
<1>. QED  BY <1>3, <1>5, <1>6, <1>7, <1>8, <1>9, TypesAre DEF AddInv, FileInv

LEMMA AddStutters ==
  ASSUME AddInv, UNCHANGED addVars
  PROVE  AddInv'
<1>1. TalkTypes /\ KeysFit  BY TypesAre DEF AddInv, TalkInv
<1>2. UNCHANGED <<config, edits, wizard, keys, save, owed, pressed, raced, lost, writes>>
  BY DEF addVars, histories
<1>. QED  BY <1>1, <1>2, KeysUnchanged, KeepsTalking

LEMMA AddInvHolds == AddSpec => []AddInv
<1>1. AddInv /\ [AddNext]_addVars => AddInv'
  <2>. SUFFICES ASSUME AddInv, [AddNext]_addVars  PROVE AddInv'
    OBVIOUS
  <2>1. CASE Edit  BY <2>1, EditKeeps
  <2>2. CASE UNCHANGED addVars  BY <2>2, AddStutters
  <2>3. ASSUME NEW w \in Wizards, Question(w)  PROVE AddInv'
    BY <2>3, PressKeeps, WindowKeeps, AnswerQuestionKeeps, AnswerSaveKeeps, AnswerExitKeeps
       DEF Question
  <2>4. ASSUME NEW w \in Wizards, SaveStep(w)  PROVE AddInv'
    BY <2>4, FindKeeps, ReadKeeps, ResolveKeeps, ReplaceKeeps, EndSaveKeeps DEF SaveStep
  <2>5. ASSUME NEW w \in Wizards, ReadConfig(w) \/ EndWait(w) \/ Signal(w) \/ Terminate(w)
        PROVE  AddInv'
    BY <2>5, ReadConfigKeeps, EndWaitKeeps, SignalKeeps, TerminateKeeps
  <2>. QED  BY <2>1, <2>2, <2>3, <2>4, <2>5 DEF AddNext
<1>. QED  BY <1>1, AddBegins, PTL DEF AddSpec

-----------------------------------------------------------------------------
(* The theorems.                                                           *)

\* Every reachable state of the wizards and their file is well typed: there is always
\* a number that is free, however many tasks were added and removed meanwhile.
THEOREM AddTypeCorrect == AddSpec => []AddTypeOK
<1>1. AddInv => AddTypeOK  BY DEF AddInv
<1>. QED  BY <1>1, AddInvHolds, PTL

\* A write removes only what another wrote after the file was read, what a wizard says
\* it wrote it has written once, and no two tasks have one number (createTask).
THEOREM ConfigIsKept == AddSpec => []ConfigKept
<1>1. AddInv => ConfigKept
  <2>. SUFFICES ASSUME AddInv  PROVE ConfigKept
    OBVIOUS
  <2>1. WritesFit /\ EverFits /\ NumbersDistinct  BY DEF AddInv, FileInv
  <2>2. IsFiniteSet(config.tasks)  BY <2>1, FS_Subset DEF EverFits, Ever
  <2>3. Cardinality(Numbered(config.tasks)) = Cardinality(config.tasks)
    BY <2>1, <2>2, NumberedIsSmall DEF NumbersDistinct
  <2>4. ASSUME NEW w \in Wizards
        PROVE  /\ lost[w] \subseteq raced[w]
               /\ Stage(w) \in {"cancelled", "failed"} => writes[w] = 0
               /\ Stage(w) = "completed" =>
                    /\ writes[w] = 1
                    /\ [id |-> save[w].id, by |-> w] \in config.tasks \cup UNION {lost[v] : v \in Wizards \ {w}}
    BY <2>1 DEF WritesFit, EverFits, Own
  <2>. QED  BY <2>3, <2>4 DEF ConfigKept
<1>. QED  BY <1>1, AddInvHolds, PTL

\* No prompt opens over an interrupt that was not answered and none is dropped, and a
\* second press ends a prompt only within the window of the first (runWait, runPrompt).
THEOREM InterruptsAreHonoured == AddSpec => []InterruptsHonoured
<1>1. AddInv => InterruptsHonoured
  <2>. SUFFICES ASSUME AddInv  PROVE InterruptsHonoured
    OBVIOUS
  <2>1. KeysFit /\ OwedFits  BY DEF AddInv, TalkInv
  <2>2. \A w \in Wizards : keys[w].window = (IF pressed[w] = "none" THEN "closed" ELSE pressed[w])
    <3>. TAKE w \in Wizards
    <3>1. CASE pressed[w] = "none"
      <4>1. keys[w] = NoKeys  BY <2>1, <3>1 DEF KeysFit
      <4>. QED  BY <3>1, <4>1 DEF NoKeys
    <3>2. CASE pressed[w] # "none"
      <4>1. keys[w] = [window |-> pressed[w], timers |-> <<pressed[w]>>]  BY <2>1, <3>2 DEF KeysFit
      <4>. QED  BY <3>2, <4>1
    <3>. QED  BY <3>1, <3>2
  <2>3. \A w \in Wizards : w \in owed => ~Prompting(w) /\ Stage(w) \notin {"cancelled", "completed"}
    BY <2>1 DEF OwedFits, Prompting, Results
  <2>. QED  BY <2>2, <2>3 DEF InterruptsHonoured
<1>. QED  BY <1>1, AddInvHolds, PTL

-----------------------------------------------------------------------------
(* The interview.                                                          *)

\* What is asked before anything is written down.
Early == step \in Bootstrapping \cup Locating \cup {"texts", "criteria", "draft review"}
\* The task's repository has been chosen and found in its place.
Placed == step \in (Locating \cup Describing) \ {"source", "repository", "new placement"}

RepositoriesFit ==
  /\ IsFiniteSet(settings.repositories)
  /\ Cardinality(settings.repositories) <= MaxEntries
  /\ Distinct(settings.repositories)
  /\ step \notin {"settings", "repositories", "placement", "change"} =>
       ~Clash(settings.output, settings.repositories)

\* A new entry, and one that was refused, has an identifier that is free.
IsNew(e) == e \in RepositoryEntries /\ e.id \notin Ids(settings.repositories)
EntryFits ==
  /\ step \in Bootstrapping \cup {"source"} => ~task.new /\ task.refused = NoEntry
  /\ task.refused = NoEntry \/ IsNew(task.refused)
  /\ step = "new placement" => IsNew(task.entry) /\ task.new
  /\ Placed => IF task.new THEN /\ IsNew(task.entry)
                               /\ ~Clash(settings.output, settings.repositories \cup {task.entry})
               ELSE task.entry \in settings.repositories

CloneFits ==
  /\ step = "clone" => task.entry.place \in HubPlaces
  /\ step \in {"reference", "base", "fetch", "inspect"} \cup Describing /\ task.entry.place \in HubPlaces =>
       task.entry.place \in passed.clones

InspectionFits ==
  step \in Describing => passed.inspection = <<task.entry, task.base, task.reference>>

\* What the agent block declares is there for a reason, and not for Jira.
Declares(b) == /\ b.secrets \cap settings.jira = {}
               /\ b.key # "" => b.provider /\ b.key \in b.secrets
BlockFits ==
  /\ block.secrets = justified /\ Declares(block)
  /\ keyAnswer \notin settings.jira
  /\ step \in {"settings", "repositories", "placement", "change"} => keyAnswer = "unasked" 
  /\ step = "settings" => block = EmptyBlock
  /\ step = "access" => block.secrets \subseteq round.candidate.secrets /\ Declares(round.candidate)

ChecksFit ==
  /\ Early => checks = [acceptance |-> {}, done |-> {}, names |-> {}]
  /\ checks.names \cap justified = {}
  /\ "naming" \notin checks.acceptance \cup checks.done
  /\ step \in {"acceptance", "done", "review"} => (draft.held <=> "plain" \in checks.acceptance)
  /\ step \in {"done", "review"} => HasRequired(checks.acceptance)
  /\ step = "review" => HasRequired(checks.done)

InterviewInv ==
  /\ InterviewTypeOK /\ RepositoriesFit /\ EntryFits /\ CloneFits /\ InspectionFits /\ BlockFits /\ ChecksFit

-----------------------------------------------------------------------------
(* Identifiers.                                                            *)

LEMMA IdsAreMany ==
  ASSUME NEW entries, IsFiniteSet(entries)
  PROVE  /\ IsFiniteSet(Ids(entries)) /\ Cardinality(Ids(entries)) <= Cardinality(entries)
         /\ Distinct(entries) => Cardinality(Ids(entries)) = Cardinality(entries)
<1>. DEFINE g == [e \in entries |-> e.id]
<1>1. g \in Surjection(entries, Ids(entries))  BY DEF Surjection, Ids
<1>2. ASSUME Distinct(entries)  PROVE g \in Injection(entries, Ids(entries))
  <2>1. g \in [entries -> Ids(entries)]  BY DEF Ids
  <2>2. \A e, f \in entries : g[e] = g[f] => e = f  BY <1>2 DEF Distinct
  <2>. HIDE DEF g
  <2>. QED  BY <2>1, <2>2 DEF Injection, IsInjective
<1>. QED  BY <1>1, <1>2, FS_Surjection

\* With no more entries than the bound there is a free identifier for any place.
LEMMA EntryIsFree ==
  ASSUME NEW entries, IsFiniteSet(entries), Cardinality(entries) <= MaxEntries, NEW p \in Places
  PROVE  /\ EntryAt(p, Ids(entries)) \in RepositoryEntries
         /\ EntryAt(p, Ids(entries)).id \notin Ids(entries)
<1>. DEFINE free == {n \in 1..MaxEntries + 1 : <<NameOf[p], n>> \notin Ids(entries)}
            many == MaxEntries + 1
<1>1. MaxEntries \in Nat \ {0} /\ many \in Nat /\ many = MaxEntries + 1 /\ ~(1 > many)
  BY InterviewAssumption DEF InterviewAssumption
<1>. HIDE DEF many
<1>2. IsFiniteSet(1..many) /\ Cardinality(1..many) = many  BY <1>1, FS_Interval
<1>3. free # {}
  <2>1. SUFFICES ASSUME free = {}  PROVE FALSE  OBVIOUS
  <2>. DEFINE f == [n \in 1..many |-> <<NameOf[p], n>>]
  <2>2. \A n \in 1..many : <<NameOf[p], n>> \in Ids(entries)  BY <1>1, <2>1
  <2>3. f \in [1..many -> Ids(entries)]  BY <2>2
  <2>4. \A m, n \in 1..many : f[m] = f[n] => m = n  OBVIOUS
  <2>. HIDE DEF f
  <2>5. f \in Injection(1..many, Ids(entries))  BY <2>3, <2>4 DEF Injection, IsInjective
  <2>6. IsFiniteSet(Ids(entries)) /\ Cardinality(Ids(entries)) <= Cardinality(entries)  BY IdsAreMany
  <2>7. Cardinality(1..many) <= Cardinality(Ids(entries))  BY <2>5, <2>6, FS_Injection
  <2>8. Cardinality(Ids(entries)) \in Nat /\ Cardinality(entries) \in Nat  BY <2>6, FS_CardinalityType
  <2>. QED  BY <1>1, <1>2, <2>6, <2>7, <2>8
<1>4. free \subseteq 1..many /\ IsFiniteSet(free) /\ free \subseteq Int
  <2>1. free \subseteq 1..many  BY <1>1
  <2>. HIDE DEF free
  <2>2. IsFiniteSet(free)  BY <1>2, <2>1, FS_Subset
  <2>3. 1..many \subseteq Int  OBVIOUS
  <2>. QED  BY <2>1, <2>2, <2>3
<1>. DEFINE least == CHOOSE n \in free : \A m \in free : n <= m
<1>5. least \in free
  <2>1. \E n \in free : \A m \in free : n <= m
    <3>. HIDE DEF free
    <3>. QED  BY <1>3, <1>4, Least
  <2>. HIDE DEF free
  <2>. QED  BY <2>1
<1>6. EntryAt(p, Ids(entries)) = [id |-> <<NameOf[p], least>>, place |-> p]  BY DEF EntryAt
<1>7. <<NameOf[p], least>> \notin Ids(entries) /\ least \in 1..MaxEntries + 1  BY <1>5
<1>. HIDE DEF least
<1>. QED  BY <1>6, <1>7 DEF RepositoryEntries

\* One more entry with an identifier of its own.
LEMMA OneMore ==
  ASSUME NEW entries, IsFiniteSet(entries), Distinct(entries), NEW e, e.id \notin Ids(entries)
  PROVE  /\ IsFiniteSet(entries \cup {e}) /\ Cardinality(entries \cup {e}) <= Cardinality(entries) + 1
         /\ Cardinality(entries) \in Nat /\ Distinct(entries \cup {e})
<1>1. Cardinality(entries) \in Nat  BY FS_CardinalityType
<1>2. /\ IsFiniteSet(entries \cup {e}) /\ Cardinality(entries \cup {e}) <= Cardinality(entries) + 1
  <2>1. /\ IsFiniteSet(entries \cup {e})
        /\ Cardinality(entries \cup {e}) = IF e \in entries THEN Cardinality(entries) ELSE Cardinality(entries) + 1
    BY FS_AddElement
  <2>. DEFINE before == Cardinality(entries)
              after == Cardinality(entries \cup {e})
  <2>2. before \in Nat /\ after \in {before, before + 1}  BY <1>1, <2>1
  <2>. HIDE DEF before, after
  <2>3. after <= before + 1  BY <2>2
  <2>. QED  BY <2>1, <2>3 DEF before, after
<1>3. Distinct(entries \cup {e})  BY DEF Distinct, Ids
<1>. QED  BY <1>1, <1>2, <1>3

-----------------------------------------------------------------------------
(* Types.                                                                  *)

LEMMA InterviewTypes ==
  ASSUME InterviewInv
  PROVE  /\ settings.output \in Outputs /\ settings.repositories \subseteq RepositoryEntries
         /\ settings.jira \subseteq Names /\ settings.role \in BOOLEAN
         /\ block \in Blocks /\ block.secrets \subseteq Names /\ block.key \in {""} \cup Names
         /\ DOMAIN settings = {"output", "repositories", "jira", "role"}
BY DEF InterviewInv, InterviewTypeOK, Blocks

\* What a step does to the settings.
SettingsStay == UNCHANGED <<settings.output, settings.repositories, settings.jira>>

LEMMA SettingsMove ==
  ASSUME InterviewInv, InterviewNext
  PROVE  \/ AskSettings \/ InterviewRepository \/ ChangeAnswer
         \/ SettingsStay
<1>0. settings.output \in Outputs /\ DOMAIN settings = {"output", "repositories", "jira", "role"}  BY InterviewTypes
<1>1. CASE CheckModel
  <2>1. settings' = settings \/ \E r : settings' = [settings EXCEPT !.role = r]
    BY <1>1, Zenon DEF CheckModel, AcceptModel, RefuseModel, AfterModel
  <2>. QED  BY <1>0, <2>1 DEF SettingsStay
<1>2. CASE DeclineRole
  <2>1. \E r : settings' = [settings EXCEPT !.role = r]
    BY <1>2, Zenon DEF DeclineRole, AfterModel
  <2>. QED  BY <1>0, <2>1 DEF SettingsStay
<1>3. CASE ~AskSettings /\ ~InterviewRepository /\ ~ChangeAnswer /\ ~CheckModel /\ ~DeclineRole
  <2>1. settings' = settings
    BY <1>3, Zenon DEF InterviewNext, Bootstrap, Locate, Describe, CheckPlacement, InspectModel, InterviewSource,
       SelectRepository, CheckNewPlacement, PrepareClone, InterviewReference, AnswerBase, EnsureBaseCommit,
       InspectBaseCommit, WriteTexts, DraftCriteria, EditDraft, AcceptDraft, WriteOwnCriteria, AddCheck, EndChecks
  <2>. QED  BY <2>1 DEF SettingsStay
<1>. QED  BY <1>1, <1>2, <1>3

\* The settings of a run, and whether its repositories are in their places.
LEMMA RepositoriesKeep ==
  ASSUME InterviewInv, InterviewNext
  PROVE  RepositoriesFit' /\ settings'.repositories \subseteq RepositoryEntries
<1>0. /\ IsFiniteSet(settings.repositories) /\ Cardinality(settings.repositories) <= MaxEntries
      /\ Distinct(settings.repositories) /\ settings.repositories \subseteq RepositoryEntries
      /\ step \notin {"settings", "repositories", "placement", "change"} =>
           ~Clash(settings.output, settings.repositories)
      /\ Cardinality(settings.repositories) \in Nat /\ MaxEntries \in Nat
  <2>1. IsFiniteSet(settings.repositories)  BY DEF InterviewInv, RepositoriesFit
  <2>2. Cardinality(settings.repositories) \in Nat  BY <2>1, FS_CardinalityType
  <2>. QED  BY <2>2, InterviewTypes, InterviewAssumption DEF InterviewInv, RepositoriesFit, InterviewAssumption
<1>00. DOMAIN settings = {"output", "repositories", "jira", "role"}  BY InterviewTypes
<1>1. CASE AskSettings
  <2>1. /\ step' = "repositories"
        /\ \E o, j : settings' = [settings EXCEPT !.output = o, !.jira = j]
    BY <1>1 DEF AskSettings
  <2>2. settings'.repositories = settings.repositories  BY <1>00, <2>1
  <2>. QED  BY <1>0, <2>1, <2>2 DEF RepositoriesFit
<1>2. CASE InterviewRepository
  <2>1. /\ step' \in {"repositories", "placement"} /\ Cardinality(settings.repositories) < MaxEntries
        /\ \E p \in Places : settings'.repositories =
                               settings.repositories \cup {EntryAt(p, Ids(settings.repositories))}
    BY <1>00, <1>2 DEF InterviewRepository
  <2>2. PICK p \in Places : settings'.repositories =
                              settings.repositories \cup {EntryAt(p, Ids(settings.repositories))}
    BY <2>1
  <2>. DEFINE e == EntryAt(p, Ids(settings.repositories))
  <2>3. e \in RepositoryEntries /\ e.id \notin Ids(settings.repositories)
    BY <1>0, EntryIsFree
  <2>. HIDE DEF e
  <2>4. /\ IsFiniteSet(settings.repositories \cup {e}) /\ Distinct(settings.repositories \cup {e})
        /\ Cardinality(settings.repositories \cup {e}) <= Cardinality(settings.repositories) + 1
    BY <1>0, <2>3, OneMore
  <2>5. Cardinality(settings.repositories \cup {e}) \in Nat  BY <2>4, FS_CardinalityType
  <2>6. Cardinality(settings.repositories \cup {e}) <= MaxEntries  BY <1>0, <2>1, <2>4, <2>5
  <2>7. settings'.repositories = settings.repositories \cup {e}  BY <2>2 DEF e
  <2>. QED  BY <1>0, <2>1, <2>3, <2>4, <2>6, <2>7 DEF RepositoriesFit
<1>3. CASE ChangeAnswer
  <2>1. step' = "placement"  BY <1>3 DEF ChangeAnswer
  <2>2. CASE settings'.repositories = settings.repositories
    BY <1>0, <2>1, <2>2 DEF RepositoriesFit
  <2>3. CASE settings'.repositories # settings.repositories
    <3>1. PICK x \in settings.repositories, p \in Places :
            settings'.repositories = (settings.repositories \ {x}) \cup {EntryAt(p, Ids(settings.repositories \ {x}))}
      BY <1>00, <1>3, <2>3 DEF ChangeAnswer
    <3>. DEFINE others == settings.repositories \ {x}
                e == EntryAt(p, Ids(others))
    <3>2. /\ IsFiniteSet(others) /\ Cardinality(others) = Cardinality(settings.repositories) - 1
      BY <1>0, FS_RemoveElement
    <3>3. Distinct(others) /\ others \subseteq RepositoryEntries  BY <1>0 DEF Distinct
    <3>. HIDE DEF others
    <3>4. Cardinality(others) <= MaxEntries /\ Cardinality(others) \in Nat  BY <1>0, <3>2, FS_CardinalityType
    <3>5. e \in RepositoryEntries /\ e.id \notin Ids(others)  BY <3>2, <3>4, EntryIsFree
    <3>. HIDE DEF e
    <3>6. /\ IsFiniteSet(others \cup {e}) /\ Distinct(others \cup {e})
          /\ Cardinality(others \cup {e}) <= Cardinality(others) + 1
      BY <3>2, <3>3, <3>5, OneMore
    <3>7. Cardinality(others \cup {e}) \in Nat  BY <3>6, FS_CardinalityType
    <3>8. Cardinality(others \cup {e}) <= MaxEntries  BY <1>0, <3>2, <3>4, <3>6, <3>7
    <3>9. settings'.repositories = others \cup {e}  BY <3>1 DEF others, e
    <3>. QED  BY <2>1, <3>3, <3>5, <3>6, <3>8, <3>9 DEF RepositoriesFit
  <2>. QED  BY <2>2, <2>3
<1>4. CASE SettingsStay /\ ~AskSettings /\ ~InterviewRepository /\ ~ChangeAnswer
  <2>1. settings'.output = settings.output /\ settings'.repositories = settings.repositories
    BY <1>4 DEF SettingsStay
  <2>2. CASE CheckPlacement
    <3>1. step' = IF Clash(settings.output, settings.repositories) THEN "change" ELSE "model"
      BY <2>2 DEF CheckPlacement
    <3>. QED  BY <1>0, <2>1, <3>1 DEF RepositoriesFit
  <2>3. CASE ~CheckPlacement
    <3>1. step \notin {"settings", "repositories", "placement", "change"}
      BY <1>4, <2>3 DEF InterviewNext, Bootstrap, Locate, Describe, InspectModel, CheckModel, DeclineRole, InterviewSource,
       SelectRepository, CheckNewPlacement, PrepareClone, InterviewReference, AnswerBase, EnsureBaseCommit,
       InspectBaseCommit, WriteTexts, DraftCriteria, EditDraft, AcceptDraft, WriteOwnCriteria, AddCheck, EndChecks
    <3>. QED  BY <1>0, <2>1, <3>1 DEF RepositoriesFit
  <2>. QED  BY <2>2, <2>3
<1>. QED  BY <1>1, <1>2, <1>3, <1>4, SettingsMove

-----------------------------------------------------------------------------
(* The task's repository.                                                  *)

LEMMA TaskTypes ==
  ASSUME InterviewInv
  PROVE  /\ DOMAIN task = {"entry", "new", "refused", "reference", "base"}
         /\ task.new \in BOOLEAN
         /\ task.entry \in RepositoryEntries \cup {NoEntry} /\ task.refused \in RepositoryEntries \cup {NoEntry}
         /\ DOMAIN passed = {"clones", "inspection"} /\ passed.clones \subseteq HubPlaces
BY DEF InterviewInv, InterviewTypeOK

\* The actions that change the task.
ChoosesTask == SelectRepository \/ CheckNewPlacement \/ PrepareClone \/ InterviewReference \/ AnswerBase

LEMMA TaskMoves ==
  ASSUME InterviewInv, InterviewNext, ~ChoosesTask
  PROVE  /\ task' = task
         /\ Placed' => Placed
         /\ step' \in Bootstrapping \cup {"source"} => step \in Bootstrapping \cup {"source"}
         /\ step' # "new placement" /\ step' # "clone"
         /\ step' \in {"reference", "base", "fetch", "inspect"} \cup Describing
              => step \in {"reference", "base", "fetch", "inspect"} \cup Describing
         /\ passed' = passed \/ (step = "inspect" /\ step' = "texts"
                                 /\ passed' = [passed EXCEPT !.inspection = <<task.entry, task.base, task.reference>>])
         /\ step' \in Describing => step \in Describing \/ (InspectBaseCommit /\ step' = "texts")
<1>. USE DEF Placed, Bootstrapping, Locating, Describing
<1>1. CASE Bootstrap
  BY <1>1 DEF Bootstrap, AskSettings, InterviewRepository, CheckPlacement, ChangeAnswer, InspectModel, CheckModel,
     AcceptModel, RefuseModel, AfterModel, DeclineRole
<1>2. CASE Locate
  BY <1>2 DEF Locate, ChoosesTask, InterviewSource, EnsureBaseCommit, InspectBaseCommit
<1>3. CASE Describe
  <2>1. /\ step \in {"texts", "criteria", "draft review", "acceptance", "done", "review"}
        /\ step' \in {"criteria", "draft review", "acceptance", "done", "review"}
        /\ task' = task /\ passed' = passed
    BY <1>3 DEF Describe, WriteTexts, DraftCriteria, EditDraft, AcceptDraft, WriteOwnCriteria, AddCheck, EndChecks
  <2>. QED  BY <2>1
<1>. QED  BY <1>1, <1>2, <1>3 DEF InterviewNext

LEMMA EntryKeeps ==
  ASSUME InterviewInv, InterviewNext
  PROVE  EntryFits' /\ task'.entry \in RepositoryEntries \cup {NoEntry} /\ task'.refused \in RepositoryEntries \cup {NoEntry}
<1>0. /\ DOMAIN task = {"entry", "new", "refused", "reference", "base"}
      /\ task.entry \in RepositoryEntries \cup {NoEntry} /\ task.refused \in RepositoryEntries \cup {NoEntry}
  BY TaskTypes
<1>00. /\ step \in Bootstrapping \cup {"source"} => ~task.new /\ task.refused = NoEntry
       /\ task.refused = NoEntry \/ IsNew(task.refused)
       /\ step = "new placement" => IsNew(task.entry) /\ task.new
       /\ Placed => IF task.new THEN /\ IsNew(task.entry)
                                     /\ ~Clash(settings.output, settings.repositories \cup {task.entry})
                    ELSE task.entry \in settings.repositories
  BY DEF InterviewInv, EntryFits
<1>1. CASE ~SettingsStay
  <2>1. AskSettings \/ InterviewRepository \/ ChangeAnswer  BY <1>1, SettingsMove
  <2>2. task' = task /\ step \in Bootstrapping /\ step' \in Bootstrapping
    BY <2>1 DEF AskSettings, InterviewRepository, ChangeAnswer, Bootstrapping
  <2>3. ~Placed' /\ step' # "new placement"  BY <2>2 DEF Placed, Bootstrapping, Locating, Describing
  <2>. QED  BY <1>0, <1>00, <2>2, <2>3 DEF EntryFits
<1>2. CASE SettingsStay /\ ~ChoosesTask
  <2>1. /\ task' = task /\ (Placed' => Placed) /\ step' # "new placement"
        /\ step' \in Bootstrapping \cup {"source"} => step \in Bootstrapping \cup {"source"}
    BY <1>2, TaskMoves
  <2>2. settings'.repositories = settings.repositories /\ settings'.output = settings.output
    BY <1>2 DEF SettingsStay
  <2>3. \A e : IsNew(e) => IsNew(e)'  BY <2>2 DEF IsNew
  <2>. QED  BY <1>0, <1>00, <2>1, <2>2, <2>3 DEF EntryFits
<1>3. CASE ChoosesTask /\ SettingsStay
  <2>2. settings'.repositories = settings.repositories /\ settings'.output = settings.output
    BY <1>3 DEF SettingsStay
  <2>3. \A e : IsNew(e) => IsNew(e)'  BY <2>2 DEF IsNew
  <2>4. CASE SelectRepository
    <3>1. CASE \E e \in settings.repositories :
                 task' = [task EXCEPT !.entry = e, !.new = FALSE] /\ step' = AfterPlacement(e)
      <4>1. PICK e \in settings.repositories :
                 task' = [task EXCEPT !.entry = e, !.new = FALSE] /\ step' = AfterPlacement(e)
        BY <3>1
      <4>2. task'.entry = e /\ ~task'.new /\ task'.refused = task.refused  BY <1>0, <4>1
      <4>3. step' \in {"clone", "reference"}  BY <4>1 DEF AfterPlacement
      <4>4. e \in RepositoryEntries  BY InterviewTypes
      <4>. QED  BY <1>0, <1>00, <2>2, <2>3, <4>2, <4>3, <4>4 DEF EntryFits, Bootstrapping
    <3>2. CASE \E e \in {EntryAt(p, Ids(settings.repositories)) : p \in Places} \cup ({task.refused} \ {NoEntry}) :
                 task' = [task EXCEPT !.entry = e, !.new = TRUE] /\ step' = "new placement"
      <4>1. PICK e \in {EntryAt(p, Ids(settings.repositories)) : p \in Places} \cup ({task.refused} \ {NoEntry}) :
                 task' = [task EXCEPT !.entry = e, !.new = TRUE] /\ step' = "new placement"
        BY <3>2
      <4>2. task'.entry = e /\ task'.new /\ task'.refused = task.refused  BY <1>0, <4>1
      <4>3. IsNew(e)
        <5>1. CASE e = task.refused /\ e # NoEntry  BY <1>00, <5>1
        <5>2. ASSUME NEW p \in Places, e = EntryAt(p, Ids(settings.repositories))  PROVE IsNew(e)
          <6>1. IsFiniteSet(settings.repositories) /\ Cardinality(settings.repositories) <= MaxEntries
            BY DEF InterviewInv, RepositoriesFit
          <6>. QED  BY <5>2, <6>1, EntryIsFree DEF IsNew
        <5>. QED  BY <4>1, <5>1, <5>2
      <4>4. ~Placed'  BY <4>1 DEF Placed
      <4>. QED  BY <1>0, <1>00, <2>2, <2>3, <4>1, <4>2, <4>3, <4>4 DEF EntryFits, Bootstrapping, IsNew
    <3>. QED  BY <2>4, <3>1, <3>2 DEF SelectRepository
  <2>5. CASE CheckNewPlacement
    <3>1. step = "new placement" /\ IsNew(task.entry) /\ task.new  BY <1>00, <2>5 DEF CheckNewPlacement
    <3>2. CASE Clash(settings.output, settings.repositories \cup {task.entry})
      <4>1. step' = "repository" /\ task' = [task EXCEPT !.refused = task.entry]
        BY <2>5, <3>2 DEF CheckNewPlacement
      <4>2. task'.refused = task.entry /\ task'.entry = task.entry  BY <1>0, <4>1
      <4>3. ~Placed'  BY <4>1 DEF Placed
      <4>. QED  BY <1>0, <2>3, <3>1, <4>1, <4>2, <4>3 DEF EntryFits, Bootstrapping
    <3>3. CASE ~Clash(settings.output, settings.repositories \cup {task.entry})
      <4>1. step' \in {"clone", "reference"} /\ task' = task
        BY <2>5, <3>3 DEF CheckNewPlacement, AfterPlacement
      <4>. QED  BY <1>0, <1>00, <2>2, <2>3, <3>1, <3>3, <4>1 DEF EntryFits, Bootstrapping
    <3>. QED  BY <3>2, <3>3
  <2>6. CASE PrepareClone
    <3>1. step = "clone" /\ Placed  BY <2>6 DEF PrepareClone, Placed, Locating
    <3>2. CASE step' = "reference" /\ task' = task
      BY <1>0, <1>00, <2>2, <2>3, <3>1, <3>2 DEF EntryFits, Bootstrapping
    <3>3. CASE step' = "repository" /\ task' = IF task.new THEN [task EXCEPT !.refused = task.entry] ELSE task
      <4>1. ~Placed'  BY <3>3 DEF Placed
      <4>2. CASE task.new
        <5>1. task'.refused = task.entry /\ task'.entry = task.entry /\ IsNew(task.entry)  BY <1>0, <1>00, <3>1, <3>3, <4>2
        <5>. QED  BY <1>0, <2>3, <3>3, <4>1, <5>1 DEF EntryFits, Bootstrapping
      <4>3. CASE ~task.new
        <5>1. task' = task  BY <3>3, <4>3
        <5>. QED  BY <1>0, <1>00, <2>3, <3>3, <4>1, <5>1 DEF EntryFits, Bootstrapping
      <4>. QED  BY <4>2, <4>3
    <3>. QED  BY <2>6, <3>2, <3>3 DEF PrepareClone
  <2>7. CASE InterviewReference \/ AnswerBase
    <3>1. /\ Placed /\ step' \in {"base", "fetch", "inspect"}
          /\ \/ \E r : task' = [task EXCEPT !.reference = r, !.refused = NoEntry]
             \/ \E b : task' = [task EXCEPT !.base = b]
      BY <2>7 DEF InterviewReference, AnswerBase, Placed, Locating
    <3>2. /\ task'.entry = task.entry /\ task'.new = task.new
          /\ task'.refused = task.refused \/ task'.refused = NoEntry
      BY <1>0, <3>1
    <3>. QED  BY <1>0, <1>00, <2>2, <2>3, <3>1, <3>2 DEF EntryFits, Bootstrapping
  <2>. QED  BY <1>3, <2>4, <2>5, <2>6, <2>7 DEF ChoosesTask
<1>. QED  BY <1>1, <1>2, <1>3

LEMMA CloneKeeps ==
  ASSUME InterviewInv, InterviewNext
  PROVE  CloneFits' /\ DOMAIN passed' = {"clones", "inspection"} /\ passed'.clones \subseteq HubPlaces
<1>0. /\ DOMAIN task = {"entry", "new", "refused", "reference", "base"}
      /\ DOMAIN passed = {"clones", "inspection"} /\ passed.clones \subseteq HubPlaces
  BY TaskTypes
<1>1. step \in {"reference", "base", "fetch", "inspect"} \cup Describing /\ task.entry.place \in HubPlaces =>
        task.entry.place \in passed.clones
  BY DEF InterviewInv, CloneFits
<1>2. CASE ~ChoosesTask
  <2>1. /\ task' = task /\ step' # "clone"
        /\ step' \in {"reference", "base", "fetch", "inspect"} \cup Describing
              => step \in {"reference", "base", "fetch", "inspect"} \cup Describing
        /\ passed' = passed \/ \E i : passed' = [passed EXCEPT !.inspection = i]
    BY <1>2, TaskMoves
  <2>2. passed'.clones = passed.clones /\ DOMAIN passed' = {"clones", "inspection"}  BY <1>0, <2>1
  <2>. QED  BY <1>0, <1>1, <2>1, <2>2 DEF CloneFits
<1>3. CASE SelectRepository \/ CheckNewPlacement
  <2>1. passed' = passed  BY <1>3 DEF SelectRepository, CheckNewPlacement
  <2>2. \/ step' \in {"new placement", "repository"}
        \/ step' = "clone" /\ task'.entry.place \in HubPlaces
        \/ step' = "reference" /\ task'.entry.place \notin HubPlaces
    <3>1. CASE SelectRepository  BY <1>0, <3>1 DEF SelectRepository, AfterPlacement
    <3>2. CASE CheckNewPlacement  BY <1>0, <3>2 DEF CheckNewPlacement, AfterPlacement
    <3>. QED  BY <1>3, <3>1, <3>2
  <2>. QED  BY <1>0, <2>1, <2>2 DEF CloneFits, Describing
<1>4. CASE PrepareClone
  <2>1. CASE step' = "reference" /\ passed' = [passed EXCEPT !.clones = @ \cup {task.entry.place}] /\ task' = task
    <3>1. task.entry.place \in HubPlaces
      BY <1>4 DEF PrepareClone, InterviewInv, CloneFits
    <3>2. passed'.clones = passed.clones \cup {task.entry.place} /\ DOMAIN passed' = {"clones", "inspection"}
      BY <1>0, <2>1
    <3>. QED  BY <1>0, <2>1, <3>1, <3>2 DEF CloneFits
  <2>2. CASE step' = "repository" /\ passed' = passed
    BY <1>0, <2>2 DEF CloneFits, Describing
  <2>. QED  BY <1>4, <2>1, <2>2 DEF PrepareClone
<1>5. CASE InterviewReference \/ AnswerBase
  <2>1. /\ step \in {"reference", "base"} /\ step' # "clone" /\ passed' = passed
        /\ \/ \E r : task' = [task EXCEPT !.reference = r, !.refused = NoEntry]
           \/ \E b : task' = [task EXCEPT !.base = b]
    BY <1>5 DEF InterviewReference, AnswerBase
  <2>2. task'.entry = task.entry  BY <1>0, <2>1
  <2>. QED  BY <1>0, <1>1, <2>1, <2>2 DEF CloneFits
<1>. QED  BY <1>2, <1>3, <1>4, <1>5 DEF ChoosesTask

LEMMA InspectionKeeps ==
  ASSUME InterviewInv, InterviewNext
  PROVE  InspectionFits'
<1>0. /\ DOMAIN task = {"entry", "new", "refused", "reference", "base"} /\ DOMAIN passed = {"clones", "inspection"}
      /\ step \in Describing => passed.inspection = <<task.entry, task.base, task.reference>>
  BY TaskTypes DEF InterviewInv, InspectionFits
<1>1. CASE ChoosesTask
  <2>1. step' \notin Describing
    BY <1>1 DEF ChoosesTask, SelectRepository, CheckNewPlacement, PrepareClone, InterviewReference, AnswerBase,
       AfterPlacement, Describing
  <2>. QED  BY <2>1 DEF InspectionFits
<1>2. CASE ~ChoosesTask
  <2>1. /\ task' = task
        /\ step' \in Describing => step \in Describing \/ (InspectBaseCommit /\ step' = "texts")
        /\ passed' = passed \/ passed' = [passed EXCEPT !.inspection = <<task.entry, task.base, task.reference>>]
    BY <1>2, TaskMoves
  <2>2. CASE InspectBaseCommit /\ step' = "texts"
    <3>1. passed' = [passed EXCEPT !.inspection = <<task.entry, task.base, task.reference>>]
      BY <2>2 DEF InspectBaseCommit
    <3>. QED  BY <1>0, <2>1, <3>1 DEF InspectionFits
  <2>3. CASE ~(InspectBaseCommit /\ step' = "texts")
    BY <1>0, <2>1, <2>3 DEF InspectionFits
  <2>. QED  BY <2>2, <2>3
<1>. QED  BY <1>1, <1>2

-----------------------------------------------------------------------------
(* The agent block.                                                        *)

KeyFits(key) == key \in {"", "unasked"} \cup Names /\ key \notin settings.jira

\* A candidate declares what the block does, and no variable of Jira's.
LEMMA CandidateIs ==
  ASSUME block \in Blocks, Declares(block), NEW defined \in BOOLEAN, NEW names, names \subseteq Names,
         NEW key, KeyFits(key)
  PROVE  /\ CandidateWith(defined, names, key) \in Blocks
         /\ block.secrets \subseteq CandidateWith(defined, names, key).secrets
         /\ Declares(CandidateWith(defined, names, key))
<1>1. PICK pr \in BOOLEAN : pr = (block.provider \/ defined)  BY Zenon
<1>2. (block.provider => pr) /\ (defined => pr)  BY <1>1, Zenon
<1>. DEFINE copied == [block EXCEPT !.provider = pr]
            named == DeclareSecrets(copied, names)
            keyed == IF defined THEN [named EXCEPT !.key = key] ELSE named
            candidate == IF key \in {"", "unasked"} THEN named ELSE DeclareSecrets(keyed, {key})
<1>3. CandidateWith(defined, names, key) = candidate
  BY <1>1, Zenon DEF CandidateWith
<1>4. /\ copied \in Blocks /\ copied.key = block.key /\ copied.secrets = block.secrets /\ copied.provider = pr
  BY DEF Blocks
<1>5. block.key # "" => block.provider /\ block.key \in block.secrets  BY DEF Declares
<1>6. block.secrets \cap settings.jira = {} /\ block.secrets \subseteq Names  BY DEF Declares, Blocks
<1>. HIDE DEF copied
<1>7. /\ named \in Blocks /\ named.key = block.key /\ named.provider = pr
      /\ named.secrets = block.secrets \cup (names \ settings.jira)
  BY <1>4 DEF DeclareSecrets, Blocks
<1>. HIDE DEF named
<1>8. named.secrets \cap settings.jira = {}  BY <1>6, <1>7
<1>9. CASE key \in {"", "unasked"}
  <2>1. candidate = named  BY <1>9
  <2>2. Declares(named)  BY <1>2, <1>5, <1>7, <1>8 DEF Declares
  <2>. QED  BY <1>3, <1>7, <2>1, <2>2
<1>10. CASE key \notin {"", "unasked"}
  <2>1. key \in Names /\ key \notin settings.jira  BY <1>10 DEF KeyFits
  <2>2. /\ keyed \in Blocks /\ keyed.secrets = named.secrets /\ keyed.provider = pr
        /\ (keyed.key = key /\ pr) \/ keyed.key = block.key
    BY <1>2, <1>7, <2>1 DEF Blocks
  <2>3. candidate = DeclareSecrets(keyed, {key})  BY <1>10
  <2>. HIDE DEF keyed, candidate
  <2>4. /\ candidate \in Blocks /\ candidate.key = keyed.key /\ candidate.provider = keyed.provider
        /\ candidate.secrets = named.secrets \cup {key}
    BY <2>1, <2>2, <2>3 DEF DeclareSecrets, Blocks
  <2>5. candidate.secrets \cap settings.jira = {}  BY <1>8, <2>1, <2>4
  <2>6. candidate.key # "" => candidate.provider /\ candidate.key \in candidate.secrets
    BY <1>2, <1>5, <1>7, <2>2, <2>4
  <2>7. Declares(candidate)  BY <2>5, <2>6 DEF Declares
  <2>8. block.secrets \subseteq candidate.secrets  BY <1>7, <2>4
  <2>. QED  BY <1>3, <2>4, <2>7, <2>8
<1>. QED  BY <1>9, <1>10

LEMMA BlockTypes ==
  ASSUME InterviewInv
  PROVE  /\ block \in Blocks /\ Declares(block) /\ block.secrets = justified
         /\ KeyFits(keyAnswer)
         /\ round.candidate \in Blocks /\ DOMAIN round = {"purpose", "candidate", "defined", "asked"}
         /\ round.purpose \in Purposes /\ justified \subseteq Names
         /\ step = "access" => block.secrets \subseteq round.candidate.secrets /\ Declares(round.candidate)
BY DEF InterviewInv, InterviewTypeOK, BlockFits, KeyFits

LEMMA InspectedModel ==
  ASSUME InterviewInv, InspectModel
  PROVE  /\ step' = "access" /\ settings' = settings /\ block' = block /\ justified' = justified
         /\ KeyFits(keyAnswer')
         /\ \E d \in BOOLEAN, c \in Blocks :
              /\ round' = [round EXCEPT !.defined = d, !.candidate = c]
              /\ block.secrets \subseteq c.secrets /\ Declares(c)
<1>1. PICK definition \in {"undefined", "known", "unknown"} :
        LET defined == definition # "undefined"
            names == IF definition = "known" THEN {"V"} ELSE {}
        IN /\ IF definition = "unknown" /\ keyAnswer = "unasked" THEN keyAnswer' \in KeyAnswers ELSE UNCHANGED keyAnswer
           /\ round' = [round EXCEPT !.defined = defined, !.candidate = CandidateWith(defined, names, keyAnswer')]
  BY Zenon DEF InspectModel
<1>2. PICK d \in BOOLEAN : d = (definition # "undefined")  BY Zenon
<1>. DEFINE names == IF definition = "known" THEN {"V"} ELSE {}
            c == CandidateWith(d, names, keyAnswer')
<1>3. /\ round' = [round EXCEPT !.defined = d, !.candidate = c]
      /\ IF definition = "unknown" /\ keyAnswer = "unasked" THEN keyAnswer' \in KeyAnswers ELSE UNCHANGED keyAnswer
  BY <1>1, <1>2, Zenon
<1>4. names \subseteq Names  BY DEF Names
<1>5. KeyFits(keyAnswer')
  <2>1. keyAnswer' \in KeyAnswers \/ keyAnswer' = keyAnswer  BY <1>3
  <2>2. \A k \in KeyAnswers : KeyFits(k)
    <3>1. settings.jira \subseteq Names  BY InterviewTypes
    <3>. QED  BY <3>1 DEF KeyAnswers, KeyFits, Names
  <2>. QED  BY <2>1, <2>2, BlockTypes
<1>. HIDE DEF names
<1>6. c \in Blocks /\ block.secrets \subseteq c.secrets /\ Declares(c)
  BY <1>4, <1>5, BlockTypes, CandidateIs
<1>7. step' = "access" /\ settings' = settings /\ block' = block /\ justified' = justified
  BY DEF InspectModel
<1>. HIDE DEF c
<1>. QED  BY <1>3, <1>5, <1>6, <1>7

\* A model is accepted, refused, or checked again with another key.
Accepted == /\ block' = round.candidate /\ keyAnswer' = keyAnswer /\ step' \in {"model", "source"}
            /\ justified' = justified \cup (round.candidate.secrets \ block.secrets)
            /\ \E p \in Purposes : round' = [NoRound EXCEPT !.purpose = p]
RefusedModel == /\ block' = block /\ justified' = justified /\ KeyFits(keyAnswer') /\ step' = "model"
                /\ \E p \in Purposes : round' = [NoRound EXCEPT !.purpose = p]
CheckedAgain == /\ block' = block /\ justified' = justified /\ KeyFits(keyAnswer') /\ step' = "access"
                /\ \E c \in Blocks : /\ round' = [round EXCEPT !.asked = TRUE, !.candidate = c]
                                     /\ block.secrets \subseteq c.secrets /\ Declares(c)

LEMMA ModelChecked ==
  ASSUME InterviewInv, CheckModel
  PROVE  /\ step = "access" /\ SettingsStay /\ UNCHANGED <<task, draft, checks, passed>>
         /\ Accepted \/ RefusedModel \/ CheckedAgain
<1>1. step = "access" /\ UNCHANGED <<task, draft, checks, passed>>  BY DEF CheckModel
<1>2. SettingsStay
  <2>1. settings' = settings \/ \E r : settings' = [settings EXCEPT !.role = r]
    BY Zenon DEF CheckModel, AcceptModel, RefuseModel, AfterModel
  <2>. QED  BY <2>1, InterviewTypes DEF SettingsStay
<1>3. round.purpose \in Purposes /\ KeyFits(keyAnswer)  BY BlockTypes
<1>4. CASE AcceptModel
  <2>1. step' \in {"model", "source"}  BY <1>4 DEF AcceptModel, AfterModel
  <2>2. \E p \in Purposes : round' = [NoRound EXCEPT !.purpose = p]
    <3>1. (CASE round.purpose = "first" -> "second" [] round.purpose = "second" -> "grader"
             [] OTHER -> "criteria") \in Purposes
      BY DEF Purposes
    <3>2. round' = [NoRound EXCEPT !.purpose =
                      CASE round.purpose = "first" -> "second" [] round.purpose = "second" -> "grader"
                        [] OTHER -> "criteria"]
      BY <1>4, Zenon DEF AcceptModel, AfterModel
    <3>. QED  BY <3>1, <3>2
  <2>3. block' = round.candidate /\ keyAnswer' = keyAnswer
        /\ justified' = justified \cup (round.candidate.secrets \ block.secrets)
    BY <1>4, Zenon DEF AcceptModel
  <2>. QED  BY <1>1, <1>2, <2>1, <2>2, <2>3 DEF Accepted
<1>5. CASE RefuseModel
  <2>1. step' = "model" /\ round' = [NoRound EXCEPT !.purpose = round.purpose]
        /\ UNCHANGED <<block, keyAnswer, justified>>
    BY <1>5, Zenon DEF RefuseModel
  <2>. QED  BY <1>1, <1>2, <1>3, <2>1 DEF RefusedModel
<1>6. CASE /\ ~round.defined /\ ~round.asked
           /\ keyAnswer' \in KeyAnswers
           /\ IF keyAnswer' = ""
              THEN step' = "model" /\ round' = [NoRound EXCEPT !.purpose = round.purpose]
              ELSE /\ step' = "access"
                   /\ round' = [round EXCEPT !.asked = TRUE, !.candidate = CandidateWith(FALSE, {}, keyAnswer')]
           /\ UNCHANGED <<settings, block, justified>>
  <2>1. KeyFits(keyAnswer')
    <3>1. settings.jira \subseteq Names /\ keyAnswer' \in KeyAnswers  BY <1>6, InterviewTypes
    <3>. QED  BY <3>1 DEF KeyAnswers, KeyFits, Names
  <2>2. CASE keyAnswer' = ""
    BY <1>1, <1>2, <1>3, <1>6, <2>1, <2>2 DEF RefusedModel
  <2>3. CASE keyAnswer' # ""
    <3>. DEFINE c == CandidateWith(FALSE, {}, keyAnswer')
    <3>1. c \in Blocks /\ block.secrets \subseteq c.secrets /\ Declares(c)
      <4>1. FALSE \in BOOLEAN /\ {} \subseteq Names  OBVIOUS
      <4>. QED  BY <2>1, <4>1, BlockTypes, CandidateIs
    <3>2. step' = "access" /\ round' = [round EXCEPT !.asked = TRUE, !.candidate = c]  BY <1>6, <2>3
    <3>. HIDE DEF c
    <3>. QED  BY <1>1, <1>2, <1>6, <2>1, <3>1, <3>2 DEF CheckedAgain
  <2>. QED  BY <2>2, <2>3
<1>. QED  BY <1>4, <1>5, <1>6 DEF CheckModel

LEMMA BlockKeeps ==
  ASSUME InterviewInv, InterviewNext
  PROVE  /\ BlockFits' /\ block' \in Blocks /\ justified' \subseteq Names
         /\ keyAnswer' \in {"unasked", ""} \cup Names
<1>0. /\ block.secrets = justified /\ Declares(block) /\ keyAnswer \notin settings.jira
      /\ block \in Blocks /\ justified \subseteq Names /\ keyAnswer \in {"unasked", ""} \cup Names
      /\ step \in {"settings", "repositories", "placement", "change"} => keyAnswer = "unasked"
      /\ step = "settings" => block = EmptyBlock
      /\ step = "access" => block.secrets \subseteq round.candidate.secrets /\ Declares(round.candidate)
      /\ settings.jira \subseteq Names
      /\ DOMAIN settings = {"output", "repositories", "jira", "role"}
      /\ DOMAIN round = {"purpose", "candidate", "defined", "asked"} /\ round.candidate \in Blocks
  BY BlockTypes, InterviewTypes DEF InterviewInv, BlockFits, InterviewTypeOK
<1>. DEFINE Early4 == {"settings", "repositories", "placement", "change"}
<1>1. CASE AskSettings
  <2>1. PICK o \in Outputs, secrets \in SUBSET {"K"}, jira \in SUBSET {"V", "J"} :
          /\ settings' = [settings EXCEPT !.output = o, !.jira = jira \ secrets]
          /\ block' = [block EXCEPT !.secrets = secrets] /\ justified' = secrets
    BY <1>1 DEF AskSettings
  <2>2. step = "settings" /\ step' = "repositories" /\ keyAnswer' = keyAnswer  BY <1>1 DEF AskSettings
  <2>3. block = EmptyBlock /\ keyAnswer = "unasked"  BY <1>0, <2>2
  <2>4. settings'.jira = jira \ secrets  BY <1>0, <2>1
  <2>5. block' \in Blocks /\ block'.secrets = secrets /\ block'.key = ""
    <3>1. block.key = ""  BY <2>3 DEF EmptyBlock
    <3>2. secrets \subseteq Names  BY DEF Names
    <3>. QED  BY <1>0, <2>1, <3>1, <3>2 DEF Blocks
  <2>6. Declares(block)'  BY <2>4, <2>5 DEF Declares
  <2>7. keyAnswer \notin jira \ secrets  BY <2>3
  <2>. QED  BY <1>0, <2>1, <2>2, <2>3, <2>4, <2>5, <2>6, <2>7 DEF BlockFits, Names
<1>2. CASE InterviewRepository \/ ChangeAnswer
  <2>1. /\ settings'.jira = settings.jira /\ UNCHANGED <<block, keyAnswer, justified>>
        /\ step \in Early4 /\ step' \in {"repositories", "placement"}
    BY <1>0, <1>2 DEF InterviewRepository, ChangeAnswer
  <2>2. Declares(block)'  BY <1>0, <2>1 DEF Declares
  <2>. QED  BY <1>0, <2>1, <2>2 DEF BlockFits
<1>3. CASE CheckModel
  <2>1. SettingsStay /\ (Accepted \/ RefusedModel \/ CheckedAgain) /\ step = "access"  BY <1>3, ModelChecked
  <2>2. settings'.jira = settings.jira  BY <2>1 DEF SettingsStay
  <2>3. \A b : Declares(b) => Declares(b)'  BY <2>2 DEF Declares
  <2>4. CASE Accepted
    <3>1. /\ block' = round.candidate /\ justified' = justified \cup (round.candidate.secrets \ block.secrets)
          /\ step' \in {"model", "source"} /\ keyAnswer' = keyAnswer
      BY <2>4 DEF Accepted
    <3>2. justified' = block'.secrets  BY <1>0, <2>1, <3>1
    <3>3. Declares(block)'  BY <1>0, <2>1, <2>2, <3>1 DEF Declares
    <3>4. justified' \subseteq Names  BY <1>0, <3>1, <3>2 DEF Blocks
    <3>. QED  BY <1>0, <2>2, <3>1, <3>2, <3>3, <3>4 DEF BlockFits
  <2>5. CASE RefusedModel
    <3>1. block' = block /\ justified' = justified /\ KeyFits(keyAnswer') /\ step' = "model"
      BY <2>5 DEF RefusedModel
    <3>2. Declares(block)'  BY <1>0, <2>2, <3>1 DEF Declares
    <3>. QED  BY <1>0, <2>2, <3>1, <3>2 DEF BlockFits, KeyFits
  <2>6. CASE CheckedAgain
    <3>1. block' = block /\ justified' = justified /\ KeyFits(keyAnswer') /\ step' = "access"
      BY <2>6 DEF CheckedAgain
    <3>2. PICK c \in Blocks : /\ round' = [round EXCEPT !.asked = TRUE, !.candidate = c]
                              /\ block.secrets \subseteq c.secrets /\ Declares(c)
      BY <2>6 DEF CheckedAgain
    <3>3. round'.candidate = c  BY <1>0, <3>2
    <3>4. Declares(block)'  BY <1>0, <2>2, <3>1 DEF Declares
    <3>5. Declares(round.candidate)'  BY <2>2, <3>2, <3>3 DEF Declares
    <3>. QED  BY <1>0, <2>2, <3>1, <3>2, <3>3, <3>4, <3>5 DEF BlockFits, KeyFits
  <2>. QED  BY <2>1, <2>4, <2>5, <2>6
<1>4. CASE InspectModel
  <2>1. /\ step' = "access" /\ settings' = settings /\ block' = block /\ justified' = justified /\ KeyFits(keyAnswer')
    BY <1>4, InspectedModel
  <2>2. PICK d \in BOOLEAN, c \in Blocks :
          /\ round' = [round EXCEPT !.defined = d, !.candidate = c]
          /\ block.secrets \subseteq c.secrets /\ Declares(c)
    BY <1>4, InspectedModel
  <2>3. round'.candidate = c  BY <1>0, <2>2
  <2>4. Declares(block)'  BY <1>0, <2>1 DEF Declares
  <2>5. Declares(round.candidate)'  BY <2>1, <2>2, <2>3 DEF Declares
  <2>. QED  BY <1>0, <2>1, <2>2, <2>3, <2>4, <2>5 DEF BlockFits, KeyFits
<1>5. CASE DeclineRole \/ InterviewSource
  <2>1. /\ UNCHANGED <<block, justified>> /\ keyAnswer' \in {keyAnswer, "unasked"}
        /\ step' \in {"source", "model", "repository"}
    BY <1>5 DEF DeclineRole, AfterModel, InterviewSource
  <2>2. SettingsStay
    <3>1. CASE DeclineRole
      <4>1. \E r : settings' = [settings EXCEPT !.role = r]
        BY <3>1, Zenon DEF DeclineRole, AfterModel
      <4>. QED  BY <1>0, <4>1 DEF SettingsStay
    <3>2. CASE InterviewSource  BY <3>2 DEF InterviewSource, SettingsStay
    <3>. QED  BY <1>5, <3>1, <3>2
  <2>3. settings'.jira = settings.jira  BY <2>2 DEF SettingsStay
  <2>4. Declares(block)'  BY <1>0, <2>1, <2>3 DEF Declares
  <2>5. "unasked" \notin settings.jira  BY <1>0 DEF Names
  <2>. QED  BY <1>0, <2>1, <2>3, <2>4, <2>5 DEF BlockFits
<1>6. CASE CheckPlacement
  <2>1. UNCHANGED <<settings, block, keyAnswer, justified>> /\ step \in Early4 /\ step' \in {"change", "model"}
    BY <1>6 DEF CheckPlacement
  <2>2. Declares(block)'  BY <1>0, <2>1 DEF Declares
  <2>. QED  BY <1>0, <2>1, <2>2 DEF BlockFits
<1>7. CASE (Locate /\ ~InterviewSource) \/ Describe
  <2>1. UNCHANGED <<settings, block, keyAnswer, justified>> /\ step' \notin Early4 \cup {"access"}
    <3>1. UNCHANGED <<settings, block, keyAnswer, justified>>
      BY <1>7 DEF Locate, Describe,
       SelectRepository, CheckNewPlacement, PrepareClone, InterviewReference, AnswerBase, EnsureBaseCommit,
       InspectBaseCommit, WriteTexts, DraftCriteria, EditDraft, AcceptDraft, WriteOwnCriteria, AddCheck, EndChecks
    <3>2. step' \notin Early4 \cup {"access"}
      <4>1. CASE Locate /\ ~InterviewSource
        BY <4>1 DEF Locate, SelectRepository, CheckNewPlacement, PrepareClone, InterviewReference, AnswerBase,
           EnsureBaseCommit, InspectBaseCommit, AfterPlacement
      <4>2. CASE Describe
        BY <4>2 DEF Describe, WriteTexts, DraftCriteria, EditDraft, AcceptDraft, WriteOwnCriteria, AddCheck, EndChecks
      <4>. QED  BY <1>7, <4>1, <4>2
    <3>. QED  BY <3>1, <3>2
  <2>2. Declares(block)'  BY <1>0, <2>1 DEF Declares
  <2>. QED  BY <1>0, <2>1, <2>2 DEF BlockFits
<1>. QED  BY <1>1, <1>2, <1>3, <1>4, <1>5, <1>6, <1>7 DEF InterviewNext, Bootstrap

-----------------------------------------------------------------------------
(* The checks.                                                             *)

NoChecks == [acceptance |-> {}, done |-> {}, names |-> {}]

\* The actions before the checks leave them empty, and end before their first question.
LEMMA ChecksWait ==
  ASSUME InterviewInv, InterviewNext, ~Describe
  PROVE  checks' = checks /\ checks = NoChecks /\ Early /\ Early' /\ draft' = draft
         /\ step' \notin {"acceptance", "done", "review"}
<1>1. CASE Bootstrap
  <2>1. checks' = checks /\ draft' = draft /\ step \in Bootstrapping /\ step' \in Bootstrapping \cup {"source"}
    BY <1>1 DEF Bootstrap, AskSettings, InterviewRepository, CheckPlacement, ChangeAnswer, InspectModel, CheckModel,
     AcceptModel, RefuseModel, AfterModel, DeclineRole, Bootstrapping
  <2>. QED  BY <2>1 DEF Early, InterviewInv, ChecksFit, NoChecks, Bootstrapping, Locating
<1>2. CASE Locate
  <2>1. checks' = checks /\ draft' = draft /\ step \in Locating /\ step' \in Locating \cup {"texts"}
    BY <1>2 DEF Locate, InterviewSource, SelectRepository, CheckNewPlacement, PrepareClone, InterviewReference,
       AnswerBase, EnsureBaseCommit, InspectBaseCommit, AfterPlacement, Locating
  <2>. QED  BY <2>1 DEF Early, InterviewInv, ChecksFit, NoChecks, Bootstrapping, Locating
<1>. QED  BY <1>1, <1>2 DEF InterviewNext

LEMMA CheckTypes ==
  ASSUME InterviewInv
  PROVE  /\ checks \in [acceptance : SUBSET Kinds, done : SUBSET Kinds, names : SUBSET Names]
         /\ draft.acceptance \subseteq Items /\ draft.done \subseteq Items
         /\ DOMAIN draft = {"acceptance", "done", "held"}
         /\ Early => checks = NoChecks
         /\ checks.names \cap justified = {}
         /\ "naming" \notin checks.acceptance \cup checks.done
         /\ step \in {"acceptance", "done", "review"} => (draft.held <=> "plain" \in checks.acceptance)
         /\ step \in {"done", "review"} => HasRequired(checks.acceptance)
         /\ step = "review" => HasRequired(checks.done)
BY DEF InterviewInv, InterviewTypeOK, ChecksFit, NoChecks

LEMMA ChecksKeep ==
  ASSUME InterviewInv, InterviewNext
  PROVE  ChecksFit' /\ checks' \in [acceptance : SUBSET Kinds, done : SUBSET Kinds, names : SUBSET Names]
<1>0. /\ checks \in [acceptance : SUBSET Kinds, done : SUBSET Kinds, names : SUBSET Names]
      /\ draft.acceptance \subseteq Items /\ draft.done \subseteq Items
      /\ DOMAIN draft = {"acceptance", "done", "held"}
      /\ Early => checks = NoChecks
      /\ checks.names \cap justified = {}
      /\ "naming" \notin checks.acceptance \cup checks.done
      /\ step \in {"acceptance", "done", "review"} => (draft.held <=> "plain" \in checks.acceptance)
      /\ step \in {"done", "review"} => HasRequired(checks.acceptance)
      /\ step = "review" => HasRequired(checks.done)
  BY CheckTypes
<1>1. CASE ~Describe
  <2>1. checks' = checks /\ checks = NoChecks /\ step' \notin {"acceptance", "done", "review"}  BY <1>1, ChecksWait
  <2>. QED  BY <1>0, <2>1 DEF ChecksFit, NoChecks
<1>. DEFINE Stay == checks' = checks /\ justified' = justified
<1>2. CASE WriteTexts \/ EditDraft
  <2>1. Stay /\ step \in {"texts", "draft review"} /\ step' \in {"criteria", "draft review"}
    BY <1>2 DEF WriteTexts, EditDraft
  <2>2. checks = NoChecks  BY <1>0, <2>1 DEF Early
  <2>. QED  BY <1>0, <2>1, <2>2 DEF ChecksFit, NoChecks
<1>3. CASE DraftCriteria \/ WriteOwnCriteria
  <2>1. /\ Stay /\ step \in {"criteria", "draft review"}
        /\ step' \in {"criteria", "draft review"} \/ (step' = "acceptance" /\ draft' = NoDraft)
    BY <1>3 DEF DraftCriteria, WriteOwnCriteria
  <2>2. checks = NoChecks  BY <1>0, <2>1 DEF Early
  <2>3. checks.acceptance = {}  BY <2>2 DEF NoChecks
  <2>4. CASE step' \in {"criteria", "draft review"}
    BY <1>0, <2>1, <2>2, <2>4 DEF ChecksFit, NoChecks
  <2>5. CASE step' = "acceptance" /\ draft' = NoDraft
    <3>1. ~draft'.held
      <4>1. NoDraft.held = FALSE  BY DEF NoDraft
      <4>2. draft'.held = NoDraft.held  BY <2>5, Zenon
      <4>. QED  BY <4>1, <4>2, Zenon
    <3>2. "plain" \notin checks'.acceptance  BY <2>1, <2>3
    <3>3. draft'.held <=> "plain" \in checks'.acceptance  BY <3>1, <3>2, Zenon
    <3>. QED  BY <1>0, <2>1, <2>2, <2>5, <3>3 DEF ChecksFit, NoChecks
  <2>. QED  BY <2>1, <2>4, <2>5
<1>4. CASE AcceptDraft
  <2>1. /\ justified' = justified /\ step = "draft review" /\ ~Blocked /\ step' = "acceptance"
        /\ checks' = [checks EXCEPT !.acceptance = draft.acceptance, !.done = draft.done]
        /\ draft' = [NoDraft EXCEPT !.held = TRUE]
    BY <1>4 DEF AcceptDraft
  <2>2. checks = NoChecks  BY <1>0, <2>1 DEF Early
  <2>3. /\ checks'.acceptance = draft.acceptance /\ checks'.done = draft.done /\ checks'.names = {}
        /\ checks' \in [acceptance : SUBSET Kinds, done : SUBSET Kinds, names : SUBSET Names]
    BY <1>0, <2>1, <2>2 DEF NoChecks, Kinds
  <2>4. draft'.held  BY <2>1 DEF NoDraft
  <2>5. "naming" \notin draft.acceptance \cup draft.done /\ draft.acceptance # {}  BY <2>1 DEF Blocked
  <2>6. "plain" \in draft.acceptance  BY <1>0, <2>5 DEF Items
  <2>7. ~Early'  BY <2>1 DEF Early, Bootstrapping, Locating
  <2>. QED  BY <2>1, <2>3, <2>4, <2>5, <2>6, <2>7 DEF ChecksFit
<1>5. ASSUME NEW collection \in {"acceptance", "done"}, AddCheck(collection)
      PROVE  ChecksFit' /\ checks' \in [acceptance : SUBSET Kinds, done : SUBSET Kinds, names : SUBSET Names]
  <2>1. PICK kind \in {"required", "optional"}, n \in SUBSET (Names \ (block.secrets \cup settings.jira)) :
          checks' = [checks EXCEPT ![collection] = @ \cup {kind}, !.names = @ \cup n]
    BY <1>5 DEF AddCheck
  <2>2. step = collection /\ step' = step /\ draft' = draft /\ justified' = justified  BY <1>5 DEF AddCheck
  <2>3. /\ checks' \in [acceptance : SUBSET Kinds, done : SUBSET Kinds, names : SUBSET Names]
        /\ checks'.names = checks.names \cup n
        /\ checks'.acceptance = IF collection = "acceptance" THEN checks.acceptance \cup {kind} ELSE checks.acceptance
        /\ checks'.done = IF collection = "done" THEN checks.done \cup {kind} ELSE checks.done
    <3>1. kind \in Kinds /\ n \subseteq Names  BY DEF Kinds
    <3>2. CASE collection = "acceptance"  BY <1>0, <2>1, <3>1, <3>2
    <3>3. CASE collection = "done"  BY <1>0, <2>1, <3>1, <3>3
    <3>. QED  BY <3>2, <3>3
  <2>4. checks'.names \cap justified = {}
    <3>1. block.secrets = justified  BY BlockTypes
    <3>. QED  BY <1>0, <2>3, <3>1
  <2>5. "naming" \notin checks'.acceptance \cup checks'.done  BY <1>0, <2>3
  <2>6. "plain" \in checks'.acceptance <=> "plain" \in checks.acceptance  BY <2>3
  <2>7. HasRequired(checks.acceptance) => HasRequired(checks'.acceptance)  BY <2>3 DEF HasRequired
  <2>8. ~Early' /\ step' # "review"  BY <2>2 DEF Early, Bootstrapping, Locating
  <2>. QED  BY <1>0, <2>2, <2>3, <2>4, <2>5, <2>6, <2>7, <2>8 DEF ChecksFit
<1>6. CASE EndChecks("acceptance", "done") \/ EndChecks("done", "review")
  <2>1. /\ Stay /\ draft' = draft
        /\ \/ step = "acceptance" /\ step' = "done" /\ HasRequired(checks.acceptance)
           \/ step = "done" /\ step' = "review" /\ HasRequired(checks.done)
    BY <1>6 DEF EndChecks
  <2>2. ~Early'  BY <2>1 DEF Early, Bootstrapping, Locating
  <2>. QED  BY <1>0, <2>1, <2>2 DEF ChecksFit
<1>. QED  BY <1>1, <1>2, <1>3, <1>4, <1>5, <1>6 DEF Describe

-----------------------------------------------------------------------------
(* The theorems.                                                           *)

LEMMA StepTypes ==
  ASSUME InterviewInv, InterviewNext
  PROVE  step' \in Bootstrapping \cup Locating \cup Describing
<1>1. CASE Bootstrap
  <2>1. step' \in Bootstrapping \cup {"source"}
    BY <1>1 DEF Bootstrap, AskSettings, InterviewRepository, CheckPlacement, ChangeAnswer, InspectModel, CheckModel,
     AcceptModel, RefuseModel, AfterModel, DeclineRole, Bootstrapping
  <2>. QED  BY <2>1 DEF Locating
<1>2. CASE Locate
  <2>1. step' \in Locating \cup {"texts"}
    BY <1>2 DEF Locate, InterviewSource, SelectRepository, CheckNewPlacement, PrepareClone, InterviewReference,
       AnswerBase, EnsureBaseCommit, InspectBaseCommit, AfterPlacement, Locating
  <2>. QED  BY <2>1 DEF Describing
<1>3. CASE Describe
  <2>1. step' \in {"criteria", "draft review", "acceptance", "done", "review"}
    BY <1>3 DEF Describe, WriteTexts, DraftCriteria, EditDraft, AcceptDraft, WriteOwnCriteria, AddCheck, EndChecks
  <2>. QED  BY <2>1 DEF Describing
<1>. QED  BY <1>1, <1>2, <1>3 DEF InterviewNext

LEMMA SettingsTypes ==
  ASSUME InterviewInv, InterviewNext
  PROVE  settings' \in [output : Outputs, repositories : SUBSET RepositoryEntries, jira : SUBSET Names, role : BOOLEAN]
<1>0. /\ settings \in [output : Outputs, repositories : SUBSET RepositoryEntries, jira : SUBSET Names, role : BOOLEAN]
      /\ DOMAIN settings = {"output", "repositories", "jira", "role"}
  BY InterviewTypes DEF InterviewInv, InterviewTypeOK
<1>1. settings'.repositories \subseteq RepositoryEntries  BY RepositoriesKeep
<1>2. CASE AskSettings
  <2>1. PICK o \in Outputs, secrets \in SUBSET {"K"}, jira \in SUBSET {"V", "J"} :
          settings' = [settings EXCEPT !.output = o, !.jira = jira \ secrets]
    BY <1>2 DEF AskSettings
  <2>2. jira \ secrets \subseteq Names  BY DEF Names
  <2>. QED  BY <1>0, <2>1, <2>2
<1>3. CASE InterviewRepository
  <2>1. \E r : settings' = [settings EXCEPT !.repositories = r]  BY <1>3 DEF InterviewRepository
  <2>. QED  BY <1>0, <1>1, <2>1
<1>4. CASE ChangeAnswer
  <2>1. \/ \E o \in Outputs : settings' = [settings EXCEPT !.output = o]
        \/ \E r : settings' = [settings EXCEPT !.repositories = r]
    BY <1>4 DEF ChangeAnswer
  <2>. QED  BY <1>0, <1>1, <2>1
<1>5. CASE CheckModel \/ DeclineRole
  <2>1. settings' = settings \/ \E r \in BOOLEAN : settings' = [settings EXCEPT !.role = r]
    <3>1. ASSUME NEW a \in BOOLEAN, AfterModel(a)
          PROVE  \E r \in BOOLEAN : settings' = [settings EXCEPT !.role = r]
      <4>1. PICK r \in BOOLEAN : r = (a /\ round.purpose = "criteria")  BY Zenon
      <4>2. settings' = [settings EXCEPT !.role = r]  BY <3>1, <4>1, Zenon DEF AfterModel
      <4>. QED  BY <4>2
    <3>2. settings' = settings \/ AfterModel(TRUE) \/ AfterModel(FALSE)
      BY <1>5 DEF CheckModel, AcceptModel, RefuseModel, DeclineRole
    <3>. QED  BY <3>1, <3>2
  <2>. QED  BY <1>0, <2>1
<1>6. CASE ~AskSettings /\ ~InterviewRepository /\ ~ChangeAnswer /\ ~CheckModel /\ ~DeclineRole
  <2>1. settings' = settings
    BY <1>6, Zenon DEF InterviewNext, Bootstrap, Locate, Describe, CheckPlacement, InspectModel, InterviewSource,
       SelectRepository, CheckNewPlacement, PrepareClone, InterviewReference, AnswerBase, EnsureBaseCommit,
       InspectBaseCommit, WriteTexts, DraftCriteria, EditDraft, AcceptDraft, WriteOwnCriteria, AddCheck, EndChecks
  <2>. QED  BY <1>0, <2>1
<1>. QED  BY <1>2, <1>3, <1>4, <1>5, <1>6

LEMMA RoundTypes ==
  ASSUME InterviewInv, InterviewNext
  PROVE  round' \in [purpose : Purposes, candidate : Blocks, defined : BOOLEAN, asked : BOOLEAN]
<1>0. round \in [purpose : Purposes, candidate : Blocks, defined : BOOLEAN, asked : BOOLEAN]
  BY DEF InterviewInv, InterviewTypeOK
<1>1. \A p \in Purposes : [NoRound EXCEPT !.purpose = p] \in
        [purpose : Purposes, candidate : Blocks, defined : BOOLEAN, asked : BOOLEAN]
  <2>1. EmptyBlock \in Blocks  BY DEF EmptyBlock, Blocks
  <2>. QED  BY <2>1 DEF NoRound
<1>2. CASE CheckModel
  <2>1. \/ \E p \in Purposes : round' = [NoRound EXCEPT !.purpose = p]
        \/ \E c \in Blocks : round' = [round EXCEPT !.asked = TRUE, !.candidate = c]
    BY <1>2, ModelChecked DEF Accepted, RefusedModel, CheckedAgain
  <2>. QED  BY <1>0, <1>1, <2>1
<1>3. CASE InspectModel
  <2>1. PICK d \in BOOLEAN, c \in Blocks : round' = [round EXCEPT !.defined = d, !.candidate = c]
    BY <1>3, InspectedModel
  <2>. QED  BY <1>0, <2>1
<1>4. CASE DeclineRole \/ InterviewSource
  <2>1. (CASE round.purpose = "first" -> "second" [] round.purpose = "second" -> "grader"
           [] OTHER -> "criteria") \in Purposes
    BY DEF Purposes
  <2>2. CASE DeclineRole
    <3>1. round' = [NoRound EXCEPT !.purpose =
                      CASE round.purpose = "first" -> "second" [] round.purpose = "second" -> "grader"
                        [] OTHER -> "criteria"]
      BY <2>2, Zenon DEF DeclineRole, AfterModel
    <3>. QED  BY <1>1, <2>1, <3>1
  <2>3. CASE InterviewSource
    <3>1. round' = NoRound  BY <2>3 DEF InterviewSource
    <3>2. EmptyBlock \in Blocks  BY DEF EmptyBlock, Blocks
    <3>3. NoRound \in [purpose : Purposes, candidate : Blocks, defined : BOOLEAN, asked : BOOLEAN]
      BY <3>2 DEF NoRound, Purposes
    <3>. QED  BY <3>1, <3>3, Zenon
  <2>. QED  BY <1>4, <2>2, <2>3
<1>5. CASE ~CheckModel /\ ~InspectModel /\ ~DeclineRole /\ ~InterviewSource
  <2>1. round' = round
    BY <1>5, Zenon DEF InterviewNext, Bootstrap, Locate, Describe, AskSettings, InterviewRepository, ChangeAnswer,
       CheckPlacement, SelectRepository, CheckNewPlacement, PrepareClone, InterviewReference, AnswerBase,
       EnsureBaseCommit, InspectBaseCommit, WriteTexts, DraftCriteria, EditDraft, AcceptDraft, WriteOwnCriteria,
       AddCheck, EndChecks
  <2>. QED  BY <1>0, <2>1
<1>. QED  BY <1>2, <1>3, <1>4, <1>5

LEMMA TaskKeepsType ==
  ASSUME InterviewInv, InterviewNext
  PROVE  task' \in [entry : RepositoryEntries \cup {NoEntry}, new : BOOLEAN, refused : RepositoryEntries \cup {NoEntry},
                    reference : References, base : {"none", "hash", "name"}]
<1>0. task \in [entry : RepositoryEntries \cup {NoEntry}, new : BOOLEAN, refused : RepositoryEntries \cup {NoEntry},
                reference : References, base : {"none", "hash", "name"}]
  BY DEF InterviewInv, InterviewTypeOK
<1>1. task'.entry \in RepositoryEntries \cup {NoEntry} /\ task'.refused \in RepositoryEntries \cup {NoEntry}
  BY EntryKeeps
<1>2. CASE ~ChoosesTask  BY <1>0, <1>2, TaskMoves
<1>3. CASE SelectRepository
  <2>1. \E e, b : b \in BOOLEAN /\ task' = [task EXCEPT !.entry = e, !.new = b]
    BY <1>3 DEF SelectRepository
  <2>. QED  BY <1>0, <1>1, <2>1
<1>4. CASE CheckNewPlacement \/ PrepareClone
  <2>1. task' = task \/ \E e : task' = [task EXCEPT !.refused = e]
    BY <1>4 DEF CheckNewPlacement, PrepareClone
  <2>. QED  BY <1>0, <1>1, <2>1
<1>5. CASE InterviewReference \/ AnswerBase
  <2>1. \/ \E r \in References : task' = [task EXCEPT !.reference = r, !.refused = NoEntry]
        \/ \E b \in {"hash", "name"} : task' = [task EXCEPT !.base = b]
    BY <1>5 DEF InterviewReference, AnswerBase
  <2>. QED  BY <1>0, <2>1
<1>. QED  BY <1>2, <1>3, <1>4, <1>5 DEF ChoosesTask

LEMMA DraftTypes ==
  ASSUME InterviewInv, InterviewNext
  PROVE  draft' \in [acceptance : SUBSET Items, done : SUBSET Items, held : BOOLEAN]
<1>0. draft \in [acceptance : SUBSET Items, done : SUBSET Items, held : BOOLEAN]
  BY DEF InterviewInv, InterviewTypeOK
<1>1. NoDraft \in [acceptance : SUBSET Items, done : SUBSET Items, held : BOOLEAN]
  BY DEF NoDraft
<1>2. CASE DraftCriteria
  <2>1. \/ draft' = NoDraft
        \/ \E a, d \in SUBSET Items : draft' = [acceptance |-> a, done |-> d, held |-> TRUE]
    BY <1>2 DEF DraftCriteria
  <2>2. \A a, d \in SUBSET Items :
          [acceptance |-> a, done |-> d, held |-> TRUE] \in [acceptance : SUBSET Items, done : SUBSET Items, held : BOOLEAN]
    OBVIOUS
  <2>. QED  BY <1>1, <2>1, <2>2, Zenon
<1>3. CASE EditDraft
  <2>1. \A list \in SUBSET Items : \A r \in Revised(list) : r \subseteq Items
    BY DEF Revised, Items
  <2>2. \/ \E list \in Revised(draft.acceptance) : draft' = [draft EXCEPT !.acceptance = list]
        \/ \E list \in Revised(draft.done) : draft' = [draft EXCEPT !.done = list]
    BY <1>3 DEF EditDraft
  <2>3. draft.acceptance \in SUBSET Items /\ draft.done \in SUBSET Items  BY <1>0
  <2>. QED  BY <1>0, <2>1, <2>2, <2>3
<1>4. CASE AcceptDraft \/ WriteOwnCriteria
  <2>1. draft' = NoDraft \/ draft' = [NoDraft EXCEPT !.held = TRUE]  BY <1>4 DEF AcceptDraft, WriteOwnCriteria
  <2>2. [NoDraft EXCEPT !.held = TRUE] \in [acceptance : SUBSET Items, done : SUBSET Items, held : BOOLEAN]
    BY DEF NoDraft
  <2>. QED  BY <1>1, <2>1, <2>2, Zenon
<1>5. CASE ~DraftCriteria /\ ~EditDraft /\ ~AcceptDraft /\ ~WriteOwnCriteria
  <2>1. draft' = draft
    <3>1. CASE ~Describe  BY <3>1, ChecksWait
    <3>2. CASE Describe  BY <1>5, <3>2 DEF Describe, WriteTexts, AddCheck, EndChecks
    <3>. QED  BY <3>1, <3>2
  <2>. QED  BY <1>0, <2>1
<1>. QED  BY <1>2, <1>3, <1>4, <1>5

LEMMA InterviewKeeps ==
  ASSUME InterviewInv, InterviewNext
  PROVE  InterviewInv'
<1>1. InterviewTypeOK'
  BY StepTypes, SettingsTypes, BlockKeeps, RoundTypes, TaskKeepsType, DraftTypes, ChecksKeep, CloneKeeps
     DEF InterviewTypeOK
<1>. QED  BY <1>1, RepositoriesKeep, EntryKeeps, CloneKeeps, InspectionKeeps, BlockKeeps, ChecksKeep DEF InterviewInv

LEMMA InterviewBegins ==
  ASSUME InterviewInit
  PROVE  InterviewInv
<1>1. /\ keyAnswer = "unasked" /\ round = NoRound
      /\ task = [entry |-> NoEntry, new |-> FALSE, refused |-> NoEntry, reference |-> "none", base |-> "none"]
      /\ draft = NoDraft /\ checks = NoChecks
      /\ passed = [clones |-> {}, inspection |-> <<>>]
  BY DEF InterviewInit, NoChecks
<1>2. EmptyBlock \in Blocks  BY DEF EmptyBlock, Blocks
<1>3. /\ round \in [purpose : Purposes, candidate : Blocks, defined : BOOLEAN, asked : BOOLEAN]
      /\ draft \in [acceptance : SUBSET Items, done : SUBSET Items, held : BOOLEAN]
      /\ checks \in [acceptance : SUBSET Kinds, done : SUBSET Kinds, names : SUBSET Names]
      /\ DOMAIN passed = {"clones", "inspection"} /\ passed.clones \subseteq HubPlaces
      /\ task \in [entry : RepositoryEntries \cup {NoEntry}, new : BOOLEAN, refused : RepositoryEntries \cup {NoEntry},
                   reference : References, base : {"none", "hash", "name"}]
  BY <1>1, <1>2 DEF NoRound, Purposes, NoDraft, NoChecks, References
<1>4. ~task.new /\ task.refused = NoEntry  BY <1>1
<1>5. CASE /\ step = "settings"
           /\ \E o \in Outputs : settings = [output |-> o, repositories |-> {}, jira |-> {}, role |-> FALSE]
           /\ block = EmptyBlock /\ justified = {}
  <2>1. settings \in [output : Outputs, repositories : SUBSET RepositoryEntries, jira : SUBSET Names, role : BOOLEAN]
        /\ settings.repositories = {} /\ settings.jira = {}
    BY <1>5
  <2>2. block.secrets = {} /\ block.key = ""  BY <1>5 DEF EmptyBlock
  <2>3. InterviewTypeOK
    BY <1>1, <1>2, <1>3, <1>5, <2>1 DEF InterviewTypeOK, Bootstrapping
  <2>4. RepositoriesFit
    <3>1. IsFiniteSet({}) /\ Cardinality({}) = 0  BY FS_EmptySet
    <3>2. 0 <= MaxEntries  BY InterviewAssumption DEF InterviewAssumption
    <3>. QED  BY <1>5, <2>1, <3>1, <3>2 DEF RepositoriesFit, Distinct
  <2>5. EntryFits /\ CloneFits /\ InspectionFits
    BY <1>4, <1>5 DEF EntryFits, CloneFits, InspectionFits, Placed, Locating, Describing
  <2>6. BlockFits  BY <1>1, <1>5, <2>1, <2>2 DEF BlockFits, Declares
  <2>7. ChecksFit  BY <1>1, <1>5 DEF ChecksFit, NoChecks
  <2>. QED  BY <2>3, <2>4, <2>5, <2>6, <2>7 DEF InterviewInv
<1>6. CASE /\ step = "source"
           /\ \E o \in Outputs \ Places, p \in Places, jira \in SUBSET {"J"}, role \in BOOLEAN :
                settings = [output |-> o, repositories |-> {[id |-> <<NameOf[p], 1>>, place |-> p]},
                            jira |-> jira, role |-> role]
           /\ block = [EmptyBlock EXCEPT !.secrets = {"K"}] /\ justified = {"K"}
  <2>1. PICK o \in Outputs \ Places, p \in Places, jira \in SUBSET {"J"}, role \in BOOLEAN :
                settings = [output |-> o, repositories |-> {[id |-> <<NameOf[p], 1>>, place |-> p]},
                            jira |-> jira, role |-> role]
    BY <1>6
  <2>. DEFINE e == [id |-> <<NameOf[p], 1>>, place |-> p]
  <2>2. e \in RepositoryEntries /\ e.place = p
    <3>1. 1 \in 1..MaxEntries + 1  BY InterviewAssumption DEF InterviewAssumption
    <3>. QED  BY <3>1 DEF RepositoryEntries
  <2>3. settings = [output |-> o, repositories |-> {e}, jira |-> jira, role |-> role]  BY <2>1
  <2>. HIDE DEF e
  <2>4. /\ settings \in [output : Outputs, repositories : SUBSET RepositoryEntries, jira : SUBSET Names, role : BOOLEAN]
        /\ settings.repositories = {e} /\ settings.jira = jira /\ settings.output = o
    BY <2>2, <2>3 DEF Names
  <2>5. block \in Blocks /\ block.secrets = {"K"} /\ block.key = ""  BY <1>6 DEF EmptyBlock, Blocks, Names
  <2>6. InterviewTypeOK
    BY <1>1, <1>3, <1>6, <2>4, <2>5 DEF InterviewTypeOK, Locating, Names
  <2>7. RepositoriesFit
    <3>1. IsFiniteSet({e}) /\ Cardinality({e}) = 1  BY FS_Singleton
    <3>2. 1 <= MaxEntries  BY InterviewAssumption DEF InterviewAssumption
    <3>3. ~Clash(o, {e})
      <4>1. {x.place : x \in {e}} = {p}  BY <2>2
      <4>2. ~(p \in HubPlaces /\ p \in CloneRootPlaces)
        BY InterviewAssumption DEF InterviewAssumption
      <4>. QED  BY <2>1, <4>1, <4>2 DEF Clash
    <3>. QED  BY <2>4, <3>1, <3>2, <3>3 DEF RepositoriesFit, Distinct
  <2>8. EntryFits /\ CloneFits /\ InspectionFits
    BY <1>4, <1>6 DEF EntryFits, CloneFits, InspectionFits, Placed, Locating, Describing
  <2>9. BlockFits  BY <1>1, <1>6, <2>4, <2>5 DEF BlockFits, Declares
  <2>10. ChecksFit  BY <1>1, <1>6 DEF ChecksFit, NoChecks
  <2>. QED  BY <2>6, <2>7, <2>8, <2>9, <2>10 DEF InterviewInv
<1>. QED  BY <1>5, <1>6 DEF InterviewInit

LEMMA InterviewStutters ==
  ASSUME InterviewInv, UNCHANGED interviewVars
  PROVE  InterviewInv'
<1>1. UNCHANGED step /\ UNCHANGED settings /\ UNCHANGED block /\ UNCHANGED keyAnswer /\ UNCHANGED round
      /\ UNCHANGED task /\ UNCHANGED draft /\ UNCHANGED checks /\ UNCHANGED justified /\ UNCHANGED passed
  BY DEF interviewVars
<1>2. InterviewTypeOK'  BY <1>1, ZenonT(60) DEF InterviewInv, InterviewTypeOK
<1>3. RepositoriesFit'  BY <1>1, Zenon DEF InterviewInv, RepositoriesFit
<1>4. EntryFits'  BY <1>1, Zenon DEF InterviewInv, EntryFits, Placed, IsNew
<1>5. CloneFits' /\ InspectionFits'  BY <1>1, Zenon DEF InterviewInv, CloneFits, InspectionFits
<1>6. BlockFits'  BY <1>1, Zenon DEF InterviewInv, BlockFits, Declares
<1>7. ChecksFit'  BY <1>1, Zenon DEF InterviewInv, ChecksFit, Early
<1>. QED  BY <1>2, <1>3, <1>4, <1>5, <1>6, <1>7 DEF InterviewInv

LEMMA InterviewHolds == InterviewSpec => []InterviewInv
<1>1. InterviewInv /\ [InterviewNext]_interviewVars => InterviewInv'
  BY InterviewKeeps, InterviewStutters
<1>. QED  BY <1>1, InterviewBegins, PTL DEF InterviewSpec

LEMMA SoundThen ==
  ASSUME InterviewInv
  PROVE  InterviewSound
<1>. DEFINE all == settings.repositories \cup (IF task.new THEN {task.entry} ELSE {})
<1>1. IsFiniteSet(settings.repositories) /\ Distinct(settings.repositories)
  BY DEF InterviewInv, RepositoriesFit
<1>2. ASSUME Placed  PROVE ~Clash(settings.output, all) /\ Cardinality(Ids(all)) = Cardinality(all)
  <2>1. ~Clash(settings.output, settings.repositories)
    BY <1>2 DEF InterviewInv, RepositoriesFit, Placed, Locating, Describing
  <2>2. CASE task.new
    <3>1. all = settings.repositories \cup {task.entry}  BY <2>2
    <3>2. IsNew(task.entry) /\ ~Clash(settings.output, settings.repositories \cup {task.entry})
      BY <1>2, <2>2 DEF InterviewInv, EntryFits
    <3>3. IsFiniteSet(all) /\ Distinct(all)  BY <1>1, <3>1, <3>2, OneMore DEF IsNew
    <3>4. ~Clash(settings.output, all)  BY <3>1, <3>2
    <3>. HIDE DEF all
    <3>. QED  BY <3>3, <3>4, IdsAreMany
  <2>3. CASE ~task.new
    <3>1. all = settings.repositories  BY <2>3
    <3>. QED  BY <1>1, <2>1, <3>1, IdsAreMany
  <2>. QED  BY <2>2, <2>3
<1>3. step \in Describing =>
        /\ passed.inspection = <<task.entry, task.base, task.reference>>
        /\ task.entry.place \in HubPlaces => task.entry.place \in passed.clones
  BY DEF InterviewInv, InspectionFits, CloneFits
<1>4. /\ block.secrets = justified /\ justified \cap (settings.jira \cup checks.names) = {}
      /\ block.key # "" => block.provider /\ block.key \in block.secrets
  BY DEF InterviewInv, BlockFits, Declares, ChecksFit
<1>5. step = "review" =>
          /\ HasRequired(checks.acceptance) /\ HasRequired(checks.done)
          /\ draft.held <=> "plain" \in checks.acceptance
          /\ "naming" \notin checks.acceptance \cup checks.done
  BY DEF InterviewInv, ChecksFit
<1>. HIDE DEF all
<1>6. Placed => ~Clash(settings.output, all) /\ Cardinality(Ids(all)) = Cardinality(all)  BY <1>2
<1>. QED  BY <1>3, <1>4, <1>5, <1>6 DEF InterviewSound, Placed, all

\* Every variable of the interview keeps its type.
THEOREM InterviewTypeCorrect == InterviewSpec => []InterviewTypeOK
<1>1. InterviewInv => InterviewTypeOK  BY DEF InterviewInv
<1>. QED  BY <1>1, InterviewHolds, PTL

\* Whatever is answered, refused and asked again, nothing unchecked reaches the draft
\* or the review, for any repositories, places and output directories.
THEOREM InterviewIsSound == InterviewSpec => []InterviewSound
<1>1. InterviewInv => InterviewSound  BY SoundThen
<1>. QED  BY <1>1, InterviewHolds, PTL

-----------------------------------------------------------------------------
(***************************************************************************)
(* Where a new item is put in the text of a configuration: DocumentKept.   *)
(* First the lines and the lists of a text by their positions, then the    *)
(* text that an item was spliced into, then the steps.                     *)
(***************************************************************************)

\* Some member of a set of naturals is the least: induction over the naturals.
LEMMA LeastMember ==
  ASSUME NEW T, T \subseteq Nat, T # {}
  PROVE  \E x \in T : \A y \in T : x <= y
<1>1. IsWellFoundedOn(OpToRel(<,Nat), Nat)  BY NatLessThanWellFounded
<1>2. PICK x \in T : \A y \in T : ~(<<y, x>> \in OpToRel(<,Nat))
  BY <1>1, WFMin, Zenon
<1>3. \A y \in T : ~(y < x) BY <1>2 DEF OpToRel
<1>. QED BY <1>3

Identifiers == {"t1", "t2", "r1", "r2"}
TextLines ==
  {ListHead(l) : l \in ListNames} \cup {Dash(d) : d \in Identifiers}
    \cup {Check("c1"), Check("c2"), SourceKey, FlushComment, DeepComment, Blank}
Texts == Seq(TextLines)
Part(t, i, k) == SubSeq(t, i, k)

LEMMA LinesAre ==
  /\ \A l \in ListNames : ListHead(l) \in TextLines /\ ListHead(l).what = "head" /\ ~ListHead(l).deep
  /\ \A d : Dash(d).what = "dash"
  /\ \A d \in Identifiers : Dash(d) \in TextLines
  /\ Check("c1").what = "check" /\ Check("c2").what = "check" /\ SourceKey.what = "key"
  /\ FlushComment.what = "comment" /\ DeepComment.what = "comment" /\ Blank.what = "blank"
  /\ {Check("c1"), Check("c2"), SourceKey, FlushComment, DeepComment, Blank} \subseteq TextLines
BY DEF TextLines, ListHead, Dash, Check, SourceKey, FlushComment, DeepComment, Blank, TextLine

LEMMA LinesDiffer ==
  /\ ListHead("tasks") # ListHead("repositories")
  /\ Dash("t1") # Dash("t2") /\ Dash("r1") # Dash("r2")
  /\ Dash("t2") # SourceKey /\ Dash("t2") # Check("c1") /\ SourceKey # Check("c1")
  /\ Check("c1") # Check("c2") /\ Dash("t2") # Check("c2") /\ Dash("r2") # Check("c2") /\ SourceKey # Check("c2")
BY DEF ListHead, Dash, Check, SourceKey, TextLine

\* A head has no other kind, and is not indented.
LEMMA KindsAre ==
  ASSUME NEW x \in TextLines
  PROVE  /\ x.what \in {"head", "dash", "check", "key", "comment", "blank"}
         /\ x.what = "head" => ~x.deep
BY DEF TextLines, ListHead, Dash, Check, SourceKey, FlushComment, DeepComment, Blank, TextLine

LEMMA TextSame ==
  ASSUME NEW t \in Texts, NEW u \in Texts, Len(t) = Len(u), \A i \in 1..Len(t) : t[i] = u[i]
  PROVE  t = u
BY DEF Texts

LEMMA TextIs ==
  ASSUME NEW t \in Texts
  PROVE  Len(t) \in Nat /\ DOMAIN t = 1..Len(t) /\ \A i \in 1..Len(t) : t[i] \in TextLines
BY DEF Texts

LEMMA TextsJoin ==
  ASSUME NEW t \in Texts, NEW u \in Texts
  PROVE  /\ t \o u \in Texts /\ Len(t \o u) = Len(t) + Len(u)
         /\ \A i \in 1..Len(t) : (t \o u)[i] = t[i]
         /\ \A i \in 1..Len(u) : (t \o u)[Len(t) + i] = u[i]
BY DEF Texts

LEMMA PartIs ==
  ASSUME NEW t \in Texts, NEW i \in 1..(Len(t) + 1), NEW k \in (i - 1)..Len(t)
  PROVE  /\ Part(t, i, k) \in Texts /\ Len(Part(t, i, k)) = k - i + 1
         /\ \A j \in 1..(k - i + 1) : Part(t, i, k)[j] = t[i + j - 1]
<1>1. Len(t) \in Nat  BY TextIs
<1>2. i \in Nat \ {0} /\ k \in Nat /\ i <= k + 1 /\ k <= Len(t)  BY <1>1
<1>3. SubSeq(t, i, k) = [j \in 1..(k - i + 1) |-> t[i + j - 1]]  BY <1>2 DEF Texts
<1>4. \A j \in 1..(k - i + 1) : t[i + j - 1] \in TextLines
  <2>1. \A j \in 1..(k - i + 1) : i + j - 1 \in 1..Len(t)  BY <1>1, <1>2
  <2>. QED  BY <2>1, TextIs
<1>5. k - i + 1 \in Nat  BY <1>2
<1>. DEFINE f == [j \in 1..(k - i + 1) |-> t[i + j - 1]]
<1>6. f \in Texts /\ Len(f) = k - i + 1 /\ \A j \in 1..(k - i + 1) : f[j] = t[i + j - 1]
  BY <1>4, <1>5 DEF Texts
<1>. QED  BY <1>3, <1>6 DEF Part

\* Two parts that follow each other.
LEMMA PartsJoin ==
  ASSUME NEW t \in Texts, NEW i \in 1..(Len(t) + 1), NEW m \in (i - 1)..Len(t), NEW k \in m..Len(t)
  PROVE  Part(t, i, m) \o Part(t, m + 1, k) = Part(t, i, k)
<1>. DEFINE a == Part(t, i, m)
            b == Part(t, m + 1, k)
            c == Part(t, i, k)
<1>0. Len(t) \in Nat /\ i \in Nat /\ m \in Int /\ k \in Int /\ i - 1 <= m /\ m <= k /\ k <= Len(t) /\ 1 <= i
  <2>1. Len(t) \in Nat  BY TextIs
  <2>. QED  BY <2>1
<1>1. m + 1 \in 1..(Len(t) + 1) /\ k \in (m + 1 - 1)..Len(t) /\ k \in (i - 1)..Len(t)  BY <1>0
<1>2. a \in Texts /\ Len(a) = m - i + 1 /\ \A j \in 1..(m - i + 1) : a[j] = t[i + j - 1]  BY PartIs
<1>3. b \in Texts /\ Len(b) = k - (m + 1) + 1 /\ \A j \in 1..(k - (m + 1) + 1) : b[j] = t[(m + 1) + j - 1]
  <2>. DEFINE n == m + 1
  <2>1. n \in 1..(Len(t) + 1) /\ k \in (n - 1)..Len(t)  BY <1>1
  <2>. HIDE DEF n
  <2>2. Part(t, n, k) \in Texts /\ Len(Part(t, n, k)) = k - n + 1 /\ \A j \in 1..(k - n + 1) : Part(t, n, k)[j] = t[n + j - 1]
    BY <2>1, PartIs
  <2>. QED  BY <2>2 DEF n
<1>4. c \in Texts /\ Len(c) = k - i + 1 /\ \A j \in 1..(k - i + 1) : c[j] = t[i + j - 1]  BY <1>1, PartIs
<1>. HIDE DEF a, b, c
<1>. DEFINE u == a \o b
<1>5. /\ u \in Texts /\ Len(u) = Len(a) + Len(b)
      /\ (\A j \in 1..Len(a) : u[j] = a[j]) /\ \A j \in 1..Len(b) : u[Len(a) + j] = b[j]
  BY <1>2, <1>3, TextsJoin
<1>. HIDE DEF u
<1>6. Len(u) = Len(c)  BY <1>0, <1>2, <1>3, <1>4, <1>5
<1>7. \A j \in 1..Len(u) : u[j] = c[j]
  <2>1. TAKE j \in 1..Len(u)
  <2>2. c[j] = t[i + j - 1]  BY <1>4, <1>6
  <2>3. CASE j <= Len(a)
    <3>1. j \in 1..Len(a) /\ j \in 1..(m - i + 1)  BY <1>0, <1>2, <2>3
    <3>. QED  BY <1>2, <1>5, <2>2, <3>1
  <2>4. CASE j > Len(a)
    <3>. DEFINE n == j - Len(a)
    <3>1. n \in 1..Len(b) /\ n \in 1..(k - (m + 1) + 1) /\ j = Len(a) + n /\ (m + 1) + n - 1 = i + j - 1
      BY <1>0, <1>2, <1>3, <1>5, <2>4
    <3>. HIDE DEF n
    <3>2. u[j] = b[n]  BY <1>5, <3>1
    <3>3. b[n] = t[(m + 1) + n - 1]  BY <1>3, <3>1
    <3>. QED  BY <2>2, <3>1, <3>2, <3>3
  <2>5. j <= Len(a) \/ j > Len(a)  BY <1>0, <1>2
  <2>. QED  BY <2>3, <2>4, <2>5
<1>8. u = c  BY <1>4, <1>5, <1>6, <1>7, TextSame
<1>. QED  BY <1>8 DEF a, b, c, u

\* The least of a set of numbers, and the greatest.
LEMMA LeastIs ==
  ASSUME NEW S, S \subseteq Int, NEW m \in S, \A x \in S : m <= x
  PROVE  Min(S) = m
<1>1. Min(S) = CHOOSE y \in S : \A x \in S : y <= x  BY DEF Min
<1>2. \A y \in S : (\A x \in S : y <= x) => y = m  OBVIOUS
<1>. QED  BY <1>1, <1>2

LEMMA GreatestIs ==
  ASSUME NEW S, S \subseteq Int, NEW m \in S, \A x \in S : x <= m
  PROVE  Max(S) = m
<1>1. Max(S) = CHOOSE y \in S : \A x \in S : y >= x  BY DEF Max
<1>2. \A y \in S : (\A x \in S : y >= x) => y = m  OBVIOUS
<1>. QED  BY <1>1, <1>2

\* Induction up to a number.
LEMMA UpTo ==
  ASSUME NEW N \in Nat, NEW G, 0 \in G, \A i \in 1..N : i - 1 \in G => i \in G
  PROVE  \A i \in 0..N : i \in G
<1>. DEFINE Bad == {i \in 0..N : i \notin G}
<1>1. SUFFICES ASSUME Bad # {}  PROVE FALSE  OBVIOUS
<1>2. Bad \subseteq Nat  OBVIOUS
<1>3. PICK i \in Bad : \A j \in Bad : i <= j
  <2>. HIDE DEF Bad
  <2>. QED  BY <1>1, <1>2, LeastMember
<1>4. i \in 0..N /\ i \notin G  OBVIOUS
<1>5. i \in 1..N /\ i - 1 \in 0..N /\ ~(i <= i - 1)  BY <1>4
<1>6. i - 1 \notin Bad
  <2>. HIDE DEF Bad
  <2>. QED  BY <1>3, <1>5
<1>. QED  BY <1>4, <1>5, <1>6

\* A function can be given its values one after the other.
Stays(F, N, V) == \A i \in 1..N : \A v \in V : F[<<i, v>>] \in V
Stepped(F, N, V, first) ==
  \E f \in [0..N -> V] : f[0] = first /\ \A i \in 1..N : f[i] = F[<<i, f[i - 1]>>]

LEMMA StepByStep ==
  ASSUME NEW N \in Nat, NEW V, NEW first \in V, NEW F, Stays(F, N, V)
  PROVE  Stepped(F, N, V, first)
<1>. DEFINE Made(n) == \E f \in [0..n -> V] : f[0] = first /\ \A i \in 1..n : f[i] = F[<<i, f[i - 1]>>]
            G == {n \in 0..N : Made(n)}
<1>1. Made(0)
  <2>. DEFINE f == [i \in 0..0 |-> first]
  <2>1. f \in [0..0 -> V] /\ f[0] = first /\ \A i \in 1..0 : f[i] = F[<<i, f[i - 1]>>]  OBVIOUS
  <2>. QED  BY <2>1
<1>2. ASSUME NEW n \in 1..N, Made(n - 1)
      PROVE  Made(n)
  <2>1. PICK f \in [0..(n - 1) -> V] : f[0] = first /\ \A i \in 1..(n - 1) : f[i] = F[<<i, f[i - 1]>>]
    BY <1>2
  <2>. DEFINE g == [i \in 0..n |-> IF i = n THEN F[<<n, f[n - 1]>>] ELSE f[i]]
  <2>2. n - 1 \in 0..(n - 1) /\ f[n - 1] \in V  BY <2>1
  <2>3. F[<<n, f[n - 1]>>] \in V  BY <2>2 DEF Stays
  <2>4. \A i \in 0..n : i = n \/ i \in 0..(n - 1)  OBVIOUS
  <2>5. g \in [0..n -> V]  BY <2>3, <2>4
  <2>6. g[n] = F[<<n, f[n - 1]>>] /\ \A i \in 0..(n - 1) : g[i] = f[i]  OBVIOUS
  <2>. HIDE DEF g
  <2>7. g[0] = first
    <3>1. 0 \in 0..(n - 1)  OBVIOUS
    <3>. QED  BY <2>1, <2>6, <3>1
  <2>8. \A i \in 1..n : g[i] = F[<<i, g[i - 1]>>]
    <3>1. TAKE i \in 1..n
    <3>2. i - 1 \in 0..(n - 1)  OBVIOUS
    <3>3. g[i - 1] = f[i - 1]  BY <2>6, <3>2
    <3>4. CASE i = n  BY <2>6, <3>3, <3>4
    <3>5. CASE i # n
      <4>1. i \in 1..(n - 1) /\ i \in 0..(n - 1)  BY <3>5
      <4>. QED  BY <2>1, <2>6, <3>3, <4>1
    <3>. QED  BY <3>4, <3>5
  <2>. QED  BY <2>5, <2>7, <2>8
<1>. HIDE DEF Made
<1>3. 0 \in G /\ \A i \in 1..N : i - 1 \in G => i \in G
  <2>1. \A i \in 1..N : i - 1 \in G => Made(i)  BY <1>2
  <2>. QED  BY <1>1, <2>1
<1>4. N \in G
  <2>1. N \in 0..N  OBVIOUS
  <2>. HIDE DEF G
  <2>. QED  BY <1>3, <2>1, UpTo
<1>. QED  BY <1>4 DEF Made, Stepped

LEMMA TextsAre ==
  ASSUME NEW t \in Texts, NEW u \in Texts, NEW v \in Texts
  PROVE  (t \o u) \o v = t \o (u \o v) /\ <<>> \o t = t /\ t \o <<>> = t
<1>1. /\ (t \o u) \o v \in Texts /\ Len((t \o u) \o v) = Len(t) + Len(u) + Len(v)
      /\ t \o (u \o v) \in Texts /\ Len(t \o (u \o v)) = Len(t) + Len(u) + Len(v)
  <2>1. t \o u \in Texts /\ u \o v \in Texts  BY TextsJoin
  <2>2. Len(t \o u) = Len(t) + Len(u) /\ Len(u \o v) = Len(u) + Len(v)  BY TextsJoin
  <2>3. Len((t \o u) \o v) = Len(t \o u) + Len(v) /\ Len(t \o (u \o v)) = Len(t) + Len(u \o v)
    BY <2>1, TextsJoin
  <2>4. Len(t) \in Nat /\ Len(u) \in Nat /\ Len(v) \in Nat  BY TextIs
  <2>. QED  BY <2>1, <2>2, <2>3, <2>4, TextsJoin
<1>2. (t \o u) \o v = t \o (u \o v)  BY DEF Texts
<1>3. <<>> \o t = t /\ t \o <<>> = t  BY DEF Texts
<1>. QED  BY <1>2, <1>3

LEMMA TextsAgain ==
  ASSUME NEW t \in Texts, NEW u \in Texts, NEW v \in Texts
  PROVE  (t \o u) \o v = t \o (u \o v)
BY TextsAre

Again(t, u, v) == (t \o u) \o v = t \o (u \o v)
LEMMA TextsJoinedAgain ==
  ASSUME NEW t \in Texts, NEW u \in Texts, NEW v \in Texts
  PROVE  Again(t, u, v)
BY TextsAgain, Zenon DEF Again

\* The lines of the kinds K, one after the other.
Chosen(x, K) == IF x.what \in K THEN <<x>> ELSE <<>>
Selects(b, K, f) ==
  /\ f \in [0..Len(b) -> Texts] /\ f[0] = <<>>
  /\ \A n \in 1..Len(b) : f[n] = f[n - 1] \o Chosen(b[n], K)

LEMMA ChosenIs ==
  ASSUME NEW x \in TextLines, NEW K
  PROVE  Chosen(x, K) \in Texts /\ <<>> \in Texts
BY DEF Chosen, Texts

LEMMA OfKindsIs ==
  ASSUME NEW b \in Texts, NEW K
  PROVE  \E f : Selects(b, K, f) /\ OfKinds(b, K) = f[Len(b)]
<1>. DEFINE N == Len(b)
            Is(f) == f = [n \in 0..N |-> IF n = 0 THEN <<>> ELSE f[n - 1] \o Chosen(b[n], K)]
            f == CHOOSE f : Is(f)
<1>1. OfKinds(b, K) = f[N]  BY DEF OfKinds, Chosen
<1>2. N \in Nat /\ \A i \in 1..N : b[i] \in TextLines  BY DEF Texts
<1>3. \E g : Is(g)
  <2>. DEFINE F == [p \in (1..N) \X Texts |-> p[2] \o Chosen(b[p[1]], K)]
  <2>. HIDE DEF N
  <2>1. \A i \in 1..N : \A v \in Texts : F[<<i, v>>] = v \o Chosen(b[i], K) /\ F[<<i, v>>] \in Texts
    <3>1. \A i \in 1..N : \A v \in Texts : v \o Chosen(b[i], K) \in Texts  BY <1>2, ChosenIs, TextsJoin
    <3>. QED  BY <3>1
  <2>. HIDE DEF F
  <2>2. PICK g \in [0..N -> Texts] : g[0] = <<>> /\ \A i \in 1..N : g[i] = F[<<i, g[i - 1]>>]
    <3>1. N \in Nat /\ <<>> \in Texts /\ Stays(F, N, Texts)  BY <1>2, <2>1 DEF Stays, Texts
    <3>2. Stepped(F, N, Texts, <<>>)  BY <3>1, StepByStep
    <3>. QED  BY <3>2, Zenon DEF Stepped
  <2>3. \A i \in 1..N : g[i] = g[i - 1] \o Chosen(b[i], K)
    <3>1. \A i \in 1..N : i - 1 \in 0..N  BY <1>2
    <3>2. \A i \in 1..N : g[i - 1] \in Texts  BY <2>2, <3>1
    <3>. QED  BY <2>1, <2>2, <3>2
  <2>4. \A i \in 0..N : i = 0 \/ i \in 1..N  BY <1>2
  <2>5. \A i \in 0..N : g[i] = IF i = 0 THEN <<>> ELSE g[i - 1] \o Chosen(b[i], K)  BY <2>2, <2>3, <2>4
  <2>6. g = [n \in 0..N |-> IF n = 0 THEN <<>> ELSE g[n - 1] \o Chosen(b[n], K)]  BY <2>2, <2>5
  <2>. QED  BY <2>6
<1>4. Is(f)
  <2>. HIDE DEF Is
  <2>. QED  BY <1>3
<1>. HIDE DEF f, N
<1>5. f[0] = <<>> /\ \A i \in 1..N : f[i] = f[i - 1] \o Chosen(b[i], K)
  <2>1. 0 \in 0..N /\ \A i \in 1..N : i \in 0..N /\ i # 0  BY <1>2
  <2>. QED  BY <1>4, <2>1
<1>6. \A i \in 0..N : f[i] \in Texts
  <2>. DEFINE G == {i \in 0..N : f[i] \in Texts}
  <2>1. 0 \in G
    <3>1. <<>> \in Texts  BY DEF Texts
    <3>2. f[0] \in Texts /\ 0 \in 0..N  BY <1>2, <1>5, <3>1
    <3>. QED  BY <3>2
  <2>2. \A i \in 1..N : i - 1 \in G => i \in G
    <3>1. TAKE i \in 1..N
    <3>2. HAVE i - 1 \in G
    <3>3. Chosen(b[i], K) \in Texts /\ f[i - 1] \in Texts /\ i \in 0..N  BY <1>2, <3>2, ChosenIs
    <3>4. f[i - 1] \o Chosen(b[i], K) \in Texts  BY <3>3, TextsJoin
    <3>5. f[i] \in Texts  BY <1>5, <3>4
    <3>. QED  BY <3>3, <3>5
  <2>. HIDE DEF G
  <2>3. \A i \in 0..N : i \in G  BY <1>2, <2>1, <2>2, UpTo
  <2>. QED  BY <2>3 DEF G
<1>7. f \in [0..N -> Texts]  BY <1>4, <1>6
<1>. QED  BY <1>1, <1>5, <1>7 DEF Selects, N

LEMMA TextsJoined ==
  ASSUME NEW b \in Texts, NEW c \in Texts
  PROVE  /\ b \o c \in Texts /\ Len(b) \in Nat /\ Len(c) \in Nat /\ Len(b \o c) = Len(b) + Len(c)
         /\ \A i \in 1..Len(b) : (b \o c)[i] = b[i] /\ b[i] \in TextLines
         /\ \A i \in 1..Len(c) : (b \o c)[Len(b) + i] = c[i] /\ c[i] \in TextLines
BY DEF Texts

\* What is selected of two texts in a row.
LEMMA OfKindsJoins ==
  ASSUME NEW b \in Texts, NEW c \in Texts, NEW K
  PROVE  /\ OfKinds(b \o c, K) = OfKinds(b, K) \o OfKinds(c, K)
         /\ OfKinds(b, K) \in Texts /\ OfKinds(c, K) \in Texts
<1>. DEFINE w == b \o c
            l == Len(b)
            m == Len(c)
<1>1. /\ w \in Texts /\ l \in Nat /\ m \in Nat /\ Len(w) = l + m
      /\ \A i \in 1..l : w[i] = b[i] /\ b[i] \in TextLines
      /\ \A i \in 1..m : w[l + i] = c[i] /\ c[i] \in TextLines
  BY TextsJoined
<1>. HIDE DEF w
<1>2. PICK f : Selects(w, K, f) /\ OfKinds(w, K) = f[Len(w)]  BY <1>1, OfKindsIs
<1>3. PICK g : Selects(b, K, g) /\ OfKinds(b, K) = g[Len(b)]  BY OfKindsIs
<1>4. PICK h : Selects(c, K, h) /\ OfKinds(c, K) = h[Len(c)]  BY OfKindsIs
<1>. HIDE DEF l, m
<1>5. l \in 0..l /\ m \in 0..m /\ 0 \in 0..m /\ 0 \in 0..l  BY <1>1
<1>6. \A i \in 0..l : f[i] = g[i]
  <2>. DEFINE G == {i \in 0..l : f[i] = g[i]}
  <2>1. 0 \in G  BY <1>2, <1>3, <1>5 DEF Selects
  <2>2. \A i \in 1..l : i - 1 \in G => i \in G
    <3>1. TAKE i \in 1..l
    <3>2. HAVE i - 1 \in G
    <3>3. i \in 1..Len(w) /\ i \in 0..l  BY <1>1
    <3>4. f[i] = f[i - 1] \o Chosen(w[i], K)  BY <1>2, <3>3 DEF Selects
    <3>5. g[i] = g[i - 1] \o Chosen(b[i], K)  BY <1>3 DEF Selects, l
    <3>. QED  BY <1>1, <3>2, <3>3, <3>4, <3>5
  <2>. HIDE DEF G
  <2>3. \A i \in 0..l : i \in G  BY <1>1, <2>1, <2>2, UpTo
  <2>. QED  BY <2>3 DEF G
<1>7. g[l] \in Texts /\ \A j \in 0..m : h[j] \in Texts  BY <1>3, <1>4, <1>5 DEF Selects, l, m
<1>8. \A j \in 0..m : f[l + j] = g[l] \o h[j]
  <2>. DEFINE G == {j \in 0..m : f[l + j] = g[l] \o h[j]}
  <2>1. 0 \in G
    <3>1. h[0] = <<>> /\ l + 0 = l  BY <1>1, <1>4 DEF Selects
    <3>2. g[l] \o <<>> = g[l]  BY <1>7, TextsAre
    <3>. QED  BY <1>5, <1>6, <3>1, <3>2
  <2>2. \A j \in 1..m : j - 1 \in G => j \in G
    <3>1. TAKE j \in 1..m
    <3>2. HAVE j - 1 \in G
    <3>. DEFINE n == l + j
    <3>3. n \in 1..Len(w) /\ j \in 0..m /\ j - 1 \in 0..m /\ n - 1 = l + (j - 1) /\ n = l + j  BY <1>1
    <3>. HIDE DEF n
    <3>4. f[n] = f[n - 1] \o Chosen(w[n], K)  BY <1>2, <3>3 DEF Selects
    <3>5. h[j] = h[j - 1] \o Chosen(c[j], K)  BY <1>4 DEF Selects, m
    <3>6. f[l + (j - 1)] = g[l] \o h[j - 1]  BY <3>2
    <3>. DEFINE x == Chosen(c[j], K)
                y == h[j - 1]
    <3>7. f[n] = (g[l] \o y) \o x
      <4>1. w[n] = c[j] /\ f[n - 1] = f[l + (j - 1)]  BY <1>1, <3>3
      <4>. QED  BY <3>4, <3>6, <4>1
    <3>8. x \in Texts /\ y \in Texts  BY <1>1, <1>7, <3>3, ChosenIs
    <3>9. h[j] = y \o x  BY <3>5
    <3>. HIDE DEF x, y
    <3>10. Again(g[l], y, x)  BY <1>7, <3>8, TextsJoinedAgain
    <3>11. f[l + j] = g[l] \o h[j]  BY <3>3, <3>7, <3>9, <3>10 DEF Again
    <3>. QED  BY <3>3, <3>11
  <2>. HIDE DEF G
  <2>3. \A i \in 0..m : i \in G  BY <1>1, <2>1, <2>2, UpTo
  <2>. QED  BY <2>3 DEF G
<1>9. f[l + m] = g[l] \o h[m]  BY <1>5, <1>8
<1>10. OfKinds(w, K) = OfKinds(b, K) \o OfKinds(c, K)  BY <1>1, <1>2, <1>3, <1>4, <1>9 DEF l, m
<1>11. OfKinds(b, K) \in Texts /\ OfKinds(c, K) \in Texts  BY <1>3, <1>4, <1>5, <1>7 DEF l, m
<1>. QED  BY <1>10, <1>11 DEF w

-----------------------------------------------------------------------------
(* Lists in a text.                                                        *)

FirstDash(l) == IF l = "tasks" THEN Dash("t1") ELSE Dash("r1")

\* Lines of one item: a dash, and below it neither a dash nor a head.
Plain(u) == u \in Texts /\ \A i \in 1..Len(u) : u[i].what # "dash" /\ u[i].what # "head"
OneItem(u) ==
  /\ u \in Texts /\ 1 <= Len(u) /\ u[1].what = "dash"
  /\ \A i \in 2..Len(u) : u[i].what # "dash" /\ u[i].what # "head"

\* In w the list l has its head at p and the lines of u below it, and ends there.
ListAt(w, l, p, u) ==
  /\ w \in Texts /\ u \in Texts /\ p \in 1..Len(w) /\ p + Len(u) <= Len(w)
  /\ w[p] = ListHead(l) /\ \A i \in 1..(p - 1) : w[i] # ListHead(l)
  /\ \A i \in 1..Len(u) : w[p + i] = u[i] /\ u[i].what # "head"
  /\ p + Len(u) < Len(w) => w[p + Len(u) + 1].what = "head"

LEMMA ListIs ==
  ASSUME NEW l \in ListNames, NEW w, NEW p, NEW u, ListAt(w, l, p, u)
  PROVE  HeadOf(w, l) = p /\ EndOf(w, l) = p + Len(u)
<1>1. /\ w \in Texts /\ u \in Texts /\ p \in 1..Len(w) /\ p + Len(u) <= Len(w)
      /\ w[p] = ListHead(l) /\ \A i \in 1..(p - 1) : w[i] # ListHead(l)
      /\ \A i \in 1..Len(u) : w[p + i] = u[i] /\ u[i].what # "head"
      /\ p + Len(u) < Len(w) => w[p + Len(u) + 1].what = "head"
  BY DEF ListAt
<1>2. Len(w) \in Nat /\ DOMAIN w = 1..Len(w) /\ Len(u) \in Nat /\ p \in Nat \ {0}
  <2>1. Len(w) \in Nat /\ DOMAIN w = 1..Len(w) /\ Len(u) \in Nat  BY <1>1, TextIs
  <2>. QED  BY <1>1, <2>1
<1>3. HeadOf(w, l) = p
  <2>. DEFINE S == {i \in DOMAIN w : w[i] = ListHead(l)}
  <2>1. S \subseteq Int /\ p \in S  BY <1>1, <1>2
  <2>2. \A i \in S : p <= i
    <3>1. TAKE i \in S
    <3>2. i \in 1..Len(w) /\ w[i] = ListHead(l)  BY <1>2
    <3>3. ~(i \in 1..(p - 1))  BY <1>1, <3>2
    <3>. QED  BY <1>2, <3>2, <3>3
  <2>. HIDE DEF S
  <2>3. Min(S) = p  BY <2>1, <2>2, LeastIs
  <2>. QED  BY <2>3 DEF HeadOf, S
<1>4. LastBefore(w, p, {"head"}) = p + Len(u)
  <2>. DEFINE S == {j \in p + 1..Len(w) : w[j].what \in {"head"}} \cup {Len(w) + 1}
              m == p + Len(u) + 1
  <2>1. S \subseteq Int /\ m \in Int  BY <1>2
  <2>2. m \in S
    <3>1. CASE p + Len(u) < Len(w)
      <4>1. m \in p + 1..Len(w) /\ w[m].what = "head"  BY <1>1, <1>2, <3>1
      <4>. QED  BY <4>1
    <3>2. CASE p + Len(u) >= Len(w)
      <4>0. p + Len(u) = Len(w)
        <5>1. \A a, b, c \in Nat : a + b <= c /\ a + b >= c => a + b = c  OBVIOUS
        <5>2. p \in Nat /\ Len(u) \in Nat /\ Len(w) \in Nat /\ p + Len(u) <= Len(w)  BY <1>1, <1>2
        <5>. HIDE DEF S, m
        <5>. QED  BY <3>2, <5>1, <5>2, Zenon
      <4>1. m = Len(w) + 1  BY <4>0
      <4>. QED  BY <4>1
    <3>. QED  BY <1>2, <3>1, <3>2
  <2>3. \A j \in S : m <= j
    <3>1. TAKE j \in S
    <3>2. CASE j = Len(w) + 1  BY <1>1, <1>2, <3>2
    <3>3. CASE j \in p + 1..Len(w) /\ w[j].what = "head"
      <4>. DEFINE i == j - p
      <4>1. j = p + i /\ i \in Int /\ i >= 1  BY <1>2, <3>3
      <4>2. ~(i \in 1..Len(u))
        <5>. HIDE DEF i
        <5>. QED  BY <1>1, <3>3, <4>1
      <4>. HIDE DEF i
      <4>. QED  BY <1>2, <4>1, <4>2
    <3>. QED  BY <3>2, <3>3
  <2>. HIDE DEF S, m
  <2>4. Min(S) = m  BY <2>1, <2>2, <2>3, LeastIs
  <2>5. LastBefore(w, p, {"head"}) = m - 1  BY <2>4 DEF LastBefore, S
  <2>. QED  BY <1>2, <2>5 DEF m
<1>. QED  BY <1>3, <1>4 DEF EndOf

\* A part of the lines below the head.
LEMMA ListPart ==
  ASSUME NEW l, NEW w, NEW p, NEW u, ListAt(w, l, p, u),
         NEW i \in 1..(Len(u) + 1), NEW k \in (i - 1)..Len(u)
  PROVE  Part(w, p + i, p + k) = Part(u, i, k)
<1>1. /\ w \in Texts /\ u \in Texts /\ p \in 1..Len(w) /\ p + Len(u) <= Len(w)
      /\ \A j \in 1..Len(u) : w[p + j] = u[j]
  BY DEF ListAt
<1>2. Len(w) \in Nat /\ Len(u) \in Nat /\ p \in Nat \ {0} /\ i \in Nat \ {0} /\ k \in Nat /\ k <= Len(u) /\ i - 1 <= k
  <2>1. Len(w) \in Nat /\ Len(u) \in Nat  BY <1>1, TextIs
  <2>. QED  BY <1>1, <2>1
<1>. DEFINE a == p + i
            b == p + k
<1>3. a \in 1..(Len(w) + 1) /\ b \in (a - 1)..Len(w) /\ b - a + 1 = k - i + 1 /\ a = p + i /\ b = p + k
  BY <1>1, <1>2
<1>. HIDE DEF a, b
<1>4. /\ Part(w, a, b) \in Texts /\ Len(Part(w, a, b)) = b - a + 1
      /\ \A j \in 1..(b - a + 1) : Part(w, a, b)[j] = w[a + j - 1]
  BY <1>1, <1>3, PartIs
<1>5. /\ Part(u, i, k) \in Texts /\ Len(Part(u, i, k)) = k - i + 1
      /\ \A j \in 1..(k - i + 1) : Part(u, i, k)[j] = u[i + j - 1]
  BY <1>1, PartIs
<1>6. \A j \in 1..(k - i + 1) : w[a + j - 1] = u[i + j - 1]
  <2>1. TAKE j \in 1..(k - i + 1)
  <2>. DEFINE n == i + j - 1
  <2>2. n \in 1..Len(u) /\ a + j - 1 = p + n  BY <1>2, <1>3
  <2>. HIDE DEF n
  <2>3. w[p + n] = u[n]  BY <1>1, <2>2
  <2>. QED  BY <2>2, <2>3 DEF n
<1>. DEFINE x == Part(w, a, b)
            y == Part(u, i, k)
<1>7. x \in Texts /\ y \in Texts /\ Len(x) = Len(y) /\ \A j \in 1..Len(x) : x[j] = y[j]
  <2>1. Len(x) = k - i + 1 /\ Len(y) = k - i + 1  BY <1>3, <1>4, <1>5
  <2>2. \A j \in 1..(k - i + 1) : x[j] = y[j]  BY <1>3, <1>4, <1>5, <1>6
  <2>3. x \in Texts /\ y \in Texts  BY <1>4, <1>5
  <2>. HIDE DEF x, y
  <2>. QED  BY <2>1, <2>2, <2>3
<1>. HIDE DEF x, y
<1>8. x = y  BY <1>7, TextSame
<1>. QED  BY <1>8 DEF x, y, a, b

LEMMA DashesAre ==
  ASSUME NEW l \in ListNames, NEW w, NEW p, NEW u, ListAt(w, l, p, u)
  PROVE  /\ \A j \in Dashes(w, l) : \E i \in 1..Len(u) : j = p + i /\ u[i].what = "dash"
         /\ \A i \in 1..Len(u) : u[i].what = "dash" => p + i \in Dashes(w, l)
<1>1. HeadOf(w, l) = p /\ EndOf(w, l) = p + Len(u)  BY ListIs
<1>2. /\ w \in Texts /\ u \in Texts /\ p \in 1..Len(w) /\ w[p] = ListHead(l)
      /\ \A i \in 1..Len(u) : w[p + i] = u[i]
  BY DEF ListAt
<1>3. Len(w) \in Nat /\ Len(u) \in Nat /\ p \in Nat \ {0}
  <2>1. Len(w) \in Nat /\ Len(u) \in Nat  BY <1>2, TextIs
  <2>. QED  BY <1>2, <2>1
<1>4. Dashes(w, l) = {i \in p..p + Len(u) : w[i].what = "dash"}  BY <1>1 DEF Dashes
<1>5. w[p].what # "dash"  BY <1>2, LinesAre
<1>6. ASSUME NEW j \in Dashes(w, l)
      PROVE  \E i \in 1..Len(u) : j = p + i /\ u[i].what = "dash"
  <2>1. j \in p..p + Len(u) /\ w[j].what = "dash"  BY <1>4
  <2>2. j # p  BY <1>5, <2>1
  <2>. DEFINE i == j - p
  <2>3. i \in 1..Len(u) /\ j = p + i  BY <1>3, <2>1, <2>2
  <2>. HIDE DEF i
  <2>. QED  BY <1>2, <2>1, <2>3
<1>7. ASSUME NEW i \in 1..Len(u), u[i].what = "dash"
      PROVE  p + i \in Dashes(w, l)
  <2>. DEFINE j == p + i
  <2>1. j \in p..p + Len(u)  BY <1>3
  <2>2. w[j].what = "dash"  BY <1>2, <1>7
  <2>. HIDE DEF j
  <2>3. j \in Dashes(w, l)  BY <1>4, <2>1, <2>2
  <2>. QED  BY <2>3 DEF j
<1>. QED  BY <1>6, <1>7

\* An item goes up to the next dash of its list or the end of the list.
LEMMA ItemEnds ==
  ASSUME NEW l \in ListNames, NEW w, NEW p, NEW u, ListAt(w, l, p, u),
         NEW i \in 1..Len(u), NEW k \in i..Len(u),
         \A j \in (i + 1)..k : u[j].what # "dash",
         k = Len(u) \/ u[k + 1].what = "dash"
  PROVE  ItemAt(w, p + i) = OfKinds(Part(u, i, k), Contents)
<1>1. /\ w \in Texts /\ u \in Texts /\ p \in 1..Len(w) /\ p + Len(u) <= Len(w)
      /\ \A j \in 1..Len(u) : w[p + j] = u[j] /\ u[j].what # "head"
      /\ p + Len(u) < Len(w) => w[p + Len(u) + 1].what = "head"
  BY DEF ListAt
<1>2. Len(w) \in Nat /\ Len(u) \in Nat /\ p \in Nat \ {0} /\ i \in Nat \ {0} /\ k \in Nat /\ i <= k /\ k <= Len(u)
  <2>1. Len(w) \in Nat /\ Len(u) \in Nat  BY <1>1, TextIs
  <2>. QED  BY <1>1, <2>1
<1>. DEFINE d == p + i
            m == p + k + 1
            S == {j \in d + 1..Len(w) : w[j].what \in {"dash", "head"}} \cup {Len(w) + 1}
<1>3. S \subseteq Int  BY <1>2
<1>4. m \in S
  <2>1. CASE k < Len(u)
    <3>. DEFINE n == k + 1
    <3>1. n \in 1..Len(u) /\ m = p + n /\ u[n].what = "dash" /\ m \in d + 1..Len(w)  BY <1>1, <1>2, <2>1
    <3>. HIDE DEF n
    <3>2. w[p + n].what = "dash"  BY <1>1, <3>1
    <3>. QED  BY <3>1, <3>2
  <2>2. CASE k = Len(u)
    <3>1. CASE p + Len(u) < Len(w)
      <4>1. m \in d + 1..Len(w)  BY <1>2, <2>2, <3>1
      <4>2. w[m].what = "head"  BY <1>1, <2>2, <3>1
      <4>. QED  BY <4>1, <4>2
    <3>2. CASE ~(p + Len(u) < Len(w))
      <4>1. \A a, b, c \in Nat : a + b <= c /\ ~(a + b < c) => a + b + 1 = c + 1  OBVIOUS
      <4>2. p \in Nat /\ Len(u) \in Nat /\ Len(w) \in Nat /\ p + Len(u) <= Len(w)  BY <1>1, <1>2
      <4>. HIDE DEF S
      <4>3. m = Len(w) + 1  BY <2>2, <3>2, <4>1, <4>2, Zenon
      <4>. HIDE DEF m
      <4>. QED  BY <4>3 DEF S
    <3>. QED  BY <3>1, <3>2
  <2>3. k < Len(u) \/ k = Len(u)  BY <1>2
  <2>. QED  BY <2>1, <2>2, <2>3
<1>5. \A j \in S : m <= j
  <2>1. TAKE j \in S
  <2>2. CASE j = Len(w) + 1  BY <1>1, <1>2, <2>2
  <2>3. CASE j \in d + 1..Len(w) /\ w[j].what \in {"dash", "head"}
    <3>. DEFINE n == j - p
    <3>1. j = p + n /\ n \in Int /\ n >= i + 1  BY <1>2, <2>3
    <3>. HIDE DEF n
    <3>2. ~(n \in (i + 1)..k)
      <4>1. SUFFICES ASSUME n \in (i + 1)..k  PROVE FALSE  OBVIOUS
      <4>2. n \in 1..Len(u)  BY <1>2, <4>1
      <4>3. w[j] = u[n] /\ u[n].what # "head"  BY <1>1, <3>1, <4>2
      <4>4. u[n].what # "dash"  BY <4>1
      <4>. QED  BY <2>3, <4>3, <4>4
    <3>. QED  BY <1>2, <3>1, <3>2
  <2>. QED  BY <2>2, <2>3
<1>6. m \in Int /\ m - 1 = p + k /\ d + 0 = p + i  BY <1>2
<1>. HIDE DEF S, m
<1>7. Min(S) = m  BY <1>3, <1>4, <1>5, <1>6, LeastIs
<1>8. LastBefore(w, d, {"dash", "head"}) = m - 1  BY <1>7 DEF LastBefore, S
<1>9. Part(w, d, m - 1) = Part(u, i, k)
  <2>1. i \in 1..(Len(u) + 1) /\ k \in (i - 1)..Len(u)  BY <1>2
  <2>2. Part(w, p + i, p + k) = Part(u, i, k)  BY <2>1, ListPart
  <2>. QED  BY <1>6, <2>2
<1>10. ItemAt(w, d) = OfKinds(Part(w, d, m - 1), Contents)  BY <1>8 DEF ItemAt, Part
<1>. QED  BY <1>9, <1>10

\* The whole of a text, as a part of it.
LEMMA WholePart ==
  ASSUME NEW u \in Texts
  PROVE  Part(u, 1, Len(u)) = u
<1>1. Len(u) \in Nat  BY TextIs
<1>2. 1 \in 1..(Len(u) + 1) /\ Len(u) \in (1 - 1)..Len(u)  BY <1>1
<1>. DEFINE x == Part(u, 1, Len(u))
<1>3. x \in Texts /\ Len(x) = Len(u) - 1 + 1 /\ \A j \in 1..(Len(u) - 1 + 1) : x[j] = u[1 + j - 1]
  BY <1>2, PartIs
<1>. HIDE DEF x
<1>4. Len(x) = Len(u) /\ \A j \in 1..Len(x) : x[j] = u[j]
  <2>1. Len(x) = Len(u)  BY <1>1, <1>3
  <2>2. \A j \in 1..Len(x) : 1 + j - 1 = j  BY <1>1, <2>1
  <2>. QED  BY <1>1, <1>3, <2>1, <2>2
<1>5. x = u  BY <1>3, <1>4, TextSame
<1>. QED  BY <1>5 DEF x

\* A list of one item.
LEMMA OneItemIs ==
  ASSUME NEW l \in ListNames, NEW w, NEW p, NEW u, ListAt(w, l, p, u), OneItem(u)
  PROVE  /\ Dashes(w, l) = {p + 1} /\ Max(Dashes(w, l)) = p + 1
         /\ ItemsOf(w, l) = <<OfKinds(u, Contents)>>
<1>1. u \in Texts /\ 1 \in 1..Len(u) /\ Len(u) \in Nat /\ p \in Int /\ u[1].what = "dash"
  <2>1. w \in Texts /\ p \in 1..Len(w) /\ u \in Texts /\ 1 <= Len(u) /\ u[1].what = "dash"  BY DEF ListAt, OneItem
  <2>2. Len(u) \in Nat  BY <2>1, TextIs
  <2>. QED  BY <2>1, <2>2
<1>2. \A i \in 2..Len(u) : u[i].what # "dash"  BY DEF OneItem
<1>3. Dashes(w, l) = {p + 1}
  <2>1. p + 1 \in Dashes(w, l)  BY <1>1, DashesAre
  <2>2. ASSUME NEW j \in Dashes(w, l)
        PROVE  j = p + 1
    <3>1. PICK i \in 1..Len(u) : j = p + i /\ u[i].what = "dash"  BY DashesAre
    <3>2. i = 1 \/ i \in 2..Len(u)  BY <1>1
    <3>. QED  BY <1>2, <3>1, <3>2
  <2>. QED  BY <2>1, <2>2
<1>. DEFINE d == p + 1
<1>4. ItemAt(w, d) = OfKinds(u, Contents)
  <2>1. Len(u) \in 1..Len(u) /\ \A j \in (1 + 1)..Len(u) : u[j].what # "dash"
    <3>1. \A j \in (1 + 1)..Len(u) : j \in 2..Len(u)  BY <1>1
    <3>. QED  BY <1>1, <1>2, <3>1
  <2>2. ItemAt(w, p + 1) = OfKinds(Part(u, 1, Len(u)), Contents)  BY <1>1, <2>1, ItemEnds
  <2>. QED  BY <1>1, <2>2, WholePart
<1>5. d \in Int  BY <1>1
<1>. HIDE DEF d
<1>6. Dashes(w, l) = {d}  BY <1>3 DEF d
<1>7. Max({d}) = d  BY <1>5, GreatestIs
<1>8. Cardinality({d}) = 1  BY FS_Singleton
<1>. DEFINE nth(k) == CHOOSE i \in {d} : Cardinality({j \in {d} : j <= i}) = k
<1>9. nth(1) = d
  <2>1. {j \in {d} : j <= d} = {d}  BY <1>5
  <2>. QED  BY <1>8, <2>1
<1>10. ItemsOf(w, l) = [k \in 1..1 |-> ItemAt(w, nth(k))]  BY <1>6, <1>8 DEF ItemsOf
<1>. HIDE DEF nth
<1>11. ItemsOf(w, l) = <<ItemAt(w, d)>>
  <2>1. \A k \in 1..1 : k = 1  OBVIOUS
  <2>2. ItemsOf(w, l) = [k \in 1..1 |-> ItemAt(w, d)]  BY <1>9, <1>10, <2>1
  <2>. QED  BY <2>2
<1>. QED  BY <1>3, <1>4, <1>6, <1>7, <1>11 DEF d

\* A list of two items, the second of which has its dash at position c.
TwoItems(u, c) ==
  /\ u \in Texts /\ c \in 2..Len(u) /\ u[1].what = "dash" /\ u[c].what = "dash"
  /\ \A i \in 2..Len(u) : i # c => u[i].what # "dash"

LEMMA TwoItemsAre ==
  ASSUME NEW l \in ListNames, NEW w, NEW p, NEW u, NEW c, ListAt(w, l, p, u), TwoItems(u, c)
  PROVE  /\ Max(Dashes(w, l)) = p + c
         /\ ItemsOf(w, l) = <<OfKinds(Part(u, 1, c - 1), Contents), OfKinds(Part(u, c, Len(u)), Contents)>>
<1>1. u \in Texts /\ 1 \in 1..Len(u) /\ Len(u) \in Nat /\ p \in Int /\ c \in Int /\ c \in 2..Len(u) /\ c \in 1..Len(u)
  <2>1. w \in Texts /\ p \in 1..Len(w) /\ u \in Texts /\ c \in 2..Len(u)  BY DEF ListAt, TwoItems
  <2>2. Len(u) \in Nat  BY <2>1, TextIs
  <2>. QED  BY <2>1, <2>2
<1>2. u[1].what = "dash" /\ u[c].what = "dash" /\ \A i \in 2..Len(u) : i # c => u[i].what # "dash"  BY DEF TwoItems
<1>. DEFINE a == p + 1
            b == p + c
<1>3. \A j : j \in Dashes(w, l) <=> j \in {a, b}
  <2>1. p + 1 \in Dashes(w, l) /\ p + c \in Dashes(w, l)  BY <1>1, <1>2, DashesAre
  <2>2. ASSUME NEW j \in Dashes(w, l)
        PROVE  j = p + 1 \/ j = p + c
    <3>1. PICK i \in 1..Len(u) : j = p + i /\ u[i].what = "dash"  BY DashesAre
    <3>2. i = 1 \/ i \in 2..Len(u)  BY <1>1
    <3>3. i = 1 \/ i = c  BY <1>2, <3>1, <3>2
    <3>. QED  BY <3>1, <3>3
  <2>. QED  BY <2>1, <2>2
<1>4. ItemAt(w, a) = OfKinds(Part(u, 1, c - 1), Contents)
  <2>. DEFINE k == c - 1
  <2>1. k \in 1..Len(u)  BY <1>1
  <2>2. k = Len(u) \/ u[k + 1].what = "dash"
    <3>1. k + 1 = c  BY <1>1
    <3>. QED  BY <1>2, <3>1
  <2>3. \A j \in (1 + 1)..k : u[j].what # "dash"
    <3>1. \A j \in (1 + 1)..k : j \in 2..Len(u) /\ j # c  BY <1>1
    <3>. QED  BY <1>2, <3>1
  <2>. HIDE DEF k
  <2>4. ItemAt(w, p + 1) = OfKinds(Part(u, 1, k), Contents)  BY <1>1, <2>1, <2>2, <2>3, ItemEnds
  <2>. QED  BY <2>4 DEF k
<1>5. ItemAt(w, b) = OfKinds(Part(u, c, Len(u)), Contents)
  <2>1. Len(u) \in c..Len(u) /\ \A j \in (c + 1)..Len(u) : u[j].what # "dash"
    <3>1. \A j \in (c + 1)..Len(u) : j \in 2..Len(u) /\ j # c  BY <1>1
    <3>. QED  BY <1>1, <1>2, <3>1
  <2>2. ItemAt(w, p + c) = OfKinds(Part(u, c, Len(u)), Contents)  BY <1>1, <2>1, ItemEnds
  <2>. QED  BY <2>2
<1>6. a \in Int /\ b \in Int /\ a < b  BY <1>1
<1>. HIDE DEF a, b
<1>7. Dashes(w, l) = {a, b}  BY <1>3
<1>8. Max({a, b}) = b
  <2>1. {a, b} \subseteq Int /\ \A x \in {a, b} : x <= b  BY <1>6
  <2>2. b \in {a, b}  OBVIOUS
  <2>. QED  BY <2>1, <2>2, GreatestIs
<1>9. Cardinality({a}) = 1 /\ Cardinality({a, b}) = 2
  <2>1. Cardinality({a}) = 1 /\ IsFiniteSet({a})  BY FS_Singleton
  <2>2. b \notin {a} /\ {a, b} = {a} \cup {b}  BY <1>6
  <2>3. Cardinality({a} \cup {b}) = Cardinality({a}) + 1  BY <2>1, <2>2, FS_AddElement
  <2>. QED  BY <2>1, <2>2, <2>3
<1>. DEFINE upTo(i) == {j \in {a, b} : j <= i}
            nth(k) == CHOOSE i \in {a, b} : Cardinality(upTo(i)) = k
<1>10. upTo(a) = {a} /\ upTo(b) = {a, b}  BY <1>6
<1>11. a # b  BY <1>6
<1>12. ItemsOf(w, l) = [k \in 1..2 |-> ItemAt(w, nth(k))]  BY <1>7, <1>9 DEF ItemsOf
<1>. HIDE DEF upTo
<1>13. nth(1) = a /\ nth(2) = b
  <2>1. Cardinality(upTo(a)) = 1 /\ Cardinality(upTo(b)) = 2  BY <1>9, <1>10
  <2>2. \A i \in {a, b} : Cardinality(upTo(i)) = 1 => i = a  BY <2>1
  <2>3. \A i \in {a, b} : Cardinality(upTo(i)) = 2 => i = b  BY <2>1
  <2>. QED  BY <2>1, <2>2, <2>3
<1>. HIDE DEF nth
<1>14. ItemsOf(w, l) = <<ItemAt(w, a), ItemAt(w, b)>>
  <2>1. \A k \in 1..2 : k = 1 \/ k = 2  OBVIOUS
  <2>2. [k \in 1..2 |-> ItemAt(w, nth(k))] = <<ItemAt(w, nth(1)), ItemAt(w, nth(2))>>  BY <2>1
  <2>. QED  BY <1>12, <1>13, <2>2
<1>15. Max(Dashes(w, l)) = b  BY <1>7, <1>8
<1>. QED  BY <1>4, <1>5, <1>14, <1>15 DEF b

-----------------------------------------------------------------------------
(* Where an item is inserted.                                              *)

LEMMA GreatestNumber ==
  ASSUME NEW T, NEW n \in Int, T \subseteq Int, \A x \in T : x <= n, T # {}
  PROVE  \E x \in T : \A y \in T : y <= x
<1>. DEFINE S == {n - x : x \in T}
<1>0. \A x \in T : n - x \in Nat  OBVIOUS
<1>2. \A x \in T : n - x \in S  OBVIOUS
<1>1. S \subseteq Nat /\ S # {}
  <2>1. PICK x \in T : TRUE  OBVIOUS
  <2>2. n - x \in S  BY <1>2
  <2>3. S \subseteq Nat  BY <1>0
  <2>. HIDE DEF S
  <2>. QED  BY <2>2, <2>3
<1>3. \A y \in S : \E x \in T : y = n - x  OBVIOUS
<1>. HIDE DEF S
<1>4. PICK y \in S : \A z \in S : y <= z  BY <1>1, LeastMember
<1>5. PICK x \in T : y = n - x  BY <1>3
<1>6. \A z \in T : z <= x
  <2>1. TAKE z \in T
  <2>2. y <= n - z  BY <1>2, <1>4
  <2>3. z \in Int /\ x \in Int  OBVIOUS
  <2>. QED  BY <1>5, <2>2, <2>3
<1>. QED  BY <1>6

\* The offset is after the dash of the item, and not after its list.
LEMMA OffsetIs ==
  ASSUME NEW l \in ListNames, NEW w, NEW p, NEW u, ListAt(w, l, p, u), OneItem(u)
  PROVE  \E k \in 1..Len(u) : InsertionOffset(w, l) = p + k
<1>1. Max(Dashes(w, l)) = p + 1  BY OneItemIs
<1>2. /\ w \in Texts /\ u \in Texts /\ p \in 1..Len(w) /\ p + Len(u) <= Len(w)
      /\ w[p + 1] = u[1] /\ u[1].what = "dash"
      /\ p + Len(u) < Len(w) => w[p + Len(u) + 1].what = "head"
      /\ 1 <= Len(u)
  <2>1. u \in Texts /\ 1 <= Len(u) /\ u[1].what = "dash"  BY DEF OneItem
  <2>2. Len(u) \in Nat  BY <2>1, TextIs
  <2>3. 1 \in 1..Len(u)  BY <2>1, <2>2
  <2>. QED  BY <2>1, <2>3 DEF ListAt
<1>3. Len(w) \in Nat /\ Len(u) \in Nat /\ p \in Nat \ {0} /\ \A i \in 1..Len(w) : w[i] \in TextLines
  <2>1. Len(w) \in Nat /\ Len(u) \in Nat /\ \A i \in 1..Len(w) : w[i] \in TextLines  BY <1>2, TextIs
  <2>. QED  BY <1>2, <2>1
<1>. DEFINE d == p + 1
            e == p + Len(u) + 1
            T == {i \in d + 1..Len(w) : w[i].what # "blank" /\ ~w[i].deep} \cup {Len(w) + 1}
            R(stop) == {i \in d..stop - 1 : w[i].what # "blank"}
<1>4. T \subseteq Nat /\ e \in T /\ e \in Int /\ \A i \in T : i >= d + 1
  <2>1. T \subseteq Nat /\ e \in Int /\ \A i \in T : i >= d + 1
    <3>1. d \in Nat /\ Len(w) + 1 >= d + 1  BY <1>2, <1>3
    <3>. QED  BY <1>3, <3>1
  <2>2. CASE p + Len(u) < Len(w)
    <3>1. e \in d + 1..Len(w)  BY <1>2, <1>3, <2>2
    <3>2. e \in 1..Len(w)  BY <1>3, <3>1
    <3>3. w[e].what = "head"  BY <1>2, <2>2
    <3>4. w[e].what # "blank" /\ ~w[e].deep
      <4>1. w[e] \in TextLines  BY <1>3, <3>2
      <4>2. ~w[e].deep  BY <3>3, <4>1, KindsAre
      <4>. QED  BY <3>3, <4>2
    <3>5. e \in T  BY <3>1, <3>4
    <3>. QED  BY <2>1, <3>5
  <2>3. CASE ~(p + Len(u) < Len(w))
    <3>1. \A a, b, c \in Nat : a + b <= c /\ ~(a + b < c) => a + b + 1 = c + 1  OBVIOUS
    <3>2. p \in Nat /\ Len(u) \in Nat /\ Len(w) \in Nat /\ p + Len(u) <= Len(w)  BY <1>2, <1>3
    <3>. HIDE DEF T
    <3>3. e = Len(w) + 1  BY <2>3, <3>1, <3>2, Zenon
    <3>. HIDE DEF e
    <3>4. e \in T  BY <3>3 DEF T
    <3>. QED  BY <2>1, <3>4
  <2>. QED  BY <2>2, <2>3
<1>5. d \in Int /\ d = p + 1 /\ e = p + Len(u) + 1 /\ w[d].what # "blank"  BY <1>2, <1>3
<1>. DEFINE stop == Min(T)
<1>6. InsertionOffset(w, l) = Max(R(stop))
  <2>1. Max(Dashes(w, l)) = d  BY <1>1
  <2>. HIDE DEF d
  <2>. QED  BY <2>1 DEF InsertionOffset
<1>. HIDE DEF T, d, e
<1>7. stop \in Int /\ stop <= e /\ stop >= d + 1
  <2>1. PICK x \in T : \A y \in T : x <= y  BY <1>4, LeastMember
  <2>2. T \subseteq Int  BY <1>4
  <2>3. Min(T) = x  BY <2>1, <2>2, LeastIs
  <2>. QED  BY <1>4, <2>1, <2>2, <2>3
<1>. HIDE DEF stop
<1>8. R(stop) \subseteq Int /\ d \in R(stop) /\ (\A x \in R(stop) : x <= e - 1 /\ x >= d) /\ e - 1 \in Int
  <2>1. d \in d..stop - 1  BY <1>5, <1>7
  <2>2. \A x \in d..stop - 1 : x <= e - 1 /\ x >= d /\ x \in Int  BY <1>4, <1>5, <1>7
  <2>. QED  BY <1>4, <1>5, <2>1, <2>2
<1>. HIDE DEF R
<1>9. PICK x \in R(stop) : \A y \in R(stop) : y <= x
  <2>. DEFINE n == e - 1
              S == R(stop)
  <2>1. n \in Int /\ S \subseteq Int /\ (\A y \in S : y <= n) /\ S # {}  BY <1>8
  <2>. HIDE DEF n, S
  <2>2. \E x \in S : \A y \in S : y <= x  BY <2>1, GreatestNumber
  <2>. QED  BY <2>2 DEF S
<1>10. Max(R(stop)) = x  BY <1>8, <1>9, GreatestIs
<1>11. x \in Int /\ d <= x /\ x <= e - 1  BY <1>8, <1>9
<1>12. x - p \in 1..Len(u) /\ x = p + (x - p)
  <2>1. p \in Int /\ Len(u) \in Int  BY <1>3
  <2>. QED  BY <1>5, <1>11, <2>1
<1>. QED  BY <1>6, <1>10, <1>12

-----------------------------------------------------------------------------
(* A text of two lists.                                                    *)

Headless(u) == u \in Texts /\ \A i \in 1..Len(u) : u[i].what # "head"
Block(l, u) == <<ListHead(l)>> \o u
TextOf(l, u, m, v) == Block(l, u) \o Block(m, v)
Grown(u, k, lines) == (Part(u, 1, k) \o lines) \o Part(u, k + 1, Len(u))

LEMMA OneLineIs ==
  ASSUME NEW x \in TextLines
  PROVE  <<x>> \in Texts /\ Len(<<x>>) = 1 /\ <<x>>[1] = x
BY DEF Texts

LEMMA BlockIs ==
  ASSUME NEW l \in ListNames, NEW u \in Texts
  PROVE  /\ Block(l, u) \in Texts /\ Len(Block(l, u)) = 1 + Len(u) /\ Block(l, u)[1] = ListHead(l)
         /\ \A i \in 1..Len(u) : Block(l, u)[1 + i] = u[i]
<1>. DEFINE h == <<ListHead(l)>>
<1>1. ListHead(l) \in TextLines  BY LinesAre
<1>2. h \in Texts /\ Len(h) = 1 /\ h[1] = ListHead(l)  BY <1>1, OneLineIs
<1>. HIDE DEF h
<1>. DEFINE b == h \o u
<1>3. b \in Texts /\ Len(b) = Len(h) + Len(u) /\ (\A i \in 1..Len(h) : b[i] = h[i]) /\ \A i \in 1..Len(u) : b[Len(h) + i] = u[i]
  BY <1>2, TextsJoin
<1>. HIDE DEF b
<1>4. b[1] = ListHead(l)  BY <1>2, <1>3
<1>5. \A i \in 1..Len(u) : b[1 + i] = u[i]  BY <1>2, <1>3
<1>6. b = Block(l, u)  BY DEF b, h, Block
<1>. QED  BY <1>2, <1>3, <1>4, <1>5, <1>6

LEMMA TextOfIs ==
  ASSUME NEW l \in ListNames, NEW m \in ListNames, l # m, NEW u, NEW v, Headless(u), Headless(v)
  PROVE  /\ ListAt(TextOf(l, u, m, v), l, 1, u)
         /\ ListAt(TextOf(l, u, m, v), m, Len(u) + 2, v)
         /\ TextOf(l, u, m, v) \in Texts
<1>. DEFINE b == Block(l, u)
            c == Block(m, v)
            w == TextOf(l, u, m, v)
<1>1. /\ u \in Texts /\ \A i \in 1..Len(u) : u[i].what # "head"
      /\ v \in Texts /\ \A i \in 1..Len(v) : v[i].what # "head"
  BY DEF Headless
<1>2. /\ b \in Texts /\ Len(b) = 1 + Len(u) /\ b[1] = ListHead(l)
      /\ \A i \in 1..Len(u) : b[1 + i] = u[i]
  BY <1>1, BlockIs
<1>3. /\ c \in Texts /\ Len(c) = 1 + Len(v) /\ c[1] = ListHead(m)
      /\ \A i \in 1..Len(v) : c[1 + i] = v[i]
  BY <1>1, BlockIs
<1>4. w = b \o c  BY DEF TextOf
<1>. HIDE DEF b, c, w
<1>5. /\ w \in Texts /\ Len(w) = Len(b) + Len(c)
      /\ (\A i \in 1..Len(b) : w[i] = b[i]) /\ \A i \in 1..Len(c) : w[Len(b) + i] = c[i]
  BY <1>2, <1>3, <1>4, TextsJoin
<1>6. Len(u) \in Nat /\ Len(v) \in Nat  BY <1>1, TextIs
<1>7. Len(w) = Len(u) + Len(v) + 2  BY <1>2, <1>3, <1>5, <1>6
<1>8. w[1] = ListHead(l) /\ \A i \in 1..Len(u) : w[1 + i] = u[i]
  <2>1. 1 \in 1..Len(b) /\ \A i \in 1..Len(u) : 1 + i \in 1..Len(b)  BY <1>2, <1>6
  <2>. QED  BY <1>2, <1>5, <2>1
<1>9. w[Len(u) + 2] = ListHead(m) /\ \A i \in 1..Len(v) : w[Len(u) + 2 + i] = v[i]
  <2>1. 1 \in 1..Len(c) /\ Len(b) + 1 = Len(u) + 2  BY <1>2, <1>3, <1>6
  <2>2. w[Len(u) + 2] = ListHead(m)  BY <1>3, <1>5, <2>1
  <2>3. ASSUME NEW i \in 1..Len(v)
        PROVE  w[Len(u) + 2 + i] = v[i]
    <3>. DEFINE n == 1 + i
    <3>1. n \in 1..Len(c) /\ Len(b) + n = Len(u) + 2 + i /\ n = 1 + i  BY <1>2, <1>3, <1>6
    <3>. HIDE DEF n
    <3>2. w[Len(b) + n] = c[n] /\ c[n] = v[i]  BY <1>3, <1>5, <3>1
    <3>. QED  BY <3>1, <3>2
  <2>. QED  BY <2>2, <2>3
<1>10. ListAt(w, l, 1, u)
  <2>1. 1 \in 1..Len(w) /\ 1 + Len(u) <= Len(w) /\ 1 + Len(u) + 1 = Len(u) + 2  BY <1>6, <1>7
  <2>2. \A i \in 1..(1 - 1) : w[i] # ListHead(l)  OBVIOUS
  <2>3. w[1 + Len(u) + 1].what = "head"  BY <1>9, <2>1, LinesAre
  <2>. QED  BY <1>1, <1>5, <1>8, <2>1, <2>2, <2>3 DEF ListAt
<1>11. ListAt(w, m, Len(u) + 2, v)
  <2>1. Len(u) + 2 \in 1..Len(w) /\ Len(u) + 2 + Len(v) <= Len(w) /\ ~(Len(u) + 2 + Len(v) < Len(w))  BY <1>6, <1>7
  <2>2. ListHead(l) # ListHead(m)  BY LinesDiffer DEF ListNames
  <2>3. \A i \in 1..(Len(u) + 2 - 1) : w[i] # ListHead(m)
    <3>1. TAKE i \in 1..(Len(u) + 2 - 1)
    <3>2. CASE i = 1  BY <1>8, <2>2, <3>2
    <3>3. CASE i # 1
      <4>. DEFINE n == i - 1
      <4>1. n \in 1..Len(u) /\ i = 1 + n  BY <1>6, <3>3
      <4>. HIDE DEF n
      <4>2. w[i] = u[n] /\ u[n].what # "head"  BY <1>1, <1>8, <4>1
      <4>. QED  BY <4>2, LinesAre
    <3>. QED  BY <3>2, <3>3
  <2>. QED  BY <1>1, <1>5, <1>9, <2>1, <2>3 DEF ListAt
<1>. QED  BY <1>5, <1>10, <1>11 DEF w

\* The lines before and after a joint.
LEMMA JointParts ==
  ASSUME NEW s \in Texts, NEW r \in Texts
  PROVE  Part(s \o r, 1, Len(s)) = s /\ Part(s \o r, Len(s) + 1, Len(s \o r)) = r
<1>. DEFINE w == s \o r
<1>1. /\ w \in Texts /\ Len(w) = Len(s) + Len(r)
      /\ (\A i \in 1..Len(s) : w[i] = s[i]) /\ \A i \in 1..Len(r) : w[Len(s) + i] = r[i]
  BY TextsJoin
<1>2. Len(s) \in Nat /\ Len(r) \in Nat  BY TextIs
<1>. HIDE DEF w
<1>. DEFINE x == Part(w, 1, Len(s))
            n == Len(s) + 1
            y == Part(w, n, Len(w))
<1>3. x = s
  <2>1. 1 \in 1..(Len(w) + 1) /\ Len(s) \in (1 - 1)..Len(w)  BY <1>1, <1>2
  <2>2. x \in Texts /\ Len(x) = Len(s) - 1 + 1 /\ \A j \in 1..(Len(s) - 1 + 1) : x[j] = w[1 + j - 1]
    BY <1>1, <2>1, PartIs
  <2>. HIDE DEF x
  <2>3. Len(x) = Len(s) /\ \A j \in 1..Len(x) : x[j] = s[j]
    <3>1. Len(x) = Len(s)  BY <1>2, <2>2
    <3>2. \A j \in 1..Len(x) : 1 + j - 1 = j /\ j \in 1..Len(s) /\ j \in 1..(Len(s) - 1 + 1)  BY <1>2, <3>1
    <3>. QED  BY <1>1, <2>2, <3>1, <3>2
  <2>. QED  BY <2>2, <2>3, TextSame
<1>4. y = r
  <2>1. n \in 1..(Len(w) + 1) /\ Len(w) \in (n - 1)..Len(w) /\ Len(w) - n + 1 = Len(r) /\ n = Len(s) + 1  BY <1>1, <1>2
  <2>. HIDE DEF n
  <2>2. y \in Texts /\ Len(y) = Len(w) - n + 1 /\ \A j \in 1..(Len(w) - n + 1) : y[j] = w[n + j - 1]
    BY <1>1, <2>1, PartIs
  <2>. HIDE DEF y
  <2>3. Len(y) = Len(r) /\ \A j \in 1..Len(y) : y[j] = r[j]
    <3>1. Len(y) = Len(r)  BY <2>1, <2>2
    <3>2. \A j \in 1..Len(r) : n + j - 1 = Len(s) + j  BY <1>2, <2>1
    <3>3. \A j \in 1..Len(r) : y[j] = w[Len(s) + j]  BY <2>1, <2>2, <3>2
    <3>. QED  BY <1>1, <3>1, <3>3
  <2>. QED  BY <2>2, <2>3, TextSame
<1>. QED  BY <1>3, <1>4 DEF w

IsSpliced(s, r, lines) == SplicedAt(s \o r, Len(s), lines) = (s \o lines) \o r
LEMMA SplicedAtJoint ==
  ASSUME NEW s \in Texts, NEW r \in Texts, NEW lines
  PROVE  IsSpliced(s, r, lines)
BY JointParts, Zenon DEF SplicedAt, Part, IsSpliced

LengthsAdd(x, y) == Len(x \o y) = Len(x) + Len(y)
LEMMA JoinedIs ==
  ASSUME NEW x \in Texts, NEW y \in Texts
  PROVE  x \o y \in Texts /\ LengthsAdd(x, y)
BY TextsJoin DEF LengthsAdd

FirstJoined(h, x, n, y, c) == ((h \o x) \o n) \o (y \o c) = (h \o ((x \o n) \o y)) \o c
SecondJoined(b, h, x, n, y) == ((b \o (h \o x)) \o n) \o y = b \o (h \o ((x \o n) \o y))

LEMMA FirstJoint ==
  ASSUME NEW h \in Texts, NEW x \in Texts, NEW n \in Texts, NEW y \in Texts, NEW c \in Texts
  PROVE  FirstJoined(h, x, n, y, c)
<1>. DEFINE hx == h \o x
            xn == x \o n
            hxn == hx \o n
<1>1. hx \in Texts /\ xn \in Texts  BY JoinedIs
<1>2. hxn \in Texts  BY <1>1, JoinedIs
<1>3. Again(h, x, n)  BY TextsJoinedAgain
<1>4. hxn = h \o xn  BY <1>3 DEF Again
<1>. HIDE DEF hx, xn, hxn
<1>5. Again(hxn, y, c) /\ Again(h, xn, y)  BY <1>1, <1>2, TextsJoinedAgain
<1>6. hxn \o (y \o c) = (hxn \o y) \o c  BY <1>5, Zenon DEF Again
<1>7. hxn \o y = h \o (xn \o y)  BY <1>4, <1>5, Zenon DEF Again
<1>8. hxn \o (y \o c) = (h \o (xn \o y)) \o c  BY <1>6, <1>7, Zenon
<1>. QED  BY <1>8, Zenon DEF hxn, hx, xn, FirstJoined

LEMMA SecondJoint ==
  ASSUME NEW b \in Texts, NEW h \in Texts, NEW x \in Texts, NEW n \in Texts, NEW y \in Texts
  PROVE  SecondJoined(b, h, x, n, y)
<1>. DEFINE hx == h \o x
            xn == x \o n
            xny == xn \o y
<1>1. hx \in Texts /\ xn \in Texts  BY JoinedIs
<1>2. Again(h, x, n)  BY TextsJoinedAgain
<1>3. hx \o n = h \o xn  BY <1>2 DEF Again
<1>4. xny \in Texts  BY <1>1, JoinedIs
<1>. HIDE DEF hx, xn
<1>. DEFINE hxn == h \o xn
<1>5. hxn \in Texts  BY <1>1, JoinedIs
<1>6. Again(b, hx, n) /\ Again(h, xn, y)  BY <1>1, TextsJoinedAgain
<1>7. (b \o hx) \o n = b \o hxn  BY <1>3, <1>6, Zenon DEF Again
<1>8. hxn \o y = h \o xny  BY <1>6, Zenon DEF Again
<1>. HIDE DEF hxn, xny
<1>9. Again(b, hxn, y)  BY <1>5, TextsJoinedAgain
<1>10. (b \o hxn) \o y = b \o (hxn \o y)  BY <1>9, Zenon DEF Again
<1>11. ((b \o hx) \o n) \o y = b \o (h \o xny)  BY <1>7, <1>8, <1>10, Zenon
<1>. QED  BY <1>11, Zenon DEF hx, xn, xny, SecondJoined

LEMMA SplitAt ==
  ASSUME NEW u \in Texts, NEW k \in 0..Len(u)
  PROVE  /\ Part(u, 1, k) \in Texts /\ Len(Part(u, 1, k)) = k
         /\ \A i \in 1..k : Part(u, 1, k)[i] = u[i]
         /\ Part(u, k + 1, Len(u)) \in Texts /\ Len(Part(u, k + 1, Len(u))) = Len(u) - k
         /\ \A i \in 1..(Len(u) - k) : Part(u, k + 1, Len(u))[i] = u[k + i]
         /\ u = Part(u, 1, k) \o Part(u, k + 1, Len(u))
<1>1. Len(u) \in Nat /\ k \in Nat /\ k <= Len(u)
  <2>1. Len(u) \in Nat  BY TextIs
  <2>. QED  BY <2>1
<1>. DEFINE x == Part(u, 1, k)
            n == k + 1
            y == Part(u, n, Len(u))
<1>2. x \in Texts /\ Len(x) = k - 1 + 1 /\ \A j \in 1..(k - 1 + 1) : x[j] = u[1 + j - 1]
  <2>1. 1 \in 1..(Len(u) + 1) /\ k \in (1 - 1)..Len(u)  BY <1>1
  <2>. QED  BY <2>1, PartIs
<1>3. Len(x) = k /\ \A i \in 1..k : x[i] = u[i]
  <2>1. k - 1 + 1 = k /\ \A i \in 1..k : 1 + i - 1 = i  BY <1>1
  <2>. HIDE DEF x
  <2>. QED  BY <1>2, <2>1
<1>4. n \in 1..(Len(u) + 1) /\ Len(u) \in (n - 1)..Len(u) /\ Len(u) - n + 1 = Len(u) - k /\ n = k + 1  BY <1>1
<1>. HIDE DEF n
<1>5. y \in Texts /\ Len(y) = Len(u) - n + 1 /\ \A j \in 1..(Len(u) - n + 1) : y[j] = u[n + j - 1]  BY <1>4, PartIs
<1>6. \A i \in 1..(Len(u) - k) : y[i] = u[k + i]
  <2>1. \A i \in 1..(Len(u) - k) : n + i - 1 = k + i  BY <1>1, <1>4
  <2>. HIDE DEF y
  <2>. QED  BY <1>4, <1>5, <2>1
<1>7. x \o y = u
  <2>1. 1 \in 1..(Len(u) + 1) /\ k \in (1 - 1)..Len(u) /\ Len(u) \in k..Len(u)  BY <1>1
  <2>2. Part(u, 1, k) \o Part(u, k + 1, Len(u)) = Part(u, 1, Len(u))  BY <2>1, PartsJoin
  <2>3. Part(u, 1, Len(u)) = u  BY WholePart
  <2>. QED  BY <2>2, <2>3 DEF n
<1>8. Len(y) = Len(u) - k  BY <1>4, <1>5
<1>. HIDE DEF x, y
<1>9. u = x \o y  BY <1>7
<1>. QED  BY <1>2, <1>3, <1>5, <1>6, <1>8, <1>9 DEF x, y, n

\* An insertion into the first list of a text, and one into the second.
LEMMA SplicedFirst ==
  ASSUME NEW l \in ListNames, NEW m \in ListNames, NEW u \in Texts, NEW v \in Texts,
         NEW k \in 0..Len(u), NEW n \in Texts
  PROVE  SplicedAt(TextOf(l, u, m, v), 1 + k, n) = TextOf(l, Grown(u, k, n), m, v)
<1>. DEFINE h == <<ListHead(l)>>
            x == Part(u, 1, k)
            y == Part(u, k + 1, Len(u))
            c == Block(m, v)
            none == <<>>
<1>1. h \in Texts /\ Len(h) = 1
  <2>1. ListHead(l) \in TextLines  BY LinesAre
  <2>. QED  BY <2>1, OneLineIs
<1>2. x \in Texts /\ y \in Texts /\ u = x \o y /\ Len(x) = k  BY SplitAt
<1>3. c \in Texts  BY BlockIs
<1>4. none \in Texts  BY DEF Texts
<1>5. TextOf(l, u, m, v) = (h \o u) \o c /\ TextOf(l, Grown(u, k, n), m, v) = (h \o ((x \o n) \o y)) \o c
  BY DEF TextOf, Grown, Block
<1>. HIDE DEF h, x, y, c, none
<1>6. ((h \o x) \o none) \o (y \o c) = (h \o ((x \o none) \o y)) \o c
  <2>1. FirstJoined(h, x, none, y, c)  BY <1>1, <1>2, <1>3, <1>4, FirstJoint
  <2>. QED  BY <2>1, Zenon DEF FirstJoined
<1>7. h \o x \in Texts /\ y \o c \in Texts  BY <1>1, <1>2, <1>3, JoinedIs
<1>8. x \o none = x /\ (h \o x) \o none = h \o x
  <2>1. \A z \in Texts : z \o none = z  BY TextsAre DEF none
  <2>. QED  BY <1>2, <1>7, <2>1
<1>9. (h \o x) \o (y \o c) = (h \o u) \o c  BY <1>2, <1>6, <1>8, Zenon
<1>10. Len(h \o x) = 1 + k
  <2>1. LengthsAdd(h, x)  BY <1>1, <1>2, JoinedIs
  <2>. QED  BY <1>1, <1>2, <2>1, Zenon DEF LengthsAdd
<1>. DEFINE s == h \o x
            r == y \o c
<1>11. s \o r = (h \o u) \o c /\ Len(s) = 1 + k /\ s \in Texts /\ r \in Texts  BY <1>7, <1>9, <1>10
<1>12. ((h \o x) \o n) \o (y \o c) = (h \o ((x \o n) \o y)) \o c
  <2>1. FirstJoined(h, x, n, y, c)  BY <1>1, <1>2, <1>3, FirstJoint
  <2>. QED  BY <2>1, Zenon DEF FirstJoined
<1>13. (s \o n) \o r = (h \o ((x \o n) \o y)) \o c  BY <1>12
<1>. HIDE DEF s, r
<1>14. SplicedAt(s \o r, Len(s), n) = (s \o n) \o r
  <2>1. IsSpliced(s, r, n)  BY <1>11, SplicedAtJoint
  <2>. QED  BY <2>1, Zenon DEF IsSpliced
<1>. QED  BY <1>5, <1>11, <1>13, <1>14, Zenon

LEMMA SplicedSecond ==
  ASSUME NEW l \in ListNames, NEW m \in ListNames, NEW u \in Texts, NEW v \in Texts,
         NEW k \in 0..Len(v), NEW n \in Texts
  PROVE  SplicedAt(TextOf(l, u, m, v), (Len(u) + 2) + k, n) = TextOf(l, u, m, Grown(v, k, n))
<1>. DEFINE b == Block(l, u)
            h == <<ListHead(m)>>
            x == Part(v, 1, k)
            y == Part(v, k + 1, Len(v))
            none == <<>>
<1>1. h \in Texts /\ Len(h) = 1
  <2>1. ListHead(m) \in TextLines  BY LinesAre
  <2>. QED  BY <2>1, OneLineIs
<1>2. x \in Texts /\ y \in Texts /\ v = x \o y /\ Len(x) = k  BY SplitAt
<1>3. b \in Texts /\ Len(b) = 1 + Len(u)  BY BlockIs
<1>4. none \in Texts /\ Len(u) \in Nat /\ k \in Nat
  <2>1. Len(u) \in Nat /\ Len(v) \in Nat  BY TextIs
  <2>2. <<>> \in Texts  BY DEF Texts
  <2>. QED  BY <2>1, <2>2
<1>5. TextOf(l, u, m, v) = b \o (h \o v) /\ TextOf(l, u, m, Grown(v, k, n)) = b \o (h \o ((x \o n) \o y))
  BY DEF TextOf, Grown, Block
<1>. HIDE DEF h, x, y, b, none
<1>6. ((b \o (h \o x)) \o none) \o y = b \o (h \o ((x \o none) \o y))
  <2>1. SecondJoined(b, h, x, none, y)  BY <1>1, <1>2, <1>3, <1>4, SecondJoint
  <2>. QED  BY <2>1, Zenon DEF SecondJoined
<1>7. h \o x \in Texts  BY <1>1, <1>2, JoinedIs
<1>8. b \o (h \o x) \in Texts  BY <1>3, <1>7, JoinedIs
<1>9. x \o none = x /\ (b \o (h \o x)) \o none = b \o (h \o x)
  <2>1. \A z \in Texts : z \o none = z  BY TextsAre DEF none
  <2>. QED  BY <1>2, <1>8, <2>1
<1>10. (b \o (h \o x)) \o y = b \o (h \o v)  BY <1>2, <1>6, <1>9, Zenon
<1>11. Len(b \o (h \o x)) = (Len(u) + 2) + k
  <2>0. LengthsAdd(h, x) /\ LengthsAdd(b, h \o x)  BY <1>1, <1>2, <1>3, <1>7, JoinedIs
  <2>1. Len(h \o x) = 1 + k  BY <1>1, <1>2, <2>0, Zenon DEF LengthsAdd
  <2>2. Len(b \o (h \o x)) = Len(b) + Len(h \o x)  BY <2>0, Zenon DEF LengthsAdd
  <2>3. \A i, j \in Nat : (1 + i) + (1 + j) = (i + 2) + j  OBVIOUS
  <2>. QED  BY <1>3, <1>4, <2>1, <2>2, <2>3, Zenon
<1>. DEFINE s == b \o (h \o x)
<1>12. s \o y = b \o (h \o v) /\ Len(s) = (Len(u) + 2) + k /\ s \in Texts  BY <1>8, <1>10, <1>11
<1>13. ((b \o (h \o x)) \o n) \o y = b \o (h \o ((x \o n) \o y))
  <2>1. SecondJoined(b, h, x, n, y)  BY <1>1, <1>2, <1>3, SecondJoint
  <2>. QED  BY <2>1, Zenon DEF SecondJoined
<1>14. (s \o n) \o y = b \o (h \o ((x \o n) \o y))  BY <1>13
<1>. HIDE DEF s
<1>15. SplicedAt(s \o y, Len(s), n) = (s \o n) \o y
  <2>1. IsSpliced(s, y, n)  BY <1>2, <1>12, SplicedAtJoint
  <2>. QED  BY <2>1, Zenon DEF IsSpliced
<1>. QED  BY <1>5, <1>12, <1>14, <1>15, Zenon

-----------------------------------------------------------------------------
(* What is selected of some lines.                                         *)

Remarkable == {"head", "comment", "blank"}

LEMMA OfKindsNone ==
  ASSUME NEW b \in Texts, NEW K, \A i \in 1..Len(b) : b[i].what \notin K
  PROVE  OfKinds(b, K) = <<>>
<1>1. PICK f : Selects(b, K, f) /\ OfKinds(b, K) = f[Len(b)]  BY OfKindsIs
<1>2. Len(b) \in Nat  BY TextIs
<1>. DEFINE N == Len(b)
            G == {i \in 0..N : f[i] = <<>>}
<1>3. 0 \in G  BY <1>1, <1>2 DEF Selects
<1>4. \A i \in 1..N : i - 1 \in G => i \in G
  <2>1. TAKE i \in 1..N
  <2>2. HAVE i - 1 \in G
  <2>3. f[i] = f[i - 1] \o Chosen(b[i], K)  BY <1>1 DEF Selects
  <2>4. Chosen(b[i], K) = <<>>  BY DEF Chosen
  <2>5. <<>> \in Texts  BY DEF Texts
  <2>6. <<>> \o <<>> = <<>>  BY <2>5, TextsAre
  <2>7. f[i] = <<>>  BY <2>2, <2>3, <2>4, <2>6
  <2>. QED  BY <1>2, <2>7
<1>. HIDE DEF G
<1>5. \A i \in 0..N : i \in G  BY <1>2, <1>3, <1>4, UpTo
<1>6. N \in G  BY <1>2, <1>5
<1>. QED  BY <1>1, <1>6 DEF G

LEMMA LineAdded ==
  ASSUME NEW t \in Texts, NEW x \in TextLines
  PROVE  /\ t \o <<x>> \in Texts /\ Len(t \o <<x>>) = Len(t) + 1
         /\ \A i \in 1..Len(t) : (t \o <<x>>)[i] = t[i]
         /\ (t \o <<x>>)[Len(t) + 1] = x
BY DEF Texts

LEMMA OfKindsAll ==
  ASSUME NEW b \in Texts, NEW K, \A i \in 1..Len(b) : b[i].what \in K
  PROVE  OfKinds(b, K) = b
<1>1. PICK f : Selects(b, K, f) /\ OfKinds(b, K) = f[Len(b)]  BY OfKindsIs
<1>2. Len(b) \in Nat /\ \A i \in 1..Len(b) : b[i] \in TextLines  BY TextIs
<1>. DEFINE N == Len(b)
            Same(n) == f[n] \in Texts /\ Len(f[n]) = n /\ \A i \in 1..n : f[n][i] = b[i]
            G == {n \in 0..N : Same(n)}
<1>3. 0 \in G
  <2>1. f[0] = <<>> /\ <<>> \in Texts /\ Len(<<>>) = 0  BY <1>1 DEF Selects, Texts
  <2>2. 0 \in 0..N  BY <1>2
  <2>3. \A i \in 1..0 : f[0][i] = b[i]  OBVIOUS
  <2>. QED  BY <2>1, <2>2, <2>3
<1>4. \A n \in 1..N : n - 1 \in G => n \in G
  <2>1. TAKE n \in 1..N
  <2>2. HAVE n - 1 \in G
  <2>. DEFINE g == f[n - 1]
              h == f[n]
              m == n - 1
  <2>3. h = g \o <<b[n]>>  BY <1>1 DEF Selects, Chosen
  <2>4. m \in Nat /\ m + 1 = n /\ n \in 0..N /\ b[n] \in TextLines  BY <1>2
  <2>5. g \in Texts /\ Len(g) = m /\ \A i \in 1..m : g[i] = b[i]  BY <2>2
  <2>. HIDE DEF g, m
  <2>6. h \in Texts /\ Len(h) = m + 1 /\ (\A i \in 1..m : h[i] = g[i]) /\ h[m + 1] = b[n]
    <3>. DEFINE k == g \o <<b[n]>>
    <3>1. k \in Texts /\ Len(k) = Len(g) + 1 /\ (\A i \in 1..Len(g) : k[i] = g[i]) /\ k[Len(g) + 1] = b[n]
      BY <2>4, <2>5, LineAdded
    <3>. HIDE DEF k
    <3>2. h = k  BY <2>3 DEF k
    <3>. HIDE DEF h
    <3>. QED  BY <2>5, <3>1, <3>2
  <2>. HIDE DEF h
  <2>7. \A i \in 1..n : h[i] = b[i]
    <3>1. \A i \in 1..n : i = n \/ i \in 1..m  BY <2>4
    <3>. QED  BY <2>4, <2>5, <2>6, <3>1
  <2>8. Same(n)  BY <2>4, <2>6, <2>7 DEF h
  <2>. QED  BY <2>4, <2>8
<1>. HIDE DEF G, Same
<1>5. \A i \in 0..N : i \in G  BY <1>2, <1>3, <1>4, UpTo
<1>6. N \in G  BY <1>2, <1>5
<1>7. f[N] \in Texts /\ Len(f[N]) = N /\ \A i \in 1..N : f[N][i] = b[i]  BY <1>6 DEF G, Same
<1>8. f[N] = b  BY <1>7, TextSame
<1>. QED  BY <1>1, <1>8

\* The first line of an item is its dash.
LEMMA OfKindsFirst ==
  ASSUME NEW u, OneItem(u)
  PROVE  OfKinds(u, Contents)[1] = u[1]
<1>1. u \in Texts /\ 1 \in 1..Len(u) /\ u[1].what = "dash" /\ Len(u) \in Nat
  <2>1. u \in Texts /\ 1 <= Len(u) /\ u[1].what = "dash"  BY DEF OneItem
  <2>2. Len(u) \in Nat  BY <2>1, TextIs
  <2>. QED  BY <2>1, <2>2
<1>2. PICK f : Selects(u, Contents, f) /\ OfKinds(u, Contents) = f[Len(u)]  BY <1>1, OfKindsIs
<1>3. \A i \in 1..Len(u) : f[i] = f[i - 1] \o Chosen(u[i], Contents) /\ f[i - 1] \in Texts /\ u[i] \in TextLines
  <2>1. \A i \in 1..Len(u) : i - 1 \in 0..Len(u)  BY <1>1
  <2>. QED  BY <1>1, <1>2, <2>1, TextIs DEF Selects
<1>. DEFINE N == Len(u)
            Starts(t) == 1 <= Len(t) /\ t[1] = u[1]
            G == {i \in 0..N : i # 0 => Starts(f[i])}
<1>4. 0 \in G  BY <1>1
<1>5. \A i \in 1..N : i - 1 \in G => i \in G
  <2>1. TAKE i \in 1..N
  <2>2. HAVE i - 1 \in G
  <2>3. CASE i = 1
    <3>1. f[0] = <<>> /\ Chosen(u[1], Contents) = <<u[1]>>  BY <1>1, <1>2 DEF Selects, Chosen, Contents
    <3>2. u[1] \in TextLines  BY <1>1, <1>3
    <3>3. <<u[1]>> \in Texts /\ Len(<<u[1]>>) = 1 /\ <<u[1]>>[1] = u[1]  BY <3>2, OneLineIs
    <3>4. <<>> \o <<u[1]>> = <<u[1]>>  BY <3>3, TextsAre
    <3>5. f[1] = <<u[1]>>
      <4>1. f[i] = f[i - 1] \o Chosen(u[i], Contents)  BY <1>3
      <4>2. i - 1 = 0  BY <2>3
      <4>. QED  BY <2>3, <3>1, <3>4, <4>1, <4>2, Zenon
    <3>6. Starts(f[1])  BY <3>3, <3>5
    <3>. QED  BY <1>1, <2>3, <3>6
  <2>4. CASE i # 1
    <3>. DEFINE g == f[i - 1]
                c == Chosen(u[i], Contents)
    <3>1. i - 1 # 0 /\ i \in 0..N  BY <1>1, <2>4
    <3>2. Starts(g)  BY <2>2, <3>1
    <3>3. g \in Texts /\ c \in Texts /\ f[i] = g \o c  BY <1>3, ChosenIs
    <3>. HIDE DEF g, c
    <3>4. Len(g) \in Nat /\ Len(c) \in Nat  BY <3>3, TextIs
    <3>5. LengthsAdd(g, c) /\ \A j \in 1..Len(g) : (g \o c)[j] = g[j]  BY <3>3, JoinedIs, TextsJoin
    <3>. DEFINE k == g \o c
    <3>6. Len(k) = Len(g) + Len(c) /\ \A j \in 1..Len(g) : k[j] = g[j]  BY <3>5 DEF LengthsAdd
    <3>7. f[i] = k  BY <3>3
    <3>. HIDE DEF k
    <3>8. 1 \in 1..Len(g) /\ 1 <= Len(k)  BY <3>2, <3>4, <3>6
    <3>9. Starts(k)  BY <3>2, <3>6, <3>8
    <3>. QED  BY <3>1, <3>7, <3>9
  <2>. QED  BY <2>3, <2>4
<1>. HIDE DEF G
<1>6. \A i \in 0..N : i \in G  BY <1>1, <1>4, <1>5, UpTo
<1>7. N \in G /\ N # 0  BY <1>1, <1>6
<1>. QED  BY <1>2, <1>7 DEF G

-----------------------------------------------------------------------------
(* The new items.                                                          *)

IsNewItem(n, l) ==
  /\ OneItem(n) /\ (\A i \in 1..Len(n) : n[i].what \in Contents)
  /\ n[1] \in {Dash("t2"), Dash("r2")} /\ n[1] # FirstDash(l)
  /\ WellFormed(n) /\ (l = "tasks" => Check("c1") \in Range(n))

LEMMA LinesInARow ==
  ASSUME NEW a \in TextLines, NEW b \in TextLines, NEW c \in TextLines
  PROVE  (<<a>> \o <<b>>) \o <<c>> = <<a, b, c>> /\ (<<a>> \o <<>>) \o <<c>> = <<a, c>>
<1>1. \A x \in TextLines, y \in TextLines : <<x>> \o <<y>> = <<x, y>>
  <2>1. TAKE x \in TextLines, y \in TextLines
  <2>. DEFINE t == <<x>> \o <<y>>
              u == <<x, y>>
  <2>2. <<x>> \in Texts /\ Len(<<x>>) = 1 /\ <<x>>[1] = x  BY OneLineIs
  <2>3. u \in Texts /\ Len(u) = 2 /\ u[1] = x /\ u[2] = y  BY DEF Texts
  <2>4. t \in Texts /\ Len(t) = 2 /\ t[1] = x /\ t[2] = y
    <3>. DEFINE s == <<x>>
    <3>1. s \in Texts /\ Len(s) = 1 /\ s[1] = x  BY <2>2
    <3>. HIDE DEF s
    <3>2. /\ s \o <<y>> \in Texts /\ Len(s \o <<y>>) = Len(s) + 1
          /\ (\A i \in 1..Len(s) : (s \o <<y>>)[i] = s[i]) /\ (s \o <<y>>)[Len(s) + 1] = y
      BY <3>1, LineAdded
    <3>3. s \o <<y>> \in Texts /\ Len(s \o <<y>>) = 2 /\ (s \o <<y>>)[1] = x /\ (s \o <<y>>)[2] = y
      BY <3>1, <3>2
    <3>. QED  BY <3>3 DEF s
  <2>. HIDE DEF t, u
  <2>5. \A i \in 1..2 : t[i] = u[i]
    <3>1. \A i \in 1..2 : i = 1 \/ i = 2  OBVIOUS
    <3>. QED  BY <2>3, <2>4, <3>1
  <2>6. t = u  BY <2>3, <2>4, <2>5, TextSame
  <2>. QED  BY <2>6 DEF t, u
<1>2. <<a, b>> \o <<c>> = <<a, b, c>>
  <2>. DEFINE s == <<a, b>>
              t == s \o <<c>>
              u == <<a, b, c>>
  <2>1. s \in Texts /\ Len(s) = 2 /\ s[1] = a /\ s[2] = b  BY DEF Texts
  <2>2. u \in Texts /\ Len(u) = 3 /\ u[1] = a /\ u[2] = b /\ u[3] = c  BY DEF Texts
  <2>. HIDE DEF s, u
  <2>3. t \in Texts /\ Len(t) = Len(s) + 1 /\ (\A i \in 1..Len(s) : t[i] = s[i]) /\ t[Len(s) + 1] = c
    BY <2>1, LineAdded
  <2>. HIDE DEF t
  <2>4. Len(t) = 3 /\ t[1] = a /\ t[2] = b /\ t[3] = c  BY <2>1, <2>3
  <2>5. \A i \in 1..3 : t[i] = u[i]
    <3>1. \A i \in 1..3 : i = 1 \/ i = 2 \/ i = 3  OBVIOUS
    <3>. QED  BY <2>2, <2>4, <3>1
  <2>6. t = u  BY <2>2, <2>3, <2>4, <2>5, TextSame
  <2>. QED  BY <2>6 DEF t, u, s
<1>3. <<a>> \o <<>> = <<a>>
  <2>1. <<a>> \in Texts  BY OneLineIs
  <2>. QED  BY <2>1, TextsAre
<1>4. <<a>> \o <<b>> = <<a, b>> /\ <<a>> \o <<c>> = <<a, c>>  BY <1>1
<1>. QED  BY <1>2, <1>3, <1>4, Zenon

LEMMA NewItemForms ==
  /\ NewItem("repositories") = <<Dash("r2")>>
  /\ NewItem("tasks") \in {<<Dash("t2"), Check("c1")>>, <<Dash("t2"), SourceKey, Check("c1")>>}
<1>0. Dash("t2") \in TextLines /\ SourceKey \in TextLines /\ Check("c1") \in TextLines
  <2>1. "t2" \in Identifiers  BY DEF Identifiers
  <2>. QED  BY <2>1, LinesAre
<1>1. NewItem("repositories") = <<Dash("r2")>>  BY DEF NewItem
<1>2. addition.source => NewItem("tasks") = <<Dash("t2"), SourceKey, Check("c1")>>
  BY <1>0, LinesInARow, Zenon DEF NewItem
<1>3. ~addition.source => NewItem("tasks") = <<Dash("t2"), Check("c1")>>
  BY <1>0, LinesInARow, Zenon DEF NewItem
<1>. QED  BY <1>1, <1>2, <1>3

LEMMA NewRepository ==
  IsNewItem(<<Dash("r2")>>, "repositories")
<1>. DEFINE n == <<Dash("r2")>>
<1>1. Dash("r2") \in TextLines /\ Dash("r2").what = "dash" /\ Dash("r2") # Check("c2") /\ Dash("r2") # Dash("r1")
  BY LinesAre DEF Identifiers, Dash, Check, TextLine
<1>2. n \in Texts /\ Len(n) = 1 /\ n[1] = Dash("r2")  BY <1>1, OneLineIs
<1>3. DOMAIN n = 1..1  BY <1>2, TextIs
<1>. HIDE DEF n
<1>4. \A i \in 1..1 : i = 1  OBVIOUS
<1>5. OneItem(n)  BY <1>1, <1>2 DEF OneItem
<1>6. WellFormed(n)  BY <1>1, <1>2, <1>3, <1>4 DEF WellFormed, IsInjective
<1>7. \A i \in 1..Len(n) : n[i].what \in Contents  BY <1>1, <1>2, <1>4 DEF Contents
<1>. QED  BY <1>1, <1>2, <1>5, <1>6, <1>7 DEF IsNewItem, FirstDash, n

LEMMA NewTask ==
  IsNewItem(<<Dash("t2"), Check("c1")>>, "tasks")
<1>. DEFINE n == <<Dash("t2"), Check("c1")>>
<1>1. /\ Dash("t2") \in TextLines /\ Dash("t2").what = "dash" /\ Check("c1") \in TextLines /\ Check("c1").what = "check"
      /\ Dash("t2") # Dash("t1")
      /\ Dash("t2") # Check("c1") /\ Check("c1") # Check("c2") /\ Dash("t2") # Check("c2")
  <2>1. "t2" \in Identifiers  BY DEF Identifiers
  <2>2. Check("c1") \in TextLines /\ Dash("t2") \in TextLines  BY <2>1, LinesAre
  <2>. QED  BY <2>2, LinesAre, LinesDiffer
<1>2. n \in Texts /\ Len(n) = 2 /\ n[1] = Dash("t2") /\ n[2] = Check("c1")  BY <1>1 DEF Texts
<1>3. DOMAIN n = 1..2  BY <1>2, TextIs
<1>. HIDE DEF n
<1>4. \A i \in 1..2 : i = 1 \/ i = 2  OBVIOUS
<1>5. OneItem(n)
  <2>1. \A i \in 2..Len(n) : i = 2  BY <1>2
  <2>. QED  BY <1>1, <1>2, <2>1 DEF OneItem
<1>6. WellFormed(n)
  <2>1. IsInjective(n)  BY <1>1, <1>2, <1>3, <1>4 DEF IsInjective
  <2>2. \A i \in DOMAIN n : n[i] # Check("c2")  BY <1>1, <1>2, <1>3, <1>4
  <2>. QED  BY <2>1, <2>2 DEF WellFormed
<1>7. \A i \in 1..Len(n) : n[i].what \in Contents  BY <1>1, <1>2, <1>4 DEF Contents
<1>8. Check("c1") \in Range(n)
  <2>1. 2 \in DOMAIN n  BY <1>3
  <2>. QED  BY <1>2, <2>1 DEF Range
<1>. QED  BY <1>1, <1>2, <1>5, <1>6, <1>7, <1>8 DEF IsNewItem, FirstDash, n

LEMMA NewTaskWithSource ==
  IsNewItem(<<Dash("t2"), SourceKey, Check("c1")>>, "tasks")
<1>. DEFINE n == <<Dash("t2"), SourceKey, Check("c1")>>
<1>1. /\ Dash("t2") \in TextLines /\ Dash("t2").what = "dash" /\ Check("c1") \in TextLines /\ Check("c1").what = "check"
      /\ SourceKey \in TextLines /\ SourceKey.what = "key"
      /\ Dash("t2") # Dash("t1")
      /\ Dash("t2") # Check("c1") /\ Check("c1") # Check("c2") /\ Dash("t2") # Check("c2")
      /\ Dash("t2") # SourceKey /\ SourceKey # Check("c1") /\ SourceKey # Check("c2")
  <2>1. "t2" \in Identifiers  BY DEF Identifiers
  <2>2. Check("c1") \in TextLines /\ Dash("t2") \in TextLines /\ SourceKey \in TextLines  BY <2>1, LinesAre
  <2>. QED  BY <2>2, LinesAre, LinesDiffer
<1>2. n \in Texts /\ Len(n) = 3 /\ n[1] = Dash("t2") /\ n[2] = SourceKey /\ n[3] = Check("c1")  BY <1>1 DEF Texts
<1>3. DOMAIN n = 1..3  BY <1>2, TextIs
<1>. HIDE DEF n
<1>4. \A i \in 1..3 : i = 1 \/ i = 2 \/ i = 3  OBVIOUS
<1>5. OneItem(n)
  <2>1. \A i \in 2..Len(n) : i = 2 \/ i = 3  BY <1>2
  <2>. QED  BY <1>1, <1>2, <2>1 DEF OneItem
<1>6. WellFormed(n)
  <2>1. IsInjective(n)  BY <1>1, <1>2, <1>3, <1>4 DEF IsInjective
  <2>2. \A i \in DOMAIN n : n[i] # Check("c2")  BY <1>1, <1>2, <1>3, <1>4
  <2>. QED  BY <2>1, <2>2 DEF WellFormed
<1>7. \A i \in 1..Len(n) : n[i].what \in Contents  BY <1>1, <1>2, <1>4 DEF Contents
<1>8. Check("c1") \in Range(n)
  <2>1. 3 \in DOMAIN n  BY <1>3
  <2>. QED  BY <1>2, <2>1 DEF Range
<1>. QED  BY <1>1, <1>2, <1>5, <1>6, <1>7, <1>8 DEF IsNewItem, FirstDash, n

LEMMA NewItemIs ==
  ASSUME NEW l \in ListNames
  PROVE  IsNewItem(NewItem(l), l)
BY NewItemForms, NewRepository, NewTask, NewTaskWithSource DEF ListNames

-----------------------------------------------------------------------------
(* A list that an item was spliced into.                                   *)

LEMMA NewItemsAre ==
  ASSUME NEW l, NEW n, IsNewItem(n, l)
  PROVE  /\ n \in Texts /\ OneItem(n) /\ Len(n) \in Nat /\ 1 <= Len(n) /\ n[1].what = "dash"
         /\ OfKinds(n, Contents) = n /\ OfKinds(n, Remarkable) = <<>>
         /\ \A i \in 1..Len(n) : n[i].what # "head" /\ (i # 1 => n[i].what # "dash")
<1>1. OneItem(n) /\ \A i \in 1..Len(n) : n[i].what \in Contents  BY DEF IsNewItem
<1>2. n \in Texts /\ 1 <= Len(n) /\ n[1].what = "dash" /\ \A i \in 2..Len(n) : n[i].what # "dash" /\ n[i].what # "head"
  BY <1>1 DEF OneItem
<1>3. Len(n) \in Nat  BY <1>2, TextIs
<1>4. \A i \in 1..Len(n) : i = 1 \/ i \in 2..Len(n)  BY <1>3
<1>5. \A i \in 1..Len(n) : n[i].what # "head" /\ (i # 1 => n[i].what # "dash")  BY <1>2, <1>4
<1>6. OfKinds(n, Contents) = n  BY <1>1, <1>2, OfKindsAll
<1>7. \A i \in 1..Len(n) : n[i].what \notin Remarkable  BY <1>1 DEF Contents, Remarkable
<1>8. OfKinds(n, Remarkable) = <<>>  BY <1>2, <1>7, OfKindsNone
<1>. QED  BY <1>1, <1>2, <1>3, <1>5, <1>6, <1>8

LEMMA ItemsHeadless ==
  ASSUME NEW u, OneItem(u)
  PROVE  Headless(u) /\ u \in Texts /\ Len(u) \in Nat
<1>1. u \in Texts /\ u[1].what = "dash" /\ \A i \in 2..Len(u) : u[i].what # "dash" /\ u[i].what # "head"
  BY DEF OneItem
<1>2. Len(u) \in Nat  BY <1>1, TextIs
<1>3. \A i \in 1..Len(u) : i = 1 \/ i \in 2..Len(u)  BY <1>2
<1>. QED  BY <1>1, <1>2, <1>3 DEF Headless

\* Its lines by their positions.
LEMMA GrownLines ==
  ASSUME NEW u \in Texts, NEW k \in 1..Len(u), NEW n \in Texts
  PROVE  LET v == Grown(u, k, n)
             y == Part(u, k + 1, Len(u))
         IN  /\ v \in Texts /\ Len(v) = k + Len(n) + Len(y)
             /\ \A i \in 1..k : v[i] = u[i]
             /\ \A j \in 1..Len(n) : v[k + j] = n[j]
             /\ \A j \in 1..Len(y) : v[k + Len(n) + j] = u[k + j]
             /\ Len(y) = Len(u) - k /\ y \in Texts
<1>. DEFINE x == Part(u, 1, k)
            y == Part(u, k + 1, Len(u))
            v == Grown(u, k, n)
            xn == x \o n
<1>1. /\ x \in Texts /\ Len(x) = k /\ (\A i \in 1..k : x[i] = u[i])
      /\ y \in Texts /\ Len(y) = Len(u) - k /\ \A i \in 1..(Len(u) - k) : y[i] = u[k + i]
  <2>1. k \in 0..Len(u)  OBVIOUS
  <2>. QED  BY <2>1, SplitAt
<1>2. v = xn \o y  BY DEF Grown
<1>3. Len(u) \in Nat /\ Len(n) \in Nat /\ Len(y) \in Nat /\ k \in Nat
  <2>1. Len(u) \in Nat /\ Len(n) \in Nat /\ Len(y) \in Nat  BY <1>1, TextIs
  <2>. QED  BY <2>1
<1>. HIDE DEF x, y, v
<1>4. /\ xn \in Texts /\ Len(xn) = Len(x) + Len(n)
      /\ (\A i \in 1..Len(x) : xn[i] = x[i]) /\ \A i \in 1..Len(n) : xn[Len(x) + i] = n[i]
  BY <1>1, TextsJoin
<1>. HIDE DEF xn
<1>5. /\ v \in Texts /\ Len(v) = Len(xn) + Len(y)
      /\ (\A i \in 1..Len(xn) : v[i] = xn[i]) /\ \A i \in 1..Len(y) : v[Len(xn) + i] = y[i]
  <2>. DEFINE z == xn \o y
  <2>1. /\ z \in Texts /\ Len(z) = Len(xn) + Len(y)
        /\ (\A i \in 1..Len(xn) : z[i] = xn[i]) /\ \A i \in 1..Len(y) : z[Len(xn) + i] = y[i]
    BY <1>1, <1>4, TextsJoin
  <2>2. v = z  BY <1>2
  <2>. HIDE DEF z
  <2>. QED  BY <2>1, <2>2
<1>6. \A i \in 1..k : v[i] = u[i]
  <2>1. \A i \in 1..k : i \in 1..Len(xn)  BY <1>1, <1>3, <1>4
  <2>. QED  BY <1>1, <1>4, <1>5, <2>1
<1>7. \A j \in 1..Len(n) : v[k + j] = n[j]
  <2>1. TAKE j \in 1..Len(n)
  <2>. DEFINE i == k + j
  <2>2. i \in 1..Len(xn) /\ i = Len(x) + j  BY <1>1, <1>3, <1>4
  <2>. HIDE DEF i
  <2>3. v[i] = xn[i] /\ xn[Len(x) + j] = n[j]  BY <1>4, <1>5, <2>2
  <2>4. v[i] = n[j]  BY <2>2, <2>3
  <2>. QED  BY <2>4 DEF i
<1>8. \A j \in 1..Len(y) : v[k + Len(n) + j] = u[k + j]
  <2>1. TAKE j \in 1..Len(y)
  <2>2. Len(xn) + j = k + Len(n) + j /\ j \in 1..(Len(u) - k)  BY <1>1, <1>3, <1>4
  <2>3. v[Len(xn) + j] = y[j] /\ y[j] = u[k + j]  BY <1>1, <1>5, <2>2
  <2>. QED  BY <2>2, <2>3
<1>9. Len(v) = k + Len(n) + Len(y)  BY <1>1, <1>3, <1>4, <1>5
<1>. QED  BY <1>1, <1>5, <1>6, <1>7, <1>8, <1>9 DEF v, y

LEMMA GrownItems ==
  ASSUME NEW l, NEW u, OneItem(u), NEW k \in 1..Len(u), NEW n, IsNewItem(n, l)
  PROVE  /\ TwoItems(Grown(u, k, n), k + 1) /\ Headless(Grown(u, k, n))
<1>. DEFINE v == Grown(u, k, n)
            y == Part(u, k + 1, Len(u))
<1>1. /\ n \in Texts /\ Len(n) \in Nat /\ 1 <= Len(n) /\ n[1].what = "dash"
      /\ \A i \in 1..Len(n) : n[i].what # "head" /\ (i # 1 => n[i].what # "dash")
  BY NewItemsAre
<1>2. /\ u \in Texts /\ u[1].what = "dash" /\ Len(u) \in Nat
      /\ \A i \in 2..Len(u) : u[i].what # "dash" /\ u[i].what # "head"
  BY ItemsHeadless DEF OneItem
<1>3. /\ v \in Texts /\ Len(v) = k + Len(n) + Len(y)
      /\ \A i \in 1..k : v[i] = u[i]
      /\ \A j \in 1..Len(n) : v[k + j] = n[j]
      /\ \A j \in 1..Len(y) : v[k + Len(n) + j] = u[k + j]
      /\ Len(y) = Len(u) - k
  BY <1>1, <1>2, GrownLines
<1>. HIDE DEF v, y
<1>4. k \in Nat /\ 1 <= k /\ k <= Len(u) /\ Len(y) \in Nat  BY <1>2, <1>3
<1>5. k + 1 \in 2..Len(v)  BY <1>1, <1>3, <1>4
<1>6. v[1].what = "dash" /\ v[k + 1].what = "dash"
  <2>1. 1 \in 1..k /\ 1 \in 1..Len(n)  BY <1>1, <1>4
  <2>. QED  BY <1>1, <1>2, <1>3, <2>1
<1>7. ASSUME NEW i \in 2..Len(v), i # k + 1
      PROVE  v[i].what # "dash" /\ v[i].what # "head"
  <2>1. CASE i <= k
    <3>1. i \in 1..k /\ i \in 2..Len(u)  BY <1>2, <1>4, <2>1
    <3>. QED  BY <1>2, <1>3, <3>1
  <2>2. CASE i > k /\ i <= k + Len(n)
    <3>. DEFINE j == i - k
    <3>1. j \in 1..Len(n) /\ i = k + j /\ j # 1  BY <1>1, <1>4, <1>7, <2>2
    <3>. HIDE DEF j
    <3>2. v[i] = n[j]  BY <1>3, <3>1
    <3>. QED  BY <1>1, <3>1, <3>2
  <2>3. CASE i > k + Len(n)
    <3>. DEFINE j == i - (k + Len(n))
                m == k + j
    <3>1. j \in 1..Len(y) /\ i = k + Len(n) + j /\ m \in 2..Len(u) /\ m = k + j  BY <1>1, <1>2, <1>3, <1>4, <2>3
    <3>. HIDE DEF j, m
    <3>2. v[i] = u[m]  BY <1>3, <3>1
    <3>. QED  BY <1>2, <3>1, <3>2
  <2>4. i <= k \/ (i > k /\ i <= k + Len(n)) \/ i > k + Len(n)  BY <1>1, <1>4
  <2>. QED  BY <2>1, <2>2, <2>3, <2>4
<1>8. \A i \in 1..Len(v) : v[i].what # "head"
  <2>1. \A i \in 1..Len(v) : i = 1 \/ i = k + 1 \/ (i \in 2..Len(v) /\ i # k + 1)  BY <1>1, <1>3, <1>4
  <2>. QED  BY <1>6, <1>7, <2>1
<1>. QED  BY <1>3, <1>5, <1>6, <1>7, <1>8 DEF TwoItems, Headless, v

\* Its parts: the item that was there, the new one, and what is below the new one.
LEMMA GrownParts ==
  ASSUME NEW u \in Texts, NEW k \in 1..Len(u), NEW n \in Texts
  PROVE  LET v == Grown(u, k, n)
             x == Part(u, 1, k)
             y == Part(u, k + 1, Len(u))
         IN  /\ Part(v, 1, k) = x /\ Part(v, k + 1, Len(v)) = n \o y
             /\ Part(v, k + Len(n) + 1, Len(v)) = y
             /\ x \in Texts /\ y \in Texts /\ u = x \o y /\ v = x \o (n \o y)
<1>. DEFINE x == Part(u, 1, k)
            y == Part(u, k + 1, Len(u))
            v == Grown(u, k, n)
            xn == x \o n
            ny == n \o y
<1>1. x \in Texts /\ Len(x) = k /\ y \in Texts /\ u = x \o y
  <2>1. k \in 0..Len(u)  OBVIOUS
  <2>. QED  BY <2>1, SplitAt
<1>2. v = xn \o y  BY DEF Grown
<1>. HIDE DEF x, y, v
<1>3. xn \in Texts /\ ny \in Texts /\ LengthsAdd(x, n) /\ Again(x, n, y)  BY <1>1, JoinedIs, TextsJoinedAgain
<1>4. v = x \o ny  BY <1>2, <1>3, Zenon DEF Again
<1>5. Len(xn) = k + Len(n)  BY <1>1, <1>3, Zenon DEF LengthsAdd
<1>. HIDE DEF xn, ny
<1>6. Part(x \o ny, 1, Len(x)) = x /\ Part(x \o ny, Len(x) + 1, Len(x \o ny)) = ny  BY <1>1, <1>3, JointParts
<1>7. Part(xn \o y, Len(xn) + 1, Len(xn \o y)) = y  BY <1>1, <1>3, JointParts
<1>8. Part(v, 1, k) = x /\ Part(v, k + 1, Len(v)) = ny  BY <1>1, <1>4, <1>6, Zenon
<1>9. Part(v, k + Len(n) + 1, Len(v)) = y  BY <1>2, <1>5, <1>7, Zenon
<1>. QED  BY <1>1, <1>4, <1>8, <1>9, Zenon DEF x, y, v, ny

LEMMA SelectionIs ==
  ASSUME NEW b \in Texts, NEW K
  PROVE  OfKinds(b, K) \in Texts
<1>1. <<>> \in Texts  BY DEF Texts
<1>. QED  BY <1>1, OfKindsJoins

SelectionsJoin(b, c, K) == OfKinds(b \o c, K) = OfKinds(b, K) \o OfKinds(c, K)
LEMMA SelectionsAre ==
  ASSUME NEW b \in Texts, NEW c \in Texts, NEW K
  PROVE  SelectionsJoin(b, c, K) /\ OfKinds(b, K) \in Texts /\ OfKinds(c, K) \in Texts
BY OfKindsJoins DEF SelectionsJoin

\* What it says: the item that was there is what it was, when nothing of it was below
\* the insertion, and so are its remarks.
LEMMA GrownSelections ==
  ASSUME NEW l, NEW u, OneItem(u), NEW k \in 1..Len(u), NEW n, IsNewItem(n, l),
         OfKinds(Part(u, k + 1, Len(u)), Contents) = <<>>
  PROVE  /\ OfKinds(Part(Grown(u, k, n), 1, k), Contents) = OfKinds(u, Contents)
         /\ OfKinds(Part(Grown(u, k, n), k + 1, Len(Grown(u, k, n))), Contents) = n
<1>. DEFINE x == Part(u, 1, k)
            y == Part(u, k + 1, Len(u))
            v == Grown(u, k, n)
<1>1. u \in Texts /\ n \in Texts /\ OfKinds(n, Contents) = n  BY NewItemsAre, ItemsHeadless
<1>2. /\ Part(v, 1, k) = x /\ Part(v, k + 1, Len(v)) = n \o y
      /\ x \in Texts /\ y \in Texts /\ u = x \o y
  BY <1>1, GrownParts, Zenon
<1>3. OfKinds(y, Contents) = <<>>  OBVIOUS
<1>. HIDE DEF x, y, v
<1>. DEFINE p == OfKinds(x, Contents)
<1>4. p \in Texts /\ SelectionsJoin(x, y, Contents) /\ SelectionsJoin(n, y, Contents)  BY <1>1, <1>2, SelectionsAre
<1>5. OfKinds(u, Contents) = p \o <<>>  BY <1>2, <1>3, <1>4, Zenon DEF SelectionsJoin
<1>6. OfKinds(n \o y, Contents) = n \o <<>>  BY <1>1, <1>3, <1>4, Zenon DEF SelectionsJoin
<1>. HIDE DEF p
<1>7. p \o <<>> = p /\ n \o <<>> = n  BY <1>1, <1>4, TextsAre
<1>8. OfKinds(Part(v, 1, k), Contents) = p  BY <1>2 DEF p
<1>. QED  BY <1>2, <1>5, <1>6, <1>7, <1>8, Zenon DEF v

LEMMA GrownRemarks ==
  ASSUME NEW l, NEW u, OneItem(u), NEW k \in 1..Len(u), NEW n, IsNewItem(n, l)
  PROVE  OfKinds(Grown(u, k, n), Remarkable) = OfKinds(u, Remarkable)
<1>. DEFINE x == Part(u, 1, k)
            y == Part(u, k + 1, Len(u))
            v == Grown(u, k, n)
<1>1. u \in Texts /\ n \in Texts /\ OfKinds(n, Remarkable) = <<>>  BY NewItemsAre, ItemsHeadless
<1>2. x \in Texts /\ y \in Texts /\ u = x \o y /\ v = x \o (n \o y)  BY <1>1, GrownParts, Zenon
<1>. HIDE DEF x, y, v
<1>. DEFINE ny == n \o y
            q == OfKinds(y, Remarkable)
<1>3. ny \in Texts  BY <1>1, <1>2, JoinedIs
<1>4. q \in Texts /\ SelectionsJoin(x, y, Remarkable) /\ SelectionsJoin(n, y, Remarkable)  BY <1>1, <1>2, SelectionsAre
<1>5. OfKinds(ny, Remarkable) = <<>> \o q  BY <1>1, <1>4, Zenon DEF SelectionsJoin
<1>6. OfKinds(u, Remarkable) = OfKinds(x, Remarkable) \o q  BY <1>2, <1>4, Zenon DEF SelectionsJoin
<1>7. v = x \o ny  BY <1>2
<1>. HIDE DEF ny, q
<1>8. SelectionsJoin(x, ny, Remarkable)  BY <1>2, <1>3, SelectionsAre
<1>9. <<>> \o q = q  BY <1>4, TextsAre
<1>10. OfKinds(v, Remarkable) = OfKinds(x, Remarkable) \o q  BY <1>5, <1>7, <1>8, <1>9, Zenon DEF SelectionsJoin
<1>. QED  BY <1>6, <1>10, Zenon DEF v

\* The list in the text that was there and in the one that was put together.
Extends(w, a, l, n) ==
  /\ ItemsOf(a, l) = ItemsOf(w, l) \o <<n>>
  /\ SubSeq(a, Max(Dashes(a, l)) + Len(n), EndOf(a, l)) = SubSeq(w, InsertionOffset(w, l) + 1, EndOf(w, l))

\* Both lists as they are read.
TwoRead(a, l, u, n) == ItemsOf(a, l) = <<OfKinds(u, Contents), n>>

LEMMA NoContentBelow ==
  ASSUME NEW l \in ListNames, NEW w, NEW p, NEW u, ListAt(w, l, p, u), OneItem(u),
         NEW k \in 1..Len(u), InsertionOffset(w, l) = p + k, Undivided(w, l)
  PROVE  OfKinds(Part(u, k + 1, Len(u)), Contents) = <<>>
<1>. DEFINE y == Part(u, k + 1, Len(u))
<1>1. u \in Texts /\ Len(u) \in Nat  BY ItemsHeadless
<1>2. y \in Texts /\ Len(y) = Len(u) - k /\ \A i \in 1..(Len(u) - k) : y[i] = u[k + i]
  <2>1. k \in 0..Len(u)  BY <1>1
  <2>. QED  BY <1>1, <2>1, SplitAt
<1>3. EndOf(w, l) = p + Len(u)  BY ListIs
<1>4. \A i \in p + k + 1..p + Len(u) : w[i].what \notin Contents
  BY <1>3 DEF Undivided, HasContent
<1>5. w \in Texts /\ p \in 1..Len(w) /\ \A i \in 1..Len(u) : w[p + i] = u[i]  BY DEF ListAt
<1>6. p \in Nat /\ k \in Nat
  <2>1. Len(w) \in Nat  BY <1>5, TextIs
  <2>. QED  BY <1>1, <1>5, <2>1
<1>. HIDE DEF y
<1>7. \A i \in 1..Len(y) : y[i].what \notin Contents
  <2>1. TAKE i \in 1..Len(y)
  <2>. DEFINE j == k + i
  <2>2. j \in 1..Len(u) /\ p + j \in p + k + 1..p + Len(u) /\ i \in 1..(Len(u) - k)  BY <1>1, <1>2, <1>6
  <2>3. y[i] = u[j]  BY <1>2, <2>2
  <2>. HIDE DEF j
  <2>4. w[p + j] = u[j] /\ w[p + j].what \notin Contents  BY <1>4, <1>5, <2>2
  <2>. QED  BY <2>3, <2>4
<1>8. OfKinds(y, Contents) = <<>>  BY <1>2, <1>7, OfKindsNone
<1>. QED  BY <1>8 DEF y

LEMMA RowsJoin ==
  ASSUME NEW S, NEW t \in Seq(S), NEW u \in Seq(S)
  PROVE  /\ t \o u \in Seq(S) /\ Len(t \o u) = Len(t) + Len(u)
         /\ \A i \in 1..Len(t) : (t \o u)[i] = t[i]
         /\ \A i \in 1..Len(u) : (t \o u)[Len(t) + i] = u[i]
OBVIOUS

LEMMA OneAndOne ==
  ASSUME NEW a, NEW b
  PROVE  <<a>> \o <<b>> = <<a, b>>
<1>. DEFINE S == {a, b}
            s == <<a>>
            r == <<b>>
            t == s \o r
            u == <<a, b>>
<1>1. s \in Seq(S) /\ Len(s) = 1 /\ s[1] = a /\ r \in Seq(S) /\ Len(r) = 1 /\ r[1] = b  OBVIOUS
<1>2. u \in Seq(S) /\ Len(u) = 2 /\ u[1] = a /\ u[2] = b  OBVIOUS
<1>. HIDE DEF S, s, r, u
<1>3. /\ t \in Seq(S) /\ Len(t) = Len(s) + Len(r)
      /\ (\A i \in 1..Len(s) : t[i] = s[i]) /\ \A i \in 1..Len(r) : t[Len(s) + i] = r[i]
  BY <1>1, RowsJoin
<1>. HIDE DEF t
<1>5. Len(t) = 2 /\ t[1] = a /\ t[2] = b
  <2>1. 1 \in 1..1 /\ 1 + 1 = 2  OBVIOUS
  <2>2. t[1] = s[1] /\ t[1 + 1] = r[1]  BY <1>1, <1>3, <2>1
  <2>. QED  BY <1>1, <1>3, <2>1, <2>2
<1>6. \A i \in 1..2 : t[i] = u[i]
  <2>1. \A i \in 1..2 : i = 1 \/ i = 2  OBVIOUS
  <2>. QED  BY <1>2, <1>5, <2>1
<1>7. t = u  BY <1>2, <1>3, <1>5, <1>6
<1>. QED  BY <1>7 DEF t, s, r, u

LEMMA ListExtended ==
  ASSUME NEW l \in ListNames, NEW w, NEW p, NEW u, ListAt(w, l, p, u), OneItem(u),
         NEW k \in 1..Len(u), InsertionOffset(w, l) = p + k, Undivided(w, l),
         NEW n, IsNewItem(n, l), NEW a, NEW q, ListAt(a, l, q, Grown(u, k, n))
  PROVE  TwoRead(a, l, u, n) /\ Extends(w, a, l, n)
<1>. DEFINE v == Grown(u, k, n)
            y == Part(u, k + 1, Len(u))
<1>1. u \in Texts /\ Len(u) \in Nat /\ n \in Texts /\ Len(n) \in Nat /\ 1 <= Len(n)  BY ItemsHeadless, NewItemsAre
<1>2. TwoItems(v, k + 1)  BY GrownItems
<1>3. OfKinds(y, Contents) = <<>>  BY NoContentBelow
<1>4. /\ OfKinds(Part(v, 1, k), Contents) = OfKinds(u, Contents)
      /\ OfKinds(Part(v, k + 1, Len(v)), Contents) = n
  BY <1>3, GrownSelections
<1>5. Part(v, k + Len(n) + 1, Len(v)) = y  BY <1>1, GrownParts, Zenon
<1>6. v \in Texts /\ Len(v) = k + Len(n) + Len(y) /\ Len(y) = Len(u) - k  BY <1>1, GrownLines
<1>7. ListAt(a, l, q, v)  OBVIOUS
<1>. HIDE DEF v
<1>8. /\ Max(Dashes(a, l)) = q + (k + 1)
      /\ ItemsOf(a, l) = <<OfKinds(Part(v, 1, (k + 1) - 1), Contents), OfKinds(Part(v, k + 1, Len(v)), Contents)>>
  BY <1>2, <1>7, TwoItemsAre
<1>9. (k + 1) - 1 = k  BY <1>1
<1>10. ItemsOf(a, l) = <<OfKinds(u, Contents), n>>  BY <1>4, <1>8, <1>9
<1>11. ItemsOf(w, l) = <<OfKinds(u, Contents)>>  BY OneItemIs
<1>12. ItemsOf(a, l) = ItemsOf(w, l) \o <<n>>  BY <1>10, <1>11, OneAndOne, Zenon
<1>13. EndOf(a, l) = q + Len(v) /\ EndOf(w, l) = p + Len(u)  BY <1>7, ListIs
<1>14. /\ q \in Nat /\ p \in Nat /\ k \in Nat /\ k <= Len(u)
  <2>1. a \in Texts /\ q \in 1..Len(a) /\ w \in Texts /\ p \in 1..Len(w)  BY <1>7 DEF ListAt
  <2>2. Len(a) \in Nat /\ Len(w) \in Nat  BY <2>1, TextIs
  <2>. QED  BY <1>1, <2>1, <2>2
<1>. DEFINE i == k + Len(n) + 1
            j == k + 1
<1>15. /\ i \in 1..(Len(v) + 1) /\ Len(v) \in (i - 1)..Len(v)
       /\ j \in 1..(Len(u) + 1) /\ Len(u) \in (j - 1)..Len(u)
       /\ (q + (k + 1)) + Len(n) = q + i /\ (p + k) + 1 = p + j
  BY <1>1, <1>6, <1>14
<1>16. Part(v, i, Len(v)) = y /\ Part(u, j, Len(u)) = y  BY <1>5
<1>. HIDE DEF i, j, y
<1>17. Part(a, q + i, q + Len(v)) = Part(v, i, Len(v))  BY <1>7, <1>15, ListPart
<1>18. Part(w, p + j, p + Len(u)) = Part(u, j, Len(u))  BY <1>15, ListPart
<1>19. Part(a, q + i, q + Len(v)) = Part(w, p + j, p + Len(u))  BY <1>16, <1>17, <1>18, Zenon
<1>20. SubSeq(a, Max(Dashes(a, l)) + Len(n), EndOf(a, l)) = SubSeq(w, InsertionOffset(w, l) + 1, EndOf(w, l))
  <2>1. Max(Dashes(a, l)) + Len(n) = q + i  BY <1>8, <1>15
  <2>2. InsertionOffset(w, l) + 1 = p + j  BY <1>15
  <2>. QED  BY <1>13, <1>19, <2>1, <2>2, Zenon DEF Part
<1>. QED  BY <1>10, <1>12, <1>20, Zenon DEF TwoRead, Extends

\* The list that nothing was added to.
LEMMA ListLeft ==
  ASSUME NEW l \in ListNames, NEW w, NEW p, NEW u, ListAt(w, l, p, u), OneItem(u),
         NEW a, NEW q, ListAt(a, l, q, u)
  PROVE  ItemsOf(a, l) = ItemsOf(w, l) /\ ItemsOf(a, l) = <<OfKinds(u, Contents)>>
BY OneItemIs

-----------------------------------------------------------------------------
(* The text that was put together.                                         *)

ListedAs(l, u) == OneItem(u) /\ u[1] = FirstDash(l)
Result(l, u, k) == IF l \in Extended THEN Grown(u, k, NewItem(l)) ELSE u
TwoLists(l, u, m, v) == {l, m} = ListNames /\ l # m /\ ListedAs(l, u) /\ ListedAs(m, v)

LEMMA ExtendedIs ==
  "tasks" \in Extended /\ Extended \subseteq ListNames /\ (Extended = ListNames \/ Extended = {"tasks"})
BY DEF Extended, ListNames

LEMMA SplicedBoth ==
  ASSUME NEW t, NEW l \in ListNames, NEW m \in ListNames, {l, m} = ListNames, l # m, Extended = ListNames,
         NEW i \in Int, NEW j \in Int, InsertionOffset(t, l) = i, InsertionOffset(t, m) = j, i < j
  PROVE  SpliceItems(t) = SplicedAt(SplicedAt(t, j, NewItem(m)), i, NewItem(l))
<1>. DEFINE IsLater(x) == \A y \in Extended : InsertionOffset(t, x) >= InsertionOffset(t, y)
            later == CHOOSE x \in Extended : IsLater(x)
            others == Extended \ {later}
            insert(r, x) == SplicedAt(r, InsertionOffset(t, x), NewItem(x))
<1>1. SpliceItems(t) = IF others = {} THEN insert(t, later) ELSE insert(insert(t, later), CHOOSE x \in others : TRUE)
  BY Zenon DEF SpliceItems
<1>2. later = m
  <2>1. Extended = {l, m}  OBVIOUS
  <2>2. IsLater(m) /\ ~IsLater(l)  BY <2>1
  <2>. HIDE DEF IsLater
  <2>. QED  BY <2>1, <2>2
<1>3. others = {l}  BY <1>2
<1>. HIDE DEF later, others
<1>4. (CHOOSE x \in others : TRUE) = l  BY <1>3
<1>5. SpliceItems(t) = insert(insert(t, m), l)
  <2>1. others # {}  BY <1>3
  <2>. HIDE DEF insert
  <2>. QED  BY <1>1, <1>2, <1>4, <2>1, Zenon
<1>. QED  BY <1>5, Zenon

LEMMA SplicedTask ==
  ASSUME NEW t, Extended = {"tasks"}, InsertionOffset(t, "tasks") \in Int
  PROVE  SpliceItems(t) = SplicedAt(t, InsertionOffset(t, "tasks"), NewItem("tasks"))
<1>. DEFINE IsLater(x) == \A y \in Extended : InsertionOffset(t, x) >= InsertionOffset(t, y)
            later == CHOOSE x \in Extended : IsLater(x)
            others == Extended \ {later}
            insert(r, x) == SplicedAt(r, InsertionOffset(t, x), NewItem(x))
<1>1. SpliceItems(t) = IF others = {} THEN insert(t, later) ELSE insert(insert(t, later), CHOOSE x \in others : TRUE)
  BY Zenon DEF SpliceItems
<1>2. later = "tasks"
  <2>1. IsLater("tasks")  OBVIOUS
  <2>. HIDE DEF IsLater
  <2>. QED  BY <2>1
<1>3. others = {}  BY <1>2
<1>. HIDE DEF later, others
<1>. QED  BY <1>1, <1>2, <1>3, Zenon

LEMMA SpliceItemsIs ==
  ASSUME NEW l \in ListNames, NEW m \in ListNames, NEW u, NEW v, TwoLists(l, u, m, v),
         NEW k \in 1..Len(u), NEW j \in 1..Len(v),
         InsertionOffset(TextOf(l, u, m, v), l) = 1 + k,
         InsertionOffset(TextOf(l, u, m, v), m) = (Len(u) + 2) + j
  PROVE  SpliceItems(TextOf(l, u, m, v)) = TextOf(l, Result(l, u, k), m, Result(m, v, j))
<1>. DEFINE t == TextOf(l, u, m, v)
            n == NewItem(l)
            r == NewItem(m)
            x == Grown(u, k, n)
            y == Grown(v, j, r)
<1>1. {l, m} = ListNames /\ l # m /\ OneItem(u) /\ OneItem(v)  BY DEF TwoLists, ListedAs
<1>2. u \in Texts /\ v \in Texts /\ Len(u) \in Nat /\ Len(v) \in Nat  BY <1>1, ItemsHeadless
<1>3. n \in Texts /\ r \in Texts
  <2>1. IsNewItem(NewItem(l), l) /\ IsNewItem(NewItem(m), m)  BY NewItemIs
  <2>. QED  BY <2>1, NewItemsAre
<1>4. y \in Texts  BY <1>2, <1>3, GrownLines
<1>5. k \in 0..Len(u) /\ j \in 0..Len(v) /\ k \in Nat /\ j \in Nat  BY <1>2
<1>. DEFINE a == 1 + k
            b == (Len(u) + 2) + j
<1>6. a \in Int /\ b \in Int /\ a < b
  <2>1. k <= Len(u)  BY <1>2
  <2>. QED  BY <1>2, <1>5, <2>1
<1>7. InsertionOffset(t, l) = a /\ InsertionOffset(t, m) = b  OBVIOUS
<1>. HIDE DEF n, r
<1>8. SplicedAt(t, b, r) = TextOf(l, u, m, y)
  <2>1. SplicedAt(TextOf(l, u, m, v), (Len(u) + 2) + j, r) = TextOf(l, u, m, Grown(v, j, r))
    BY <1>2, <1>3, <1>5, SplicedSecond
  <2>. QED  BY <2>1
<1>9. SplicedAt(t, a, n) = TextOf(l, x, m, v)
  <2>1. SplicedAt(TextOf(l, u, m, v), 1 + k, n) = TextOf(l, Grown(u, k, n), m, v)
    BY <1>2, <1>3, <1>5, SplicedFirst
  <2>. QED  BY <2>1
<1>10. SplicedAt(TextOf(l, u, m, y), a, n) = TextOf(l, x, m, y)
  <2>. HIDE DEF y
  <2>1. SplicedAt(TextOf(l, u, m, y), 1 + k, n) = TextOf(l, Grown(u, k, n), m, y)
    BY <1>2, <1>3, <1>4, <1>5, SplicedFirst
  <2>. QED  BY <2>1
<1>11. CASE Extended = ListNames
  <2>1. SpliceItems(t) = SplicedAt(SplicedAt(t, b, r), a, n)
    <3>. HIDE DEF t, a, b
    <3>. QED  BY <1>1, <1>6, <1>7, <1>11, SplicedBoth, ZenonT(40) DEF n, r
  <2>2. SpliceItems(t) = TextOf(l, x, m, y)  BY <1>8, <1>10, <2>1, Zenon
  <2>3. Result(l, u, k) = x /\ Result(m, v, j) = y  BY <1>11 DEF Result, n, r
  <2>. QED  BY <2>2, <2>3, Zenon
<1>12. CASE Extended = {"tasks"} /\ Extended # ListNames
  <2>1. CASE l = "tasks"
    <3>1. SpliceItems(t) = SplicedAt(t, a, n)
      <4>. HIDE DEF t, a
      <4>. QED  BY <1>6, <1>7, <1>12, <2>1, SplicedTask, ZenonT(40) DEF n, r
    <3>2. SpliceItems(t) = TextOf(l, x, m, v)  BY <1>9, <3>1, Zenon
    <3>3. Result(l, u, k) = x /\ Result(m, v, j) = v  BY <1>1, <1>12, <2>1 DEF Result, n, r
    <3>. QED  BY <3>2, <3>3, Zenon
  <2>2. CASE m = "tasks"
    <3>1. SpliceItems(t) = SplicedAt(t, b, r)
      <4>. HIDE DEF t, b
      <4>. QED  BY <1>6, <1>7, <1>12, <2>2, SplicedTask, ZenonT(40) DEF n, r
    <3>2. SpliceItems(t) = TextOf(l, u, m, y)  BY <1>8, <3>1, Zenon
    <3>3. Result(l, u, k) = u /\ Result(m, v, j) = y  BY <1>1, <1>12, <2>2 DEF Result, n, r
    <3>. QED  BY <3>2, <3>3, Zenon
  <2>3. l = "tasks" \/ m = "tasks"  BY <1>1 DEF ListNames
  <2>. QED  BY <2>1, <2>2, <2>3
<1>. QED  BY <1>11, <1>12, ExtendedIs

\* Remarks do not depend on which items there are.
LEMMA RemarksOf ==
  ASSUME NEW l \in ListNames, NEW m \in ListNames,
         NEW u \in Texts, NEW v \in Texts, NEW x \in Texts, NEW y \in Texts,
         OfKinds(x, Remarkable) = OfKinds(u, Remarkable), OfKinds(y, Remarkable) = OfKinds(v, Remarkable)
  PROVE  Remarks(TextOf(l, x, m, y)) = Remarks(TextOf(l, u, m, v))
<1>. DEFINE h == <<ListHead(l)>>
            i == <<ListHead(m)>>
<1>1. h \in Texts /\ i \in Texts
  <2>1. ListHead(l) \in TextLines /\ ListHead(m) \in TextLines  BY LinesAre
  <2>. QED  BY <2>1, OneLineIs
<1>2. h \o u = Block(l, u) /\ i \o v = Block(m, v) /\ h \o x = Block(l, x) /\ i \o y = Block(m, y)  BY DEF Block
<1>. HIDE DEF h, i
<1>3. Block(l, u) \in Texts /\ Block(m, v) \in Texts /\ Block(l, x) \in Texts /\ Block(m, y) \in Texts  BY BlockIs
<1>4. /\ SelectionsJoin(h, u, Remarkable) /\ SelectionsJoin(i, v, Remarkable)
      /\ SelectionsJoin(h, x, Remarkable) /\ SelectionsJoin(i, y, Remarkable)
      /\ SelectionsJoin(Block(l, u), Block(m, v), Remarkable)
      /\ SelectionsJoin(Block(l, x), Block(m, y), Remarkable)
  BY <1>1, <1>3, SelectionsAre
<1>5. OfKinds(Block(l, x), Remarkable) = OfKinds(Block(l, u), Remarkable)  BY <1>2, <1>4, Zenon DEF SelectionsJoin
<1>6. OfKinds(Block(m, y), Remarkable) = OfKinds(Block(m, v), Remarkable)  BY <1>2, <1>4, Zenon DEF SelectionsJoin
<1>7. OfKinds(TextOf(l, x, m, y), Remarkable) = OfKinds(TextOf(l, u, m, v), Remarkable)
  BY <1>4, <1>5, <1>6, Zenon DEF SelectionsJoin, TextOf
<1>. QED  BY <1>7, Zenon DEF Remarks, Remarkable

\* What a parser takes.
Says(items, l) ==
  /\ IsInjective([k \in DOMAIN items |-> items[k][1]]) /\ \A k \in DOMAIN items : WellFormed(items[k])
  /\ l = "tasks" => \A k \in DOMAIN items : Check("c1") \in Range(items[k])

LEMMA ParsesIs ==
  ASSUME NEW t
  PROVE  Parses(t) <=> \A l \in ListNames : Says(ItemsOf(t, l), l)
<1>1. "tasks" \in ListNames  BY DEF ListNames
<1>. QED  BY <1>1, Zenon DEF Parses, Says

LEMMA SaysTwo ==
  ASSUME NEW l \in ListNames, NEW x, NEW n, Says(<<x>>, l), x[1] = FirstDash(l), IsNewItem(n, l)
  PROVE  Says(<<x, n>>, l)
<1>1. WellFormed(x) /\ (l = "tasks" => Check("c1") \in Range(x))
  <2>1. 1 \in DOMAIN <<x>> /\ <<x>>[1] = x  OBVIOUS
  <2>. QED  BY <2>1, Zenon DEF Says
<1>2. WellFormed(n) /\ (l = "tasks" => Check("c1") \in Range(n)) /\ n[1] # FirstDash(l)  BY DEF IsNewItem
<1>. DEFINE s == <<x, n>>
            f == [k \in DOMAIN s |-> s[k][1]]
<1>3. DOMAIN s = {1, 2} /\ s[1] = x /\ s[2] = n  OBVIOUS
<1>. HIDE DEF s
<1>4. DOMAIN f = {1, 2} /\ f[1] = FirstDash(l) /\ f[2] = n[1]  BY <1>3
<1>. HIDE DEF f
<1>5. IsInjective(f)  BY <1>2, <1>4 DEF IsInjective
<1>6. /\ \A k \in DOMAIN s : WellFormed(s[k])
      /\ l = "tasks" => \A k \in DOMAIN s : Check("c1") \in Range(s[k])
  BY <1>1, <1>2, <1>3
<1>7. Says(s, l)  BY <1>5, <1>6, Zenon DEF Says, f
<1>. QED  BY <1>7 DEF s

LEMMA ResultIs ==
  ASSUME NEW l \in ListNames, NEW u, OneItem(u), NEW k \in 1..Len(u)
  PROVE  /\ Headless(Result(l, u, k)) /\ Result(l, u, k) \in Texts
         /\ OfKinds(Result(l, u, k), Remarkable) = OfKinds(u, Remarkable)
<1>1. IsNewItem(NewItem(l), l)  BY NewItemIs
<1>2. CASE l \in Extended
  <2>1. Result(l, u, k) = Grown(u, k, NewItem(l))  BY <1>2 DEF Result
  <2>2. Headless(Grown(u, k, NewItem(l)))  BY <1>1, GrownItems
  <2>3. OfKinds(Grown(u, k, NewItem(l)), Remarkable) = OfKinds(u, Remarkable)  BY <1>1, GrownRemarks
  <2>. QED  BY <2>1, <2>2, <2>3 DEF Headless
<1>3. CASE l \notin Extended
  <2>1. Result(l, u, k) = u  BY <1>3 DEF Result
  <2>. QED  BY <2>1, ItemsHeadless
<1>. QED  BY <1>2, <1>3

Added(l) == IF l \in Extended THEN <<NewItem(l)>> ELSE <<>>
BelowAdded(t, a, l) ==
  SubSeq(a, Max(Dashes(a, l)) + Len(NewItem(l)), EndOf(a, l)) = SubSeq(t, InsertionOffset(t, l) + 1, EndOf(t, l))
ListIsKept(t, a, l) ==
  /\ Says(ItemsOf(a, l), l) /\ ItemsOf(a, l) = ItemsOf(t, l) \o Added(l)
  /\ l \in Extended => BelowAdded(t, a, l)

LEMMA OneAndNone ==
  ASSUME NEW x
  PROVE  <<x>> \o <<>> = <<x>>
<1>. DEFINE S == {x}
            s == <<x>>
            r == <<>>
            t == s \o r
<1>1. s \in Seq(S) /\ Len(s) = 1 /\ s[1] = x /\ r \in Seq(S) /\ Len(r) = 0  OBVIOUS
<1>. HIDE DEF S, s, r
<1>2. t \in Seq(S) /\ Len(t) = Len(s) + Len(r) /\ \A i \in 1..Len(s) : t[i] = s[i]  BY <1>1, RowsJoin
<1>. HIDE DEF t
<1>3. Len(t) = Len(s) /\ \A i \in 1..Len(s) : t[i] = s[i]  BY <1>1, <1>2
<1>4. t = s  BY <1>1, <1>2, <1>3
<1>. QED  BY <1>4 DEF t, s, r

LEMMA OneListKept ==
  ASSUME NEW l \in ListNames, NEW t, NEW p, NEW u, ListAt(t, l, p, u), ListedAs(l, u),
         NEW k \in 1..Len(u), InsertionOffset(t, l) = p + k, l \in Extended => Undivided(t, l),
         NEW a, NEW q, ListAt(a, l, q, Result(l, u, k)), Says(ItemsOf(t, l), l)
  PROVE  ListIsKept(t, a, l)
<1>1. OneItem(u) /\ u[1] = FirstDash(l)  BY DEF ListedAs
<1>. DEFINE x == OfKinds(u, Contents)
            n == NewItem(l)
<1>2. ItemsOf(t, l) = <<x>>  BY <1>1, OneItemIs
<1>3. x[1] = FirstDash(l)  BY <1>1, OfKindsFirst
<1>4. IsNewItem(n, l)  BY NewItemIs
<1>. HIDE DEF x, n
<1>5. CASE l \in Extended
  <2>1. Undivided(t, l) /\ ListAt(a, l, q, Grown(u, k, n))  BY <1>5 DEF Result, n
  <2>2. TwoRead(a, l, u, n) /\ Extends(t, a, l, n)  BY <1>1, <1>4, <2>1, ListExtended
  <2>3. ItemsOf(a, l) = <<x, n>>  BY <2>2 DEF TwoRead, x
  <2>4. Says(<<x>>, l)  BY <1>2
  <2>5. Says(<<x, n>>, l)  BY <1>3, <1>4, <2>4, SaysTwo
  <2>6. ItemsOf(a, l) = ItemsOf(t, l) \o Added(l)  BY <1>5, <2>2, Zenon DEF Extends, Added, n
  <2>7. BelowAdded(t, a, l)  BY <2>2, Zenon DEF Extends, BelowAdded, n
  <2>. QED  BY <2>3, <2>5, <2>6, <2>7, Zenon DEF ListIsKept
<1>6. CASE l \notin Extended
  <2>1. ListAt(a, l, q, u)  BY <1>6 DEF Result
  <2>2. ItemsOf(a, l) = ItemsOf(t, l)  BY <1>1, <2>1, ListLeft
  <2>3. ItemsOf(t, l) \o Added(l) = ItemsOf(t, l)  BY <1>2, <1>6, OneAndNone, Zenon DEF Added
  <2>4. Says(ItemsOf(a, l), l)  BY <2>2
  <2>. QED  BY <1>6, <2>2, <2>3, <2>4, Zenon DEF ListIsKept
<1>. QED  BY <1>5, <1>6

Kept(t, a) ==
  /\ Parses(a) /\ \A l \in ListNames : ItemsOf(a, l) = ItemsOf(t, l) \o Added(l)
  /\ Remarks(a) = Remarks(t)
  /\ \A l \in Extended : BelowAdded(t, a, l)

LEMMA TextKept ==
  ASSUME NEW l \in ListNames, NEW m \in ListNames, NEW u, NEW v, TwoLists(l, u, m, v),
         Parses(TextOf(l, u, m, v)), \A x \in Extended : Undivided(TextOf(l, u, m, v), x)
  PROVE  Kept(TextOf(l, u, m, v), SpliceItems(TextOf(l, u, m, v)))
<1>. DEFINE t == TextOf(l, u, m, v)
            a == SpliceItems(t)
            p == Len(u) + 2
<1>1. {l, m} = ListNames /\ l # m /\ ListedAs(l, u) /\ ListedAs(m, v) /\ OneItem(u) /\ OneItem(v)
  BY DEF TwoLists, ListedAs
<1>2. Headless(u) /\ Headless(v) /\ u \in Texts /\ v \in Texts  BY <1>1, ItemsHeadless
<1>3. ListAt(t, l, 1, u) /\ ListAt(t, m, p, v)  BY <1>1, <1>2, TextOfIs
<1>4. PICK k \in 1..Len(u) : InsertionOffset(t, l) = 1 + k
  <2>. HIDE DEF t
  <2>. QED  BY <1>1, <1>3, OffsetIs
<1>5. PICK j \in 1..Len(v) : InsertionOffset(t, m) = p + j
  <2>. HIDE DEF t, p
  <2>. QED  BY <1>1, <1>3, OffsetIs
<1>. DEFINE x == Result(l, u, k)
            y == Result(m, v, j)
<1>6. a = TextOf(l, x, m, y)  BY <1>4, <1>5, SpliceItemsIs
<1>7. /\ Headless(x) /\ x \in Texts /\ OfKinds(x, Remarkable) = OfKinds(u, Remarkable)
      /\ Headless(y) /\ y \in Texts /\ OfKinds(y, Remarkable) = OfKinds(v, Remarkable)
  BY <1>1, ResultIs
<1>8. Parses(t) /\ \A z \in Extended : Undivided(t, z)  OBVIOUS
<1>9. Remarks(a) = Remarks(t)
  <2>1. Remarks(TextOf(l, x, m, y)) = Remarks(TextOf(l, u, m, v))
    <3>. HIDE DEF x, y
    <3>. QED  BY <1>2, <1>7, RemarksOf
  <2>. QED  BY <1>6, <2>1
<1>10. ListAt(a, l, 1, x) /\ ListAt(a, m, Len(x) + 2, y)
  <2>1. ListAt(TextOf(l, x, m, y), l, 1, x) /\ ListAt(TextOf(l, x, m, y), m, Len(x) + 2, y)
    <3>. HIDE DEF x, y
    <3>. QED  BY <1>1, <1>7, TextOfIs
  <2>. QED  BY <1>6, <2>1
<1>. HIDE DEF t, a, p
<1>11. Says(ItemsOf(t, l), l) /\ Says(ItemsOf(t, m), m)  BY <1>8, ParsesIs
<1>12. ListIsKept(t, a, l)  BY <1>1, <1>3, <1>4, <1>8, <1>10, <1>11, OneListKept
<1>13. ListIsKept(t, a, m)
  <2>. DEFINE q == Len(x) + 2
  <2>1. ListAt(a, m, q, y)  BY <1>10
  <2>. HIDE DEF q
  <2>. QED  BY <1>1, <1>3, <1>5, <1>8, <1>11, <2>1, OneListKept
<1>14. \A z \in ListNames : ListIsKept(t, a, z)  BY <1>1, <1>12, <1>13
<1>15. Parses(a)
  <2>1. \A z \in ListNames : Says(ItemsOf(a, z), z)  BY <1>14 DEF ListIsKept
  <2>. QED  BY <2>1, ParsesIs
<1>16. (\A z \in ListNames : ItemsOf(a, z) = ItemsOf(t, z) \o Added(z)) /\ \A z \in Extended : BelowAdded(t, a, z)
  BY <1>14, ExtendedIs, Zenon DEF ListIsKept
<1>17. Kept(t, a)  BY <1>9, <1>15, <1>16, Zenon DEF Kept
<1>. QED  BY <1>17 DEF t, a

-----------------------------------------------------------------------------
(* The steps.                                                              *)

DocumentIs(t) ==
  \E l \in ListNames, m \in ListNames : \E u, v : TwoLists(l, u, m, v) /\ t = TextOf(l, u, m, v)
DocumentInv ==
  /\ DocumentTypeOK /\ DocumentIs(document.text)
  /\ appended \in {<<>>, SpliceItems(document.text)}

\* The lines below the first of the last item of a list.
LEMMA BelowIs ==
  ASSUME NEW S, S \subseteq TextLines, NEW n \in Nat,
         \A x \in S : x.what # "dash" /\ x.what # "head",
         NEW tail \in SequencesUpTo(S, n)
  PROVE  tail \in Texts /\ \A i \in 1..Len(tail) : tail[i].what # "dash" /\ tail[i].what # "head"
<1>1. PICK m \in 0..n : tail \in [1..m -> S]  BY DEF SequencesUpTo
<1>2. tail \in [1..m -> TextLines] /\ m \in Nat  BY <1>1
<1>3. tail \in Texts /\ Len(tail) = m
  <2>1. tail \in Seq(TextLines)  BY <1>2
  <2>2. Len(tail) \in Nat /\ DOMAIN tail = 1..Len(tail) /\ DOMAIN tail = 1..m  BY <1>2, <2>1
  <2>3. Len(tail) = m  BY <1>2, <2>2
  <2>. QED  BY <2>1, <2>3 DEF Texts
<1>4. \A i \in 1..m : tail[i] \in S  BY <1>1
<1>. QED  BY <1>3, <1>4

\* A list of one item, from its first lines.
LEMMA StartsItem ==
  ASSUME NEW s \in Texts, NEW tail \in Texts, 1 <= Len(s), s[1].what = "dash",
         \A i \in 2..Len(s) : s[i].what # "dash" /\ s[i].what # "head",
         \A i \in 1..Len(tail) : tail[i].what # "dash" /\ tail[i].what # "head"
  PROVE  OneItem(s \o tail) /\ (s \o tail)[1] = s[1]
<1>. DEFINE w == s \o tail
<1>1. /\ w \in Texts /\ Len(w) = Len(s) + Len(tail)
      /\ (\A i \in 1..Len(s) : w[i] = s[i]) /\ \A i \in 1..Len(tail) : w[Len(s) + i] = tail[i]
  BY TextsJoin
<1>2. Len(s) \in Nat /\ Len(tail) \in Nat  BY TextIs
<1>. HIDE DEF w
<1>3. 1 \in 1..Len(s) /\ 1 <= Len(w)  BY <1>1, <1>2
<1>4. w[1] = s[1]  BY <1>1, <1>3
<1>5. ASSUME NEW i \in 2..Len(w)
      PROVE  w[i].what # "dash" /\ w[i].what # "head"
  <2>1. CASE i <= Len(s)
    <3>1. i \in 1..Len(s) /\ i \in 2..Len(s)  BY <1>2, <2>1
    <3>. QED  BY <1>1, <3>1
  <2>2. CASE i > Len(s)
    <3>. DEFINE j == i - Len(s)
    <3>1. j \in 1..Len(tail) /\ i = Len(s) + j  BY <1>1, <1>2, <2>2
    <3>. HIDE DEF j
    <3>2. w[i] = tail[j]  BY <1>1, <3>1
    <3>. QED  BY <3>1, <3>2
  <2>3. i <= Len(s) \/ i > Len(s)  BY <1>2
  <2>. QED  BY <2>1, <2>2, <2>3
<1>. QED  BY <1>1, <1>3, <1>4, <1>5 DEF OneItem, w

LEMMA TwoInARow ==
  ASSUME NEW a \in TextLines, NEW b \in TextLines
  PROVE  <<a>> \o <<b>> = <<a, b>> /\ <<a>> \in Texts /\ <<b>> \in Texts /\ <<a, b>> \in Texts
         /\ Len(<<a, b>>) = 2 /\ <<a, b>>[1] = a /\ <<a, b>>[2] = b
<1>1. <<a>> \o <<b>> = <<a, b>>  BY OneAndOne
<1>2. <<a, b>> \in Texts /\ Len(<<a, b>>) = 2 /\ <<a, b>>[1] = a /\ <<a, b>>[2] = b  BY DEF Texts
<1>. QED  BY <1>1, <1>2, OneLineIs

\* The list of the tasks, and that of the repositories.
LEMMA TaskListIs ==
  ASSUME NEW tail \in BelowTask
  PROVE  \E u : ListedAs("tasks", u) /\ <<ListHead("tasks"), Dash("t1"), Check("c1")>> \o tail = Block("tasks", u)
<1>. DEFINE h == ListHead("tasks")
            d == Dash("t1")
            c == Check("c1")
            s == <<d, c>>
            u == s \o tail
<1>1. h \in TextLines /\ d \in TextLines /\ c \in TextLines /\ d.what = "dash" /\ c.what = "check"
  <2>1. "t1" \in Identifiers /\ "tasks" \in ListNames  BY DEF Identifiers, ListNames
  <2>. QED  BY <2>1, LinesAre
<1>2. tail \in Texts /\ \A i \in 1..Len(tail) : tail[i].what # "dash" /\ tail[i].what # "head"
  <2>. DEFINE S == {Check("c2"), SourceKey, FlushComment, DeepComment, Blank}
  <2>1. S \subseteq TextLines /\ \A x \in S : x.what # "dash" /\ x.what # "head"  BY LinesAre
  <2>2. tail \in SequencesUpTo(S, MaxTaskLines) /\ MaxTaskLines \in Nat  BY DocumentAssumption DEF BelowTask
  <2>. HIDE DEF S
  <2>. QED  BY <2>1, <2>2, BelowIs
<1>3. FirstDash("tasks") = d  BY DEF FirstDash
<1>. HIDE DEF h, d, c
<1>4. s \in Texts /\ Len(s) = 2 /\ s[1] = d /\ s[2] = c  BY <1>1, TwoInARow
<1>5. (<<h>> \o <<d>>) \o <<c>> = <<h, d, c>>  BY <1>1, LinesInARow
<1>6. <<d>> \o <<c>> = <<d, c>> /\ <<h>> \in Texts /\ <<d>> \in Texts /\ <<c>> \in Texts
  <2>1. <<h>> \in Texts /\ <<d>> \in Texts /\ <<c>> \in Texts  BY <1>1, OneLineIs
  <2>2. <<d>> \o <<c>> = <<d, c>>  BY OneAndOne
  <2>. QED  BY <2>1, <2>2
<1>7. Again(<<h>>, <<d>>, <<c>>)  BY <1>6, TextsJoinedAgain
<1>8. <<h>> \o s = <<h, d, c>>  BY <1>5, <1>6, <1>7, Zenon DEF Again
<1>. HIDE DEF s
<1>9. Again(<<h>>, s, tail)  BY <1>2, <1>4, <1>6, TextsJoinedAgain
<1>10. <<h, d, c>> \o tail = <<h>> \o u  BY <1>8, <1>9, Zenon DEF Again
<1>11. OneItem(u) /\ u[1] = d
  <2>1. 1 <= Len(s) /\ \A i \in 2..Len(s) : i = 2  BY <1>4
  <2>2. \A i \in 2..Len(s) : s[i].what # "dash" /\ s[i].what # "head"  BY <1>1, <1>4, <2>1
  <2>. QED  BY <1>1, <1>2, <1>4, <2>1, <2>2, StartsItem
<1>. HIDE DEF u
<1>12. ListedAs("tasks", u)  BY <1>3, <1>11 DEF ListedAs
<1>13. <<h, d, c>> \o tail = Block("tasks", u)  BY <1>10 DEF Block, h
<1>. QED  BY <1>12, <1>13 DEF h, d, c

LEMMA RepositoryListIs ==
  ASSUME NEW trailing \in BelowRepository
  PROVE  \E u : ListedAs("repositories", u)
                /\ <<ListHead("repositories"), Dash("r1")>> \o trailing = Block("repositories", u)
<1>. DEFINE h == ListHead("repositories")
            d == Dash("r1")
            s == <<d>>
            u == s \o trailing
<1>1. h \in TextLines /\ d \in TextLines /\ d.what = "dash"
  <2>1. "r1" \in Identifiers /\ "repositories" \in ListNames  BY DEF Identifiers, ListNames
  <2>. QED  BY <2>1, LinesAre
<1>2. trailing \in Texts /\ \A i \in 1..Len(trailing) : trailing[i].what # "dash" /\ trailing[i].what # "head"
  <2>. DEFINE S == {FlushComment, DeepComment, Blank}
  <2>1. S \subseteq TextLines /\ \A x \in S : x.what # "dash" /\ x.what # "head"  BY LinesAre
  <2>2. trailing \in SequencesUpTo(S, MaxTrailing) /\ MaxTrailing \in Nat  BY DocumentAssumption DEF BelowRepository
  <2>. HIDE DEF S
  <2>. QED  BY <2>1, <2>2, BelowIs
<1>3. FirstDash("repositories") = d  BY DEF FirstDash
<1>. HIDE DEF h, d
<1>4. s \in Texts /\ Len(s) = 1 /\ s[1] = d  BY <1>1, OneLineIs
<1>5. <<h>> \o s = <<h, d>> /\ <<h>> \in Texts  BY <1>1, TwoInARow
<1>. HIDE DEF s
<1>6. Again(<<h>>, s, trailing)  BY <1>2, <1>4, <1>5, TextsJoinedAgain
<1>7. <<h, d>> \o trailing = <<h>> \o u  BY <1>5, <1>6, Zenon DEF Again
<1>8. OneItem(u) /\ u[1] = d
  <2>1. 1 <= Len(s) /\ \A i \in 2..Len(s) : FALSE  BY <1>4
  <2>. QED  BY <1>1, <1>2, <1>4, <2>1, StartsItem
<1>. HIDE DEF u
<1>9. ListedAs("repositories", u)  BY <1>3, <1>8 DEF ListedAs
<1>10. <<h, d>> \o trailing = Block("repositories", u)  BY <1>7 DEF Block, h
<1>. QED  BY <1>9, <1>10 DEF h, d

LEMMA DocumentStarts ==
  DocumentInit => DocumentInv
<1>. SUFFICES ASSUME DocumentInit  PROVE DocumentInv  OBVIOUS
<1>1. PICK order \in TextOrders, tail \in BelowTask, trailing \in BelowRepository, flow \in SUBSET ListNames :
        LET lists == TextLists(tail, trailing)
        IN document = [text |-> lists[order[1]] \o lists[order[2]], flow |-> flow]
  BY DEF DocumentInit
<1>2. Parses(document.text) /\ addition \in [source : BOOLEAN, repository : BOOLEAN] /\ appended = <<>> /\ outcome = "none"
  BY DEF DocumentInit
<1>. DEFINE a == <<ListHead("tasks"), Dash("t1"), Check("c1")>> \o tail
            b == <<ListHead("repositories"), Dash("r1")>> \o trailing
            lists == TextLists(tail, trailing)
<1>3. lists["tasks"] = a /\ lists["repositories"] = b  BY DEF TextLists
<1>4. PICK u : ListedAs("tasks", u) /\ a = Block("tasks", u)  BY TaskListIs
<1>5. PICK v : ListedAs("repositories", v) /\ b = Block("repositories", v)  BY RepositoryListIs
<1>. HIDE DEF a, b
<1>6. document.text = lists[order[1]] \o lists[order[2]] /\ document.flow = flow  BY <1>1
<1>. HIDE DEF lists
<1>7. document.text = a \o b \/ document.text = b \o a
  <2>1. order = <<"repositories", "tasks">> \/ order = <<"tasks", "repositories">>  BY DEF TextOrders
  <2>2. CASE order = <<"repositories", "tasks">>
    <3>1. order[1] = "repositories" /\ order[2] = "tasks"  BY <2>2
    <3>. QED  BY <1>3, <1>6, <3>1
  <2>3. CASE order = <<"tasks", "repositories">>
    <3>1. order[1] = "tasks" /\ order[2] = "repositories"  BY <2>3
    <3>. QED  BY <1>3, <1>6, <3>1
  <2>. QED  BY <2>1, <2>2, <2>3
<1>8. TwoLists("tasks", u, "repositories", v) /\ TwoLists("repositories", v, "tasks", u)
  BY <1>4, <1>5 DEF TwoLists, ListNames
<1>9. "tasks" \in ListNames /\ "repositories" \in ListNames  BY DEF ListNames
<1>10. DocumentIs(document.text)
  <2>1. CASE document.text = a \o b
    <3>1. document.text = TextOf("tasks", u, "repositories", v)  BY <1>4, <1>5, <2>1, Zenon DEF TextOf
    <3>. QED  BY <1>8, <1>9, <3>1, Zenon DEF DocumentIs
  <2>2. CASE document.text = b \o a
    <3>1. document.text = TextOf("repositories", v, "tasks", u)  BY <1>4, <1>5, <2>2, Zenon DEF TextOf
    <3>. QED  BY <1>8, <1>9, <3>1, Zenon DEF DocumentIs
  <2>. QED  BY <1>7, <2>1, <2>2
<1>11. DocumentTypeOK  BY <1>2, <1>6 DEF DocumentTypeOK
<1>. QED  BY <1>2, <1>10, <1>11 DEF DocumentInv

LEMMA DocumentSteps ==
  DocumentInv /\ [DocumentNext]_documentVars => DocumentInv'
<1>. SUFFICES ASSUME DocumentInv, [DocumentNext]_documentVars  PROVE DocumentInv'  OBVIOUS
<1>1. DocumentTypeOK /\ DocumentIs(document.text) /\ appended \in {<<>>, SpliceItems(document.text)}  BY DEF DocumentInv
<1>2. document' = document /\ addition' = addition
  BY DEF DocumentNext, AppendToConfigText, ReparseCandidate, documentVars
<1>3. SpliceItems(document.text)' = SpliceItems(document.text)
  <2>1. Extended' = Extended  BY <1>2 DEF Extended
  <2>2. \A l : NewItem(l)' = NewItem(l)  BY <1>2 DEF NewItem
  <2>. QED  BY <1>2, <2>1, <2>2 DEF SpliceItems
<1>4. /\ appended' \in {<<>>, SpliceItems(document.text)}
      /\ outcome' \in {"none", "spliced", "refused", "accepted"}
  BY <1>1 DEF DocumentNext, AppendToConfigText, ReparseCandidate, documentVars, DocumentTypeOK
<1>5. DocumentTypeOK'  BY <1>1, <1>2, <1>4 DEF DocumentTypeOK
<1>. QED  BY <1>1, <1>2, <1>3, <1>4, <1>5 DEF DocumentInv

\* The text that is there stays one that parses, and what becomes of it is one of the
\* outcomes appendToConfigText has.
THEOREM DocumentTypeCorrect == DocumentSpec => []DocumentTypeOK
<1>1. DocumentInv => DocumentTypeOK  BY DEF DocumentInv
<1>. QED  BY <1>1, DocumentStarts, DocumentSteps, PTL DEF DocumentSpec

LEMMA InvKeepsDocument ==
  DocumentInv => DocumentKept
<1>. SUFFICES ASSUME DocumentInv  PROVE DocumentKept  OBVIOUS
<1>. DEFINE t == document.text
<1>1. SUFFICES ASSUME appended # <<>>, \A l \in Extended : Undivided(t, l)
               PROVE  Kept(t, appended)
  BY Zenon DEF DocumentKept, Kept, Added, BelowAdded
<1>2. appended = SpliceItems(t) /\ Parses(t) /\ DocumentIs(t)  BY <1>1 DEF DocumentInv, DocumentTypeOK
<1>. HIDE DEF t
<1>3. PICK l \in ListNames, m \in ListNames : \E u, v : TwoLists(l, u, m, v) /\ t = TextOf(l, u, m, v)
  BY <1>2 DEF DocumentIs
<1>4. PICK u, v : TwoLists(l, u, m, v) /\ t = TextOf(l, u, m, v)  BY <1>3
<1>5. Parses(TextOf(l, u, m, v)) /\ \A x \in Extended : Undivided(TextOf(l, u, m, v), x)  BY <1>1, <1>2, <1>4, Zenon
<1>6. Kept(TextOf(l, u, m, v), SpliceItems(TextOf(l, u, m, v)))  BY <1>4, <1>5, TextKept
<1>. QED  BY <1>2, <1>4, <1>6, Zenon

\* A text that tevu task add put together, from one whose last items no flush comment
\* divides, parses; each list has what it had and then the new item, every comment and
\* blank line is where it was, and the new item stands before those that ended its list.
THEOREM DocumentIsKept == DocumentSpec => []DocumentKept
BY InvKeepsDocument, DocumentStarts, DocumentSteps, PTL DEF DocumentSpec
=============================================================================
