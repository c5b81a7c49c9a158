-------------------------------- MODULE TaskAdd --------------------------------
(***************************************************************************)
(* tevu task add: how one process of it stops and saves. A wizard asks     *)
(* questions, between which it waits for steps of its own; a key pressed   *)
(* twice ends a question, a signal ends the wizard or is taken by the open *)
(* wait, and an accepted review writes the configuration once (createTask, *)
(* the config store). Several wizards and an editor share the file, which  *)
(* nobody locks. What is asked is the module TaskInterview.                *)
(***************************************************************************)
EXTENDS Integers, Sequences, FiniteSets

CONSTANTS
  Wizards,   \* the processes of tevu task add
  MaxEdits   \* bound: what the operator's editor saves

ASSUME TaskAddAssumption == IsFiniteSet(Wizards) /\ "editor" \notin Wizards /\ MaxEdits \in Nat

VARIABLES
  config,   \* the file: whether it is there, loads, and the tasks in it
  edits,
  wizard,   \* per wizard: stage, where the exit question goes back to, wait slot, signal
  keys,     \* per wizard: the exit window of its open prompt, its timers
  save,     \* per wizard: what it started from, its task's number, what a save read
  owed,     \* history: the wizards that got a SIGINT and have not answered it
  pressed,  \* history: the last exit key of the open prompt not yet 800 ms old
  raced,    \* history: what others wrote while a save was between reading and writing
  lost,     \* history: the tasks a wizard's write removed
  writes    \* history: how often each wizard has written

histories == <<owed, pressed, raced, lost, writes>>
addVars == <<config, edits, wizard, keys, save, histories>>

ExitKeys == {"escape", "ctrl-c"}
Prompts == {"question", "save", "exit"}
Saving == {"find", "read", "resolve", "write", "written", "unwritten"}
Results == {"completed", "failed", "cancelled"}
Numbers == 1..Cardinality(Wizards) + MaxEdits + 1
TaskRecords == [id : Numbers, by : Wizards \cup {"editor"}]

\* The one type invariant.
AddTypeOK ==
  /\ config \in [there : BOOLEAN, loads : BOOLEAN, tasks : SUBSET TaskRecords]
  /\ edits \in 0..MaxEdits
  /\ wizard \in [Wizards -> [stage : {"starting", "waiting"} \cup Prompts \cup Saving \cup Results,
                             back : {"none", "question", "save"},
                             wait : {"closed", "open", "taken"}, aborted : BOOLEAN]]
  /\ keys \in [Wizards -> [window : {"closed"} \cup ExitKeys, timers : Seq(ExitKeys)]]
  /\ save \in [Wizards -> [bootstrap : BOOLEAN, id : Numbers, text : SUBSET TaskRecords]]
  /\ owed \subseteq Wizards
  /\ pressed \in [Wizards -> {"none"} \cup ExitKeys]
  /\ raced \in [Wizards -> SUBSET TaskRecords] /\ lost \in [Wizards -> SUBSET TaskRecords]
  /\ writes \in [Wizards -> 0..2]

NoKeys == [window |-> "closed", timers |-> <<>>]

AddInit ==
  /\ config \in {[there |-> FALSE, loads |-> TRUE, tasks |-> {}]}
                  \cup {[there |-> TRUE, loads |-> l, tasks |-> {[id |-> 1, by |-> "editor"]}] : l \in BOOLEAN}
  /\ edits = 0
  /\ wizard = [w \in Wizards |-> [stage |-> "starting", back |-> "none", wait |-> "closed", aborted |-> FALSE]]
  /\ keys = [w \in Wizards |-> NoKeys]
  /\ save = [w \in Wizards |-> [bootstrap |-> FALSE, id |-> 1, text |-> {}]]
  /\ owed = {} /\ pressed = [w \in Wizards |-> "none"]
  /\ raced = [w \in Wizards |-> {}] /\ lost = [w \in Wizards |-> {}] /\ writes = [w \in Wizards |-> 0]

Stage(w) == wizard[w].stage
Prompting(w) == Stage(w) \in Prompts
Numbered(tasks) == {t.id : t \in tasks}
NextNumber ==
  LET free == Numbers \ Numbered(config.tasks) IN CHOOSE n \in free : \A m \in free : n <= m

\* Others have written these tasks while a save is under way.
RacedBy(tasks) == [w \in Wizards |-> IF Stage(w) \in Saving THEN raced[w] \cup tasks ELSE raced[w]]

-----------------------------------------------------------------------------
(* Prompts and waits.                                                      *)

\* Going on to a prompt opens it with no exit window; one that is opened after the
\* command signal aborted resolves as cancelled. The wait slot is closed.
GoesTo(w, stage) ==
  /\ wizard' = [wizard EXCEPT ![w].wait = "closed", ![w].back = "none",
                  ![w].stage = IF stage \in Prompts /\ wizard[w].aborted THEN "cancelled" ELSE stage]
  /\ keys' = [keys EXCEPT ![w] = NoKeys] /\ pressed' = [pressed EXCEPT ![w] = "none"]

BeginsWait(w, stage) ==
  /\ wizard' = [wizard EXCEPT ![w].stage = stage, ![w].wait = "open"]
  /\ keys' = [keys EXCEPT ![w] = NoKeys] /\ pressed' = [pressed EXCEPT ![w] = "none"]

Exits(w) == GoesTo(w, "cancelled") /\ owed' = owed \ {w}

\* The exit question: it answers an interrupt.
AsksExit(w, back) ==
  /\ wizard' = [wizard EXCEPT ![w].wait = "closed", ![w].stage = "exit", ![w].back = back]
  /\ keys' = [keys EXCEPT ![w] = NoKeys] /\ pressed' = [pressed EXCEPT ![w] = "none"]
  /\ owed' = owed \ {w}

\* Mutant: what a wait took is forgotten.
EndForgetting(w, then) ==
  IF wizard[w].aborted THEN Exits(w) ELSE GoesTo(w, then) /\ UNCHANGED owed

\* The end of runWait: the aborted signal before the interrupt the wait took.
EndRunWait(w, then) ==
  CASE wizard[w].aborted -> Exits(w)
    [] ~wizard[w].aborted /\ wizard[w].wait = "taken" -> AsksExit(w, then)
    [] OTHER -> GoesTo(w, then) /\ UNCHANGED owed

\* Escape or Ctrl-C at a prompt, which reads keys raw: the first press opens a
\* window, the second of the same key ends the prompt, and with it the wizard.
PressExitKey(w, k) ==
  IF keys[w].window = k
  THEN Exits(w)
  ELSE /\ keys' = [keys EXCEPT ![w] = [window |-> k, timers |-> <<k>>]]
       /\ pressed' = [pressed EXCEPT ![w] = k]
       /\ UNCHANGED <<wizard, owed>>

\* The oldest timer fires and closes whatever window is open.
WindowCloses(w) ==
  /\ keys[w].timers # <<>>
  /\ keys' = [keys EXCEPT ![w] = [window |-> "closed", timers |-> Tail(@.timers)]]
  /\ pressed' = [pressed EXCEPT ![w] = IF Len(keys[w].timers) = 1 THEN "none" ELSE @]
  /\ UNCHANGED <<config, edits, wizard, save, owed, raced, lost, writes>>

Press(w) ==
  /\ Prompting(w) /\ \E k \in ExitKeys : PressExitKey(w, k)
  /\ UNCHANGED <<config, edits, save, raced, lost, writes>>

\* A SIGINT is taken by the open wait, once, or aborts the command signal, which
\* cancels an open prompt. SIGTERM always aborts.
Abort(w) ==
  IF Prompting(w)
  THEN /\ wizard' = [wizard EXCEPT ![w].aborted = TRUE, ![w].stage = "cancelled"]
       /\ keys' = [keys EXCEPT ![w] = NoKeys] /\ pressed' = [pressed EXCEPT ![w] = "none"]
  ELSE wizard' = [wizard EXCEPT ![w].aborted = TRUE] /\ UNCHANGED <<keys, pressed>>

Signal(w) ==
  /\ Stage(w) \notin Results
  /\ \/ wizard[w].wait = "open" /\ wizard' = [wizard EXCEPT ![w].wait = "taken"] /\ UNCHANGED <<keys, pressed>>
     \/ wizard[w].wait # "open" /\ ~wizard[w].aborted /\ Abort(w)
  /\ owed' = IF Stage(w) \in Prompts THEN owed ELSE owed \cup {w}
  /\ UNCHANGED <<config, edits, save, raced, lost, writes>>

Terminate(w) ==
  /\ Stage(w) \notin Results /\ ~wizard[w].aborted
  /\ Abort(w)
  /\ UNCHANGED <<config, edits, save, owed, raced, lost, writes>>

-----------------------------------------------------------------------------
(* The interview, seen from its questions.                                 *)

\* Before the first question, or a wait when the issue was given as an option: the
\* configuration is read and the task's number derived from it. Without a file the
\* whole configuration is asked for, unless its directory is missing.
ReadConfig(w) ==
  /\ Stage(w) = "starting"
  /\ \/ /\ config.there => config.loads
        /\ save' = [save EXCEPT ![w].bootstrap = ~config.there,
                      ![w].id = NextNumber]
        /\ \/ GoesTo(w, "question") \/ BeginsWait(w, "waiting")
     \/ GoesTo(w, "failed") /\ UNCHANGED save
  /\ owed' = IF wizard'[w].stage \in Results THEN owed \ {w} ELSE owed
  /\ UNCHANGED <<config, edits, raced, lost, writes>>

\* An answer leads to another question, a wait, or the review.
AnswerQuestion(w) ==
  /\ Stage(w) = "question"
  /\ \/ \E next \in {"question", "save"} : GoesTo(w, next)
     \/ BeginsWait(w, "waiting")
  /\ UNCHANGED <<config, edits, save, owed, raced, lost, writes>>

\* A step succeeded or failed; what comes next is a question or another step.
EndWait(w) ==
  /\ Stage(w) = "waiting"
  /\ \/ EndRunWait(w, "question")
     \/ ~wizard[w].aborted /\ wizard[w].wait = "open" /\ BeginsWait(w, "waiting") /\ UNCHANGED owed
  /\ UNCHANGED <<config, edits, save, raced, lost, writes>>

\* Yes saves, No asks whether to exit.
AnswerSave(w) ==
  /\ Stage(w) = "save"
  /\ \/ BeginsWait(w, "find") /\ UNCHANGED owed
     \/ AsksExit(w, "save")
  /\ UNCHANGED <<config, edits, save, raced, lost, writes>>

AnswerExit(w) ==
  /\ Stage(w) = "exit"
  /\ \/ Exits(w)
     \/ GoesTo(w, wizard[w].back) /\ UNCHANGED owed
  /\ UNCHANGED <<config, edits, save, raced, lost, writes>>

-----------------------------------------------------------------------------
(* createTask.                                                             *)

SaveGoes(w, stage) == wizard' = [wizard EXCEPT ![w].stage = stage]

\* Mutant: the answers for a missing file are used although there is one now.
FindBootstrap(w) ==
  /\ Stage(w) = "find"
  /\ SaveGoes(w, CASE wizard[w].aborted -> "unwritten"
                   [] ~wizard[w].aborted /\ save[w].bootstrap -> "resolve"
                   [] ~wizard[w].aborted /\ ~save[w].bootstrap /\ config.there -> "read"
                   [] OTHER -> "unwritten")
  /\ save' = [save EXCEPT ![w].text = {}]
  /\ raced' = [raced EXCEPT ![w] = {}]
  /\ UNCHANGED <<config, edits, keys, owed, pressed, lost, writes>>

\* A file that is there now is what the task is added to, also when the whole
\* configuration was asked for.
FindConfig(w) ==
  /\ Stage(w) = "find"
  /\ SaveGoes(w, CASE wizard[w].aborted -> "unwritten"
                   [] ~wizard[w].aborted /\ config.there -> "read"
                   [] ~wizard[w].aborted /\ ~config.there /\ save[w].bootstrap -> "resolve"
                   [] OTHER -> "unwritten")
  /\ save' = [save EXCEPT ![w].text = {}]
  /\ raced' = [raced EXCEPT ![w] = {}]
  /\ UNCHANGED <<config, edits, keys, owed, pressed, lost, writes>>

ReadText(w) ==
  /\ Stage(w) = "read"
  /\ \/ /\ config.there /\ config.loads /\ SaveGoes(w, "resolve")
        /\ save' = [save EXCEPT ![w].text = config.tasks]
        /\ raced' = [raced EXCEPT ![w] = {}]
     \/ SaveGoes(w, "unwritten") /\ UNCHANGED <<save, raced>>
  /\ UNCHANGED <<config, edits, keys, owed, pressed, lost, writes>>

Candidate(w) == save[w].text \cup {[id |-> save[w].id, by |-> w]}

\* The base commit is pinned, the candidate rendered, parsed and resolved, all of
\* which may fail, as a number that is taken does; then the signal is looked at.
ResolveCandidate(w) ==
  /\ Stage(w) = "resolve"
  /\ \/ save[w].id \notin Numbered(save[w].text) /\ ~wizard[w].aborted /\ SaveGoes(w, "write")
     \/ SaveGoes(w, "unwritten")
  /\ UNCHANGED <<config, edits, keys, save, histories>>

\* The file is replaced at once, or is as it was.
ReplaceText(w) ==
  /\ Stage(w) = "write"
  /\ \/ /\ config' = [there |-> TRUE, loads |-> TRUE, tasks |-> Candidate(w)]
        /\ lost' = [lost EXCEPT ![w] = @ \cup (config.tasks \ Candidate(w))]
        /\ writes' = [writes EXCEPT ![w] = @ + 1]
        /\ raced' = [RacedBy(Candidate(w)) EXCEPT ![w] = raced[w]]
        /\ SaveGoes(w, "written")
     \/ SaveGoes(w, "unwritten") /\ UNCHANGED <<config, raced, lost, writes>>
  /\ UNCHANGED <<edits, keys, save, owed, pressed>>

\* What was written stands whatever the signal; a failure is reported and Save is
\* asked again with the same answers.
EndSave(w) ==
  /\ Stage(w) \in {"written", "unwritten"}
  /\ IF Stage(w) = "written"
     THEN GoesTo(w, "completed") /\ owed' = owed \ {w}
     ELSE EndRunWait(w, "save")
  /\ UNCHANGED <<config, edits, save, raced, lost, writes>>

-----------------------------------------------------------------------------
\* The operator's editor makes the file, adds a task to it, with the number a wizard
\* would give it, breaks or mends it.
Edit ==
  /\ edits < MaxEdits /\ edits' = edits + 1
  /\ \/ config' = [there |-> TRUE, loads |-> TRUE,
                    tasks |-> config.tasks \cup {[id |-> NextNumber, by |-> "editor"]}]
     \/ config.there /\ config' = [config EXCEPT !.loads = ~@]
  /\ raced' = RacedBy(config'.tasks)
  /\ UNCHANGED <<wizard, keys, save, owed, pressed, lost, writes>>

Question(w) ==
  Press(w) \/ WindowCloses(w) \/ AnswerQuestion(w) \/ AnswerSave(w) \/ AnswerExit(w)
SaveStep(w) == FindConfig(w) \/ ReadText(w) \/ ResolveCandidate(w) \/ ReplaceText(w) \/ EndSave(w)

AddNext ==
  \/ \E w \in Wizards :
       ReadConfig(w) \/ Question(w) \/ EndWait(w) \/ SaveStep(w) \/ Signal(w) \/ Terminate(w)
  \/ Edit

AddSpec == AddInit /\ [][AddNext]_addVars

-----------------------------------------------------------------------------
\* A write removes nothing but what another wrote after the file was read. A wizard
\* that says nothing was saved has written nothing, one that says its task was added
\* has written once, and the task is there unless such a race removed it. No two
\* tasks of a file that loads have one number.
ConfigKept ==
  /\ \A w \in Wizards :
       /\ lost[w] \subseteq raced[w]
       /\ Stage(w) \in {"cancelled", "failed"} => writes[w] = 0
       /\ Stage(w) = "completed" =>
            /\ writes[w] = 1
            /\ [id |-> save[w].id, by |-> w] \in config.tasks \cup UNION {lost[v] : v \in Wizards \ {w}}
  /\ config.loads => Cardinality(Numbered(config.tasks)) = Cardinality(config.tasks)

\* No prompt opens over an interrupt that was not answered, and an interrupt is never
\* dropped: the wizard ends, asks, or has saved. A key pressed a second time within
\* 800 ms of the first, and only then, ends the prompt.
InterruptsHonoured ==
  \A w \in Wizards :
    /\ Prompting(w) => w \notin owed /\ keys[w].window = (IF pressed[w] = "none" THEN "closed" ELSE pressed[w])
    /\ Stage(w) \in {"cancelled", "completed"} => w \notin owed
=============================================================================
