----------------------------- MODULE TaskInterview -----------------------------
(***************************************************************************)
(* What tevu task add asks: the settings of a configuration that is not    *)
(* there yet, then one task. A step is a question, or a check behind a     *)
(* wait whose refusal asks again; a loop that keeps nothing of a refused   *)
(* answer is one step. What is answered is handed to createTask once. How  *)
(* a step is interrupted is the module TaskAdd.                            *)
(***************************************************************************)
EXTENDS Integers, FiniteSets

CONSTANTS
  LocalPlaces,   \* local repositories
  HubPlaces,     \* GitHub repositories, which have a managed clone
  CloneRootPlaces, \* local repositories that overlap the managed clones
  NameOf,        \* NameOf[p]: what the identifier of place p is derived from
  Outputs,       \* output directories; one may lie in a repository
  MaxEntries     \* bound: repositories in the configuration

Places == LocalPlaces \cup HubPlaces
\* A variable the operator's provider names, a key variable, a variable for Jira.
Names == {"V", "K", "J"}

ASSUME InterviewAssumption ==
  /\ IsFiniteSet(Places) /\ LocalPlaces \cap HubPlaces = {} /\ CloneRootPlaces \subseteq LocalPlaces
  /\ DOMAIN NameOf = Places
  /\ MaxEntries \in Nat \ {0}

VARIABLES
  step,          \* the question or check that is next
  settings,      \* output directory, repositories, Jira's variables, the criteria role
  block,         \* the agent block: provider copied, its key, the secret variables
  keyAnswer,     \* the recorded key variable of the provider
  round,         \* the model that is being checked: what for, and the candidate block
  task,          \* entry, whether it is new, the refused one, reference, base commit
  draft,         \* the drafted lists, and whether an exit is said to lose them
  checks,        \* the checks of both collections and the variables they name
  justified,     \* history: the names the accepted models declared
  passed         \* history: clones prepared, and the last inspection that succeeded

interviewVars == <<step, settings, block, keyAnswer, round, task, draft, checks, justified, passed>>

NoEntry == [id |-> <<"none", 0>>, place |-> "none"]
RepositoryEntries == [id : {NameOf[p] : p \in Places} \X (1..MaxEntries + 1), place : Places]
References == {"none", "commit", "pull-request"}
Purposes == {"first", "second", "grader", "criteria"}
Blocks == [provider : BOOLEAN, key : {""} \cup Names, secrets : SUBSET Names]
Bootstrapping == {"settings", "repositories", "placement", "change", "model", "access"}
Locating == {"source", "repository", "new placement", "clone", "reference", "base", "fetch", "inspect"}
Describing == {"texts", "criteria", "draft review", "acceptance", "done", "review"}
\* A drafted list and a collection of checks are the sets of the kinds in them.
Items == {"plain", "naming"}
Kinds == Items \cup {"required", "optional"}

\* The one type invariant.
InterviewTypeOK ==
  /\ step \in Bootstrapping \cup Locating \cup Describing
  /\ settings \in [output : Outputs, repositories : SUBSET RepositoryEntries,
                   jira : SUBSET Names, role : BOOLEAN]
  /\ block \in Blocks
  /\ keyAnswer \in {"unasked", ""} \cup Names
  /\ round \in [purpose : Purposes, candidate : Blocks, defined : BOOLEAN, asked : BOOLEAN]
  /\ task \in [entry : RepositoryEntries \cup {NoEntry}, new : BOOLEAN,
               refused : RepositoryEntries \cup {NoEntry}, reference : References, base : {"none", "hash", "name"}]
  /\ draft \in [acceptance : SUBSET Items, done : SUBSET Items, held : BOOLEAN]
  /\ checks \in [acceptance : SUBSET Kinds, done : SUBSET Kinds, names : SUBSET Names]
  /\ justified \subseteq Names
  /\ DOMAIN passed = {"clones", "inspection"} /\ passed.clones \subseteq HubPlaces

NoDraft == [acceptance |-> {}, done |-> {}, held |-> FALSE]
EmptyBlock == [provider |-> FALSE, key |-> "", secrets |-> {}]
NoRound == [purpose |-> "first", candidate |-> EmptyBlock, defined |-> FALSE, asked |-> FALSE]

\* A configuration that is there has an agent block and one repository.
InterviewInit ==
  /\ \/ /\ step = "settings"
        /\ \E o \in Outputs : settings = [output |-> o, repositories |-> {}, jira |-> {}, role |-> FALSE]
        /\ block = EmptyBlock /\ justified = {}
     \/ /\ step = "source"
        /\ \E o \in Outputs \ Places, p \in Places, jira \in SUBSET {"J"}, role \in BOOLEAN :
             settings = [output |-> o, repositories |-> {[id |-> <<NameOf[p], 1>>, place |-> p]},
                         jira |-> jira, role |-> role]
        /\ block = [EmptyBlock EXCEPT !.secrets = {"K"}] /\ justified = {"K"}
  /\ keyAnswer = "unasked" /\ round = NoRound
  /\ task = [entry |-> NoEntry, new |-> FALSE, refused |-> NoEntry, reference |-> "none", base |-> "none"]
  /\ draft = NoDraft
  /\ checks = [acceptance |-> {}, done |-> {}, names |-> {}]
  /\ passed = [clones |-> {}, inspection |-> <<>>]

\* The output directory overlaps a repository, or a local one the managed clones,
\* which matters once there is one. The operator has a directory for them: without
\* one the reader refuses every place of HubPlaces.
Clash(output, entries) ==
  LET places == {e.place : e \in entries}
  IN output \in places \/ (places \cap HubPlaces # {} /\ places \cap CloneRootPlaces # {})

\* An entry with an identifier derived from its place and free among the taken ones.
EntryAt(p, taken) ==
  LET free == {n \in 1..MaxEntries + 1 : <<NameOf[p], n>> \notin taken}
  IN [id |-> <<NameOf[p], CHOOSE n \in free : \A m \in free : n <= m>>, place |-> p]
Ids(entries) == {e.id : e \in entries}

-----------------------------------------------------------------------------
(* The settings of a new configuration.                                    *)

\* Directory, limits, agent command, variable names, and Jira's, which are others.
AskSettings ==
  /\ step = "settings" /\ step' = "repositories"
  /\ \E o \in Outputs, secrets \in SUBSET {"K"}, jira \in SUBSET {"V", "J"} :
       /\ settings' = [settings EXCEPT !.output = o, !.jira = jira \ secrets]
       /\ block' = [block EXCEPT !.secrets = secrets] /\ justified' = secrets
  /\ UNCHANGED <<keyAnswer, round, task, draft, checks, passed>>

InterviewRepository ==
  /\ step = "repositories" /\ Cardinality(settings.repositories) < MaxEntries
  /\ step' \in {"repositories", "placement"}
  /\ \E p \in Places :
       settings' = [settings EXCEPT !.repositories = @ \cup {EntryAt(p, Ids(@))}]
  /\ UNCHANGED <<block, keyAnswer, round, task, draft, checks, justified, passed>>

CheckPlacement ==
  /\ \/ step = "placement"
     \/ step = "repositories" /\ Cardinality(settings.repositories) = MaxEntries
  /\ step' = IF Clash(settings.output, settings.repositories) THEN "change" ELSE "model"
  /\ UNCHANGED <<settings, block, keyAnswer, round, task, draft, checks, justified, passed>>

ChangeAnswer ==
  /\ step = "change" /\ step' = "placement"
  /\ \/ \E o \in Outputs : settings' = [settings EXCEPT !.output = o]
     \/ \E e \in settings.repositories, p \in Places :
          LET others == settings.repositories \ {e}
          IN settings' = [settings EXCEPT !.repositories = others \cup {EntryAt(p, Ids(others))}]
  /\ UNCHANGED <<block, keyAnswer, round, task, draft, checks, justified, passed>>

\* A name for Jira is not declared; the reader refuses a provider that refers to it.
DeclareSecrets(candidate, names) ==
  [candidate EXCEPT !.secrets = @ \cup (names \ settings.jira)]

\* The candidate of a round. A definition of the operator's is copied with the
\* variables it names; a recorded key is declared, and is the key of a copied one.
CandidateWith(defined, names, key) ==
  LET copied == [block EXCEPT !.provider = @ \/ defined]
      named == DeclareSecrets(copied, names)
      keyed == IF defined THEN [named EXCEPT !.key = key] ELSE named
  IN IF key \in {"", "unasked"} THEN named ELSE DeclareSecrets(keyed, {key})

KeyAnswers == {""} \cup ({"K"} \ settings.jira)

\* The provider of a model answer is inspected; its key variable is asked for once.
InspectModel ==
  /\ step = "model" /\ step' = "access"
  /\ \E definition \in {"undefined", "known", "unknown"} :
       LET defined == definition # "undefined"
           names == IF definition = "known" THEN {"V"} ELSE {}
       IN /\ IF definition = "unknown" /\ keyAnswer = "unasked" THEN keyAnswer' \in KeyAnswers
                                                               ELSE UNCHANGED keyAnswer
          /\ round' = [round EXCEPT !.defined = defined,
                         !.candidate = CandidateWith(defined, names, keyAnswer')]
  /\ UNCHANGED <<settings, block, task, draft, checks, justified, passed>>

\* The grader and the criteria model are optional; the criteria one makes the role.
AfterModel(accepted) ==
  /\ round' = [NoRound EXCEPT !.purpose =
                 CASE round.purpose = "first" -> "second" [] round.purpose = "second" -> "grader"
                   [] OTHER -> "criteria"]
  /\ step' = IF round.purpose = "criteria" THEN "source" ELSE "model"
  /\ settings' = [settings EXCEPT !.role = accepted /\ round.purpose = "criteria"]

\* Mutant: the block is changed before the model is accepted.
RefuseKeeping ==
  /\ step' = "model" /\ round' = [NoRound EXCEPT !.purpose = round.purpose]
  /\ block' = round.candidate /\ UNCHANGED <<settings, keyAnswer, justified>>

\* A refused model leaves nothing in the block; the answer for its key is kept.
RefuseModel ==
  /\ step' = "model" /\ round' = [NoRound EXCEPT !.purpose = round.purpose]
  /\ UNCHANGED <<settings, block, keyAnswer, justified>>

AcceptModel ==
  /\ block' = round.candidate
  /\ justified' = justified \cup (round.candidate.secrets \ block.secrets)
  /\ AfterModel(TRUE) /\ UNCHANGED keyAnswer

\* The agent lists the model, or its check fails, or it is not listed: then it is
\* kept when an unset variable may be why, refused when the operator defines the
\* provider or a key was asked for, and checked again with another key otherwise.
CheckModel ==
  /\ step = "access"
  /\ \/ AcceptModel
     \/ RefuseModel
     \/ /\ ~round.defined /\ ~round.asked
        /\ keyAnswer' \in KeyAnswers
        /\ IF keyAnswer' = ""
           THEN step' = "model" /\ round' = [NoRound EXCEPT !.purpose = round.purpose]
           ELSE /\ step' = "access"
                /\ round' = [round EXCEPT !.asked = TRUE, !.candidate = CandidateWith(FALSE, {}, keyAnswer')]
        /\ UNCHANGED <<settings, block, justified>>
  /\ UNCHANGED <<task, draft, checks, passed>>

DeclineRole ==
  /\ step = "model" /\ round.purpose \in {"grader", "criteria"}
  /\ AfterModel(FALSE)
  /\ UNCHANGED <<block, keyAnswer, task, draft, checks, justified, passed>>

-----------------------------------------------------------------------------
(* The repository, the reference and the base commit of the task.          *)

\* Written by hand or imported: an import that fails is asked again. What was asked
\* for the models is over.
InterviewSource ==
  /\ step = "source" /\ step' = "repository"
  /\ keyAnswer' = "unasked" /\ round' = NoRound
  /\ UNCHANGED <<settings, block, task, draft, checks, justified, passed>>

AfterPlacement(e) == IF e.place \in HubPlaces THEN "clone" ELSE "reference"

\* A configured repository, a new one, or the new one that was refused before.
SelectRepository ==
  /\ step = "repository"
  /\ \/ \E e \in settings.repositories :
          task' = [task EXCEPT !.entry = e, !.new = FALSE] /\ step' = AfterPlacement(e)
     \/ \E e \in {EntryAt(p, Ids(settings.repositories)) : p \in Places} \cup ({task.refused} \ {NoEntry}) :
          task' = [task EXCEPT !.entry = e, !.new = TRUE] /\ step' = "new placement"
  /\ UNCHANGED <<settings, block, keyAnswer, round, draft, checks, justified, passed>>

CheckNewPlacement ==
  /\ step = "new placement"
  /\ IF Clash(settings.output, settings.repositories \cup {task.entry})
     THEN step' = "repository" /\ task' = [task EXCEPT !.refused = task.entry]
     ELSE step' = AfterPlacement(task.entry) /\ UNCHANGED task
  /\ UNCHANGED <<settings, block, keyAnswer, round, draft, checks, justified, passed>>

PrepareClone ==
  /\ step = "clone"
  /\ \/ step' = "reference" /\ passed' = [passed EXCEPT !.clones = @ \cup {task.entry.place}] /\ UNCHANGED task
     \/ /\ step' = "repository" /\ UNCHANGED passed
        /\ task' = IF task.new THEN [task EXCEPT !.refused = task.entry] ELSE task
  /\ UNCHANGED <<settings, block, keyAnswer, round, draft, checks, justified>>

\* None, or what resolved; a refusal asks again.
InterviewReference ==
  /\ step = "reference" /\ step' = "base"
  /\ \E r \in References : task' = [task EXCEPT !.reference = r, !.refused = NoEntry]
  /\ UNCHANGED <<settings, block, keyAnswer, round, draft, checks, justified, passed>>

AnswerBase ==
  /\ step = "base"
  /\ \E b \in {"hash", "name"} : task' = [task EXCEPT !.base = b]
  /\ step' = IF task.entry.place \in HubPlaces THEN "fetch" ELSE "inspect"
  /\ UNCHANGED <<settings, block, keyAnswer, round, draft, checks, justified, passed>>

\* The commit and its Git LFS objects are fetched. A hash that cannot be fetched is
\* kept for a pull request; anything else is asked again.
EnsureBaseCommit ==
  /\ step = "fetch"
  /\ step' \in {"base", "inspect"}
  /\ UNCHANGED <<settings, block, keyAnswer, round, task, draft, checks, justified, passed>>

\* inspectTaskBaseCommit says what the save will say.
InspectBaseCommit ==
  /\ step = "inspect"
  /\ \/ /\ step' = "texts"
        /\ passed' = [passed EXCEPT !.inspection = <<task.entry, task.base, task.reference>>]
     \/ step' = "base" /\ UNCHANGED passed
  /\ UNCHANGED <<settings, block, keyAnswer, round, task, draft, checks, justified>>

-----------------------------------------------------------------------------
(* The texts and the criteria.                                             *)

\* The number, the title, the description, the prompt, what was confirmed.
WriteTexts ==
  /\ step = "texts" /\ step' = "criteria"
  /\ UNCHANGED <<settings, block, keyAnswer, round, task, draft, checks, justified, passed>>

\* Without a reference or a role they are written by hand. A failed draft is asked
\* for again, or the criteria are written by hand after all.
DraftCriteria ==
  /\ step = "criteria"
  /\ \/ step' = "acceptance" /\ draft' = NoDraft
     \/ /\ task.reference # "none" /\ settings.role
        /\ \/ step' = "criteria" /\ draft' = NoDraft
           \/ /\ step' = "draft review"
              /\ \E a, d \in SUBSET Items : draft' = [acceptance |-> a, done |-> d, held |-> TRUE]
  /\ UNCHANGED <<settings, block, keyAnswer, round, task, checks, justified, passed>>

\* Items are rewritten, removed or added; one the operator writes does not name the
\* reference. Others of a removed one's kind may stay.
Revised(list) == {list \cup {"plain"}} \cup {list \ {i} : i \in list}

EditDraft ==
  /\ step = "draft review"
  /\ \/ \E list \in Revised(draft.acceptance) : draft' = [draft EXCEPT !.acceptance = list]
     \/ \E list \in Revised(draft.done) : draft' = [draft EXCEPT !.done = list]
  /\ UNCHANGED <<step, settings, block, keyAnswer, round, task, checks, justified, passed>>

Blocked == draft.acceptance = {} \/ "naming" \in draft.acceptance \cup draft.done

\* The items become the first checks.
AcceptDraft ==
  /\ step = "draft review" /\ ~Blocked
  /\ step' = "acceptance"
  /\ checks' = [checks EXCEPT !.acceptance = draft.acceptance, !.done = draft.done]
  /\ draft' = [NoDraft EXCEPT !.held = TRUE]
  /\ UNCHANGED <<settings, block, keyAnswer, round, task, justified, passed>>

WriteOwnCriteria ==
  /\ step = "draft review" /\ step' = "acceptance"
  /\ draft' = NoDraft
  /\ UNCHANGED <<settings, block, keyAnswer, round, task, checks, justified, passed>>

\* A drafted check is required.
HasRequired(list) == list \ {"optional"} # {}

\* A check is added; its variables are neither the agent's nor Jira's.
AddCheck(collection) ==
  /\ step = collection
  /\ \E kind \in {"required", "optional"}, n \in SUBSET (Names \ (block.secrets \cup settings.jira)) :
       checks' = [checks EXCEPT ![collection] = @ \cup {kind}, !.names = @ \cup n]
  /\ UNCHANGED <<step, settings, block, keyAnswer, round, task, draft, justified, passed>>

\* A collection ends once one of its checks is required.
EndChecks(collection, next) ==
  /\ step = collection /\ HasRequired(checks[collection])
  /\ step' = next
  /\ UNCHANGED <<settings, block, keyAnswer, round, task, draft, checks, justified, passed>>

Bootstrap ==
  AskSettings \/ InterviewRepository \/ CheckPlacement \/ ChangeAnswer
    \/ InspectModel \/ CheckModel \/ DeclineRole
Locate ==
  InterviewSource \/ SelectRepository \/ CheckNewPlacement \/ PrepareClone
    \/ InterviewReference \/ AnswerBase \/ EnsureBaseCommit \/ InspectBaseCommit
Describe ==
  WriteTexts \/ DraftCriteria \/ EditDraft \/ AcceptDraft \/ WriteOwnCriteria
    \/ AddCheck("acceptance") \/ AddCheck("done")
    \/ EndChecks("acceptance", "done") \/ EndChecks("done", "review")

InterviewNext == Bootstrap \/ Locate \/ Describe
InterviewSpec == InterviewInit /\ [][InterviewNext]_interviewVars

-----------------------------------------------------------------------------
\* Nothing unchecked reaches the draft or the review: the repositories do not
\* overlap and have identifiers of their own, the task's clone is there, its base commit was
\* inspected as it is; a refused model leaves nothing in the agent block, whose
\* variables are neither Jira's nor a check's; each collection has a required check,
\* and an exit is said to lose a draft as long as it does.
InterviewSound ==
  LET all == settings.repositories \cup (IF task.new THEN {task.entry} ELSE {})
  IN /\ step \in (Locating \cup Describing) \ {"source", "repository", "new placement"} =>
          ~Clash(settings.output, all) /\ Cardinality(Ids(all)) = Cardinality(all)
     /\ step \in Describing =>
          /\ passed.inspection = <<task.entry, task.base, task.reference>>
          /\ task.entry.place \in HubPlaces => task.entry.place \in passed.clones
     /\ block.secrets = justified /\ justified \cap (settings.jira \cup checks.names) = {}
     /\ block.key # "" => block.provider /\ block.key \in block.secrets
     /\ step = "review" =>
          /\ HasRequired(checks.acceptance) /\ HasRequired(checks.done)
          /\ draft.held <=> "plain" \in checks.acceptance
          /\ "naming" \notin checks.acceptance \cup checks.done
=============================================================================
