------------------------------- MODULE SourcesMC -------------------------------
(***************************************************************************)
(* Seven components that handle what a run starts from, one per behaviour: *)
(* the workspace of a case, the managed clone of a repository, of tevu     *)
(* task add how it saves, what it asks and how it appends, the base of a   *)
(* task and its reference, and the probe of the commands that cases start. *)
(* They do not share state, and one run checks them all.                   *)
(***************************************************************************)
EXTENDS GitWorkspace, ManagedClone, TaskAdd, TaskInterview, ConfigDocument, TaskBase,
        CaseExecutables

VARIABLE component

Components == {"workspace", "clone", "saving", "interview", "document", "base", "probe"}
sourcesVars == <<component, workspaceVars, cloneVars, addVars, interviewVars, documentVars,
                 baseVars, probeVars>>

NoDocument ==
  /\ document = [text |-> <<ListHead("tasks"), Dash("t1"), Check("c1"), ListHead("repositories")>>, flow |-> {}]
  /\ addition = [source |-> FALSE, repository |-> FALSE]
  /\ appended = <<>> /\ outcome = "none"

\* The components at rest are in one state each.
SourcesInit ==
  /\ component \in Components
  /\ WorkspaceInit /\ (component # "workspace" => \A p \in Pointers : lfs[p] = "good")
  /\ CloneInit /\ (component # "clone" => place = "missing")
  /\ AddInit /\ (component # "saving" => ~config.there)
  /\ InterviewInit
  /\ component # "interview" => step = "settings" /\ settings.output = CHOOSE o \in Outputs : TRUE
  /\ IF component = "document" THEN DocumentInit ELSE NoDocument
  /\ BaseInit
  /\ component # "base" =>
       history = (CHOOSE g \in Histories : TRUE) /\ ~managed
  /\ ProbeInit

SourcesNext ==
  /\ \/ /\ component = "workspace" /\ WorkspaceNext
        /\ UNCHANGED <<cloneVars, addVars, interviewVars, documentVars, baseVars, probeVars>>
     \/ /\ component = "clone" /\ CloneNext
        /\ UNCHANGED <<workspaceVars, addVars, interviewVars, documentVars, baseVars, probeVars>>
     \/ /\ component = "saving" /\ AddNext
        /\ UNCHANGED <<workspaceVars, cloneVars, interviewVars, documentVars, baseVars, probeVars>>
     \/ /\ component = "interview" /\ InterviewNext
        /\ UNCHANGED <<workspaceVars, cloneVars, addVars, documentVars, baseVars, probeVars>>
     \/ /\ component = "document" /\ DocumentNext
        /\ UNCHANGED <<workspaceVars, cloneVars, addVars, interviewVars, baseVars, probeVars>>
     \/ /\ component = "base" /\ BaseNext
        /\ UNCHANGED <<workspaceVars, cloneVars, addVars, interviewVars, documentVars, probeVars>>
     \/ /\ component = "probe" /\ ProbeNext
        /\ UNCHANGED <<workspaceVars, cloneVars, addVars, interviewVars, documentVars, baseVars>>
  /\ UNCHANGED component

SourcesSpec == SourcesInit /\ [][SourcesNext]_sourcesVars

\* The type invariants of the seven.
SourcesTypeOK ==
  /\ component = "workspace" => WorkspaceTypeOK
  /\ component = "clone" => CloneTypeOK
  /\ component = "saving" => AddTypeOK
  /\ component = "interview" => InterviewTypeOK
  /\ component = "document" => DocumentTypeOK
  /\ component = "base" => BaseTypeOK
  /\ component = "probe" => ProbeTypeOK

\* A worktree: a directory that holds a pinned file and an ignored path, and a Git
\* LFS file the overlay makes a directory.
TreePaths == {"d", "d/f", "d/n", "g", "g/h"}
TreeOrder == <<"d", "d/f", "d/n", "g", "g/h">>
TreeLeading ==
  [p \in TreePaths |->
     CASE p \in {"d/f", "d/n"} -> <<"d">> [] p = "g/h" -> <<"g">> [] OTHER -> <<>>]
PinnedTree ==
  [p \in TreePaths |-> CASE p = "d" -> "dir" [] p \in {"d/f", "g"} -> "base" [] OTHER -> "absent"]
OverlayTree ==
  [p \in TreePaths |-> CASE p = "g" -> "dir" [] p = "g/h" -> "overlay" [] OTHER -> "absent"]

\* A command with tasks to run, and one whose base commits have to be fetched; the
\* base "gone" is not in the remote.
RevisionsOfBases == [c \in {"run", "check"} |-> IF c = "run" THEN {"main"} ELSE {"old", "gone"}]
RevisionsOfReferences == [c \in {"run", "check"} |-> IF c = "run" THEN {"fork"} ELSE {}]

\* Two local repositories with one name, and one on GitHub.
NamesOfPlaces == [p \in {"a", "b", "hub"} |-> IF p = "hub" THEN "hub" ELSE "work"]

\* Commits, each with its parents: a branch and a target that moves on, a branch that
\* takes from the target, one that is merged, and one with a root of its own.
CommitGraphs ==
  {<<<<>>, <<1>>, <<1>>, <<3>>, <<2, 4>>>>,
   <<<<>>, <<1>>, <<2>>, <<1, 3>>, <<3>>>>,
   <<<<>>, <<1>>, <<1>>, <<2, 3>>, <<3, 4>>>>,
   <<<<>>, <<>>, <<1>>, <<2>>, <<3, 4>>>>}

\* A shim that needs the operator's home, in an agent block, in the setup of a GitHub
\* entry and, with the home declared, in a check there; a command that needs a credential.
Command(x, names) == [executable |-> x, names |-> names]
ProbedConfig ==
  [agents |-> <<[name |-> "agent", executable |-> "shim", names |-> {}]>>,
   repositories |->
     <<[id |-> "work", github |-> FALSE, setup |-> <<Command("tool", {})>>],
       [id |-> "idle", github |-> FALSE, setup |-> <<Command("tool", {"token"})>>],
       [id |-> "hub", github |-> TRUE, setup |-> <<Command("relative", {}), Command("shim", {})>>]>>,
   tasks |->
     <<[repo |-> "work", checks |-> <<Command("tool", {}), Command("not plain", {})>>],
       [repo |-> "hub", checks |-> <<Command("shim", {"home"})>>]>>]
NeedsOfCommands == [x \in {"tool", "shim"} |-> IF x = "tool" THEN {"token"} ELSE {"path", "home"}]
=============================================================================
