-------------------------------- MODULE TaskBase --------------------------------
(***************************************************************************)
(* The base commit of a task, from the reference solution it is derived    *)
(* from to the validation that compares the two: an agent that starts at   *)
(* the base must not find the solution in its history. The reference is a  *)
(* commit of the repository, or a pull request that GitHub lists page by   *)
(* page and that may move between two pages. What is compared is only what *)
(* the local repository holds at that time.                                *)
(***************************************************************************)
EXTENDS Integers, Sequences, FiniteSets

CONSTANTS
  NumCommits,  \* the commits are 1..NumCommits, parents before children
  Histories,   \* graphs of commits, each the parents of every commit in order
  Held,        \* a commit whose past the operator holds at first, or several to choose from
  Named,       \* the commits that the texts of a task may name
  ListLimit,   \* GitHub lists at most so many commits of a pull request
  MaxMoves     \* bound: changes of the pull request while it is read

Commits == 1..NumCommits
NoCommit == 0
Elements(s) == {s[i] : i \in DOMAIN s}

ASSUME TaskBaseAssumption ==
  /\ NumCommits \in Nat \ {0} /\ {ListLimit, MaxMoves} \subseteq Nat /\ Named \cup Held \subseteq Commits
  /\ \A g \in Histories : \A c \in Commits : g[c] \in Seq(1..(c - 1))

VARIABLES
  history,   \* the parents of each commit
  hub,       \* the pull request on GitHub, while it is read
  moves,
  managed,   \* whether the repository is a GitHub entry, with a managed clone
  local,     \* the commits in the operator's repository or the clone
  asking,    \* how far the task is
  page,      \* the first page of the pull request
  reference, \* the reference that is recorded
  proposed,  \* the base proposed for it
  warning,   \* what the wizard warns of with the proposal
  baseCommit, \* the base that is saved, a full hash
  named,     \* the commit that the texts of the task name, or none
  available, \* the recorded commits that validation found
  reported   \* the findings of validation

baseVars == <<history, hub, moves, managed, local, asking, page, reference, proposed,
              warning, baseCommit, named, available, reported>>

\* A commit and what precedes it.
Past(c) ==
  LET past[k \in Commits] ==
        {k} \cup UNION {past[p] : p \in Elements(history[k])}
  IN IF c = NoCommit THEN {} ELSE past[c]

\* git merge-base --is-ancestor.
IsAncestor(ancestor, descendant) == ancestor \in Past(descendant)

\* What GitHub lists: the commits of the head that the target did not hold. The list
\* of an open pull request follows its target; that of a closed one stays.
Listed(p) == Past(p.head) \ Past(p.since)

\* The pull requests GitHub can hold: a branch that moves on holds what it held, and
\* may be deleted.
Later(c) == {NoCommit} \cup {d \in Commits : IsAncestor(c, d)}
Mergeabilities == {"mergeable", "conflicting", "unknown"}

Unmerged ==
  UNION {[state : {"open"}, head : {c}, since : {d}, target : {d, NoCommit}, merge : {NoCommit},
          mergeability : Mergeabilities]
         \cup [state : {"closed"}, head : {c}, since : {d}, target : Later(d), merge : {NoCommit},
               mergeability : Mergeabilities] : c, d \in Commits}

Merged ==
  UNION {[state : {"merged"}, head : {c}, since : {d}, target : Later(m), merge : {m, NoCommit},
          mergeability : {"unknown"}] : c, d \in Commits, m \in Commits}

PullRequests ==
  {p \in Unmerged \cup Merged :
     /\ Listed(p) # {}
     /\ p.merge # NoCommit => p.merge # p.since /\ IsAncestor(p.since, p.merge)
     /\ p.target # NoCommit => IsAncestor(p.since, p.target)}

NoReference == [kind |-> "none", commits |-> {}, merge |-> NoCommit]
NoPage == [total |-> 0]
Unread == [state |-> "unread"]

Warnings == {"none", "conflicting", "closed", "mergeability-unknown", "target-deleted", "no-base"}
Errors == {"no-clone", "missing-base", "violation", "in-prompt"}
Notes == {"missing-references", "missing-merge"}

\* The one type invariant.
BaseTypeOK ==
  /\ history \in Histories /\ managed \in BOOLEAN /\ local \subseteq Commits /\ moves \in 0..MaxMoves
  /\ hub.state \in {"unread", "open", "closed", "merged"}
  /\ asking \in {"reference", "paging", "fetching", "base", "saved", "comparing", "done"}
  /\ reference.kind \in {"none", "commit", "pull-request"}
  /\ reference.commits \cup available \subseteq Commits /\ reference.merge \in Commits \cup {NoCommit}
  /\ proposed \in Commits \cup {NoCommit} /\ warning \in Warnings
  /\ baseCommit \in Commits \cup {NoCommit}
  /\ named \in Commits \cup {NoCommit} /\ reported \subseteq Errors \cup Notes

\* A repository holds the past of a commit it holds.
BaseInit ==
  /\ history \in Histories /\ hub = Unread /\ moves = 0
  /\ managed \in BOOLEAN
  /\ local \in {Past(c) : c \in Held}
  /\ asking = "reference" /\ page = NoPage /\ reference = NoReference
  /\ proposed = NoCommit /\ warning = "none" /\ baseCommit = NoCommit /\ named = NoCommit
  /\ available = {} /\ reported = {}

-----------------------------------------------------------------------------
(* The reference solution.                                                 *)

\* The first page holds one commit, the last page what is left, up to the limit.
FirstPage(list) == {c \in list : \A d \in list : c <= d}
LaterPage(list) ==
  {c \in list \ FirstPage(list) : Cardinality({d \in list : d < c}) < ListLimit}
Joined == page.commits \cup LaterPage(Listed(hub))

\* Mutant: the pages are joined as they come.
CollectCommitsAsRead == page.pr.head \in Joined

\* The pages join to a list only when neither the head nor the number of commits
\* changed between them, as many were listed as there are, and the head is one of them.
CollectCommits ==
  /\ hub.head = page.pr.head /\ Cardinality(Listed(hub)) = page.total
  /\ Cardinality(page.commits) + Cardinality(LaterPage(Listed(hub))) = page.total
  /\ page.pr.head \in Joined

\* Mutant: the parents of the commit listed first, whatever it is built on.
FirstCommitParentOfList(list) ==
  Elements(history[CHOOSE c \in list : \A d \in list : d <= c])

\* The parents of the commits none of whose parents is listed. There is a proposal
\* when they are one, and none of these commits is a root.
FirstCommitParent(list) ==
  LET firstCommits == {c \in list : Elements(history[c]) \cap list = {}}
  IN IF \E c \in firstCommits : history[c] = <<>> THEN {}
     ELSE UNION {Elements(history[c]) : c \in firstCommits}

\* Mutant: a merged pull request is treated as an open one.
ResolveProposedBaseOfAny(p, parents) ==
  IF p.target # NoCommit THEN [commit |-> p.target, warning |-> "none"]
  ELSE [commit |-> NoCommit, warning |-> "no-base"]

\* The ordered rules for the proposal.
ResolveProposedBase(p, parents) ==
  LET fromParent(w) ==
        IF Cardinality(parents) = 1
        THEN [commit |-> CHOOSE c \in parents : TRUE, warning |-> w]
        ELSE [commit |-> NoCommit, warning |-> "no-base"]
  IN CASE p.state = "merged" -> fromParent("none")
       [] p.state # "merged" /\ p.target = NoCommit -> fromParent("target-deleted")
       [] p.state # "merged" /\ p.target # NoCommit /\ p.mergeability = "conflicting" ->
            fromParent("conflicting")
       [] p.state # "merged" /\ p.target # NoCommit /\ p.mergeability = "unknown" ->
            [commit |-> p.target, warning |-> "mergeability-unknown"]
       [] OTHER ->
            [commit |-> p.target, warning |-> IF p.state = "closed" THEN "closed" ELSE "none"]

\* The first page fixes the state, the target and the merge commit.
ReadPullRequest ==
  /\ asking = "reference"
  /\ hub' \in PullRequests
  /\ page' = [pr |-> hub', total |-> Cardinality(Listed(hub')), commits |-> FirstPage(Listed(hub'))]
  /\ asking' = "paging"
  /\ UNCHANGED <<history, moves, managed, local, reference, proposed, warning, baseCommit, named,
                 available, reported>>

\* A pull request that changed is refused, and the answer asked for again.
RefusePullRequest ==
  /\ asking = "paging" /\ ~CollectCommits
  /\ asking' = "reference" /\ page' = NoPage /\ hub' = Unread
  /\ UNCHANGED <<history, moves, managed, local, reference, proposed, warning, baseCommit, named,
                 available, reported>>

\* The merge commit is recorded beside the commits it is not one of.
ResolvePullRequest ==
  /\ asking = "paging" /\ CollectCommits
  /\ LET pr == page.pr
         list == Joined
         proposal == ResolveProposedBase(pr, FirstCommitParent(list))
     IN /\ reference' = [kind |-> "pull-request", commits |-> list,
                         merge |-> IF pr.merge \in list THEN NoCommit ELSE pr.merge]
        /\ proposed' = proposal.commit /\ warning' = proposal.warning
  /\ page' = NoPage /\ hub' = Unread /\ asking' = IF managed THEN "fetching" ELSE "base"
  /\ UNCHANGED <<history, moves, managed, local, baseCommit, named, available, reported>>

\* A managed clone is asked for what it lacks; a failure is told and does not stop
\* the interview.
FetchPullRequestCommits ==
  /\ asking = "fetching"
  /\ LET wanted == reference.commits \cup ({reference.merge, proposed} \ {NoCommit})
     IN local' \in {local, local \cup UNION {Past(c) : c \in wanted}}
  /\ asking' = "base"
  /\ UNCHANGED <<history, hub, moves, managed, page, reference, proposed, warning, baseCommit, named,
                 available, reported>>

\* A commit is looked up, for a managed clone after a fetch; its first parent is
\* the proposal, and a root is refused.
ResolveCommit(c) ==
  /\ asking = "reference"
  /\ local' = IF managed THEN local \cup Past(c) ELSE local
  /\ c \in local' /\ history[c] # <<>>
  /\ reference' = [kind |-> "commit", commits |-> {c}, merge |-> NoCommit]
  /\ proposed' = history[c][1] /\ warning' = "none"
  /\ asking' = "base"
  /\ UNCHANGED <<history, hub, moves, managed, page, baseCommit, named, available, reported>>

\* The answer is pinned, or stays as typed when it is the full hash of a commit that
\* is not there yet and the reference is a pull request (resolveTaskBaseCommit).
ResolveTaskBaseCommit(c, present) ==
  c \in present \/ reference.kind = "pull-request"

\* The base is accepted or typed, for a managed clone after a fetch that may fail, and
\* the texts are written.
SettleBaseCommit(c, text) ==
  /\ asking = "base"
  /\ local' \in {local} \cup IF managed THEN {local \cup Past(c)} ELSE {}
  /\ ResolveTaskBaseCommit(c, local')
  /\ baseCommit' = c /\ named' = text
  /\ proposed' = NoCommit /\ warning' = "none"
  /\ asking' = "saved"
  /\ UNCHANGED <<history, hub, moves, managed, page, reference, available, reported>>

-----------------------------------------------------------------------------
(* Validation.                                                             *)

\* A text that names the base or a recorded commit.
InPrompt(list) == IF named \in list THEN {"in-prompt"} ELSE {}

RecordedCommits == reference.commits \cup ({reference.merge} \ {NoCommit})

\* A clone that is missing or somebody else's: no commit is looked up, and the texts
\* are compared all the same (collectGitHubCloneProblems).
ValidateWithoutClone ==
  /\ asking = "saved" /\ managed
  /\ reported' = {"no-clone"} \cup InPrompt(RecordedCommits)
  /\ asking' = "done"
  /\ UNCHANGED <<history, hub, moves, managed, local, page, reference, proposed, warning, baseCommit,
                 named, available>>

\* A base that is not there is an error, and so is one whose tree cannot be used.
RefuseTaskBase ==
  /\ asking = "saved"
  /\ reported' = {"missing-base"} \cup InPrompt(RecordedCommits)
                   \cup IF baseCommit \in local THEN {} ELSE InPrompt({baseCommit})
  /\ asking' = "done"
  /\ UNCHANGED <<history, hub, moves, managed, local, page, reference, proposed, warning, baseCommit,
                 named, available>>

\* Mutant: a base that cannot be compared yet is passed over.
ResolveTaskBaseForValidationLater ==
  /\ asking = "saved"
  /\ available' = RecordedCommits \cap local /\ reported' = InPrompt(RecordedCommits)
  /\ asking' = "comparing"
  /\ UNCHANGED <<history, hub, moves, managed, local, page, reference, proposed, warning, baseCommit, named>>

\* The base is pinned, and each recorded commit looked up; what is not there is
\* counted in a warning, a merge commit in one of its own.
ResolveTaskBaseForValidation ==
  /\ asking = "saved" /\ baseCommit \in local
  /\ available' = RecordedCommits \cap local
  /\ reported' = InPrompt(RecordedCommits \cup {baseCommit})
       \cup (IF RecordedCommits \subseteq local THEN {} ELSE {"missing-references"})
       \cup (IF reference.merge \in local \cup {NoCommit} THEN {} ELSE {"missing-merge"})
  /\ asking' = "comparing"
  /\ UNCHANGED <<history, hub, moves, managed, local, page, reference, proposed, warning, baseCommit, named>>

\* Mutant: the base is asked to precede a commit of the pull request.
ViolatesSwapped(c) ==
  \/ c = baseCommit
  \/ c \in reference.commits /\ reference.kind = "pull-request" /\ IsAncestor(baseCommit, c)
  \/ ~(c \in reference.commits /\ reference.kind = "pull-request") /\ ~IsAncestor(baseCommit, c)

\* A commit of a pull request must not be in the past of the base; a merge commit, and
\* the commit of a reference that is one, must follow it.
Violates(c) ==
  \/ c = baseCommit
  \/ c \in reference.commits /\ reference.kind = "pull-request" /\ IsAncestor(c, baseCommit)
  \/ ~(c \in reference.commits /\ reference.kind = "pull-request") /\ ~IsAncestor(baseCommit, c)

\* The commits are compared until one is violated or git cannot tell.
CollectReferenceCommitFindings ==
  /\ asking = "comparing"
  /\ \/ reported' = reported \cup IF \E c \in available : Violates(c) THEN {"violation"} ELSE {}
     \/ available # {} /\ reported' = reported \cup {"violation"}
  /\ asking' = "done"
  /\ UNCHANGED <<history, hub, moves, managed, local, page, reference, proposed, warning, baseCommit,
                 named, available>>

-----------------------------------------------------------------------------
(* What others do meanwhile.                                               *)

\* The pull request is pushed to, or its target moves on, while it is read.
MovePullRequest ==
  /\ asking = "paging" /\ hub.state = "open" /\ moves < MaxMoves /\ moves' = moves + 1
  /\ \/ \E c \in Commits : hub' = [hub EXCEPT !.head = c]
     \/ \E c \in Later(hub.since) \ {NoCommit} : hub' = [hub EXCEPT !.since = c, !.target = c]
  /\ hub' # hub
  /\ UNCHANGED <<history, managed, local, asking, page, reference, proposed, warning, baseCommit, named,
                 available, reported>>

\* The operator fetches.
Fetch ==
  /\ asking = "saved"
  /\ \E c \in Commits \ local : local' = local \cup Past(c)
  /\ UNCHANGED <<history, hub, moves, managed, asking, page, reference, proposed, warning, baseCommit,
                 named, available, reported>>

BaseNext ==
  \/ ReadPullRequest \/ RefusePullRequest \/ ResolvePullRequest \/ FetchPullRequestCommits
  \/ \E c \in Commits : ResolveCommit(c)
  \/ \E c \in Commits, text \in Named \cup {NoCommit} : SettleBaseCommit(c, text)
  \/ ValidateWithoutClone \/ RefuseTaskBase \/ ResolveTaskBaseForValidation
  \/ CollectReferenceCommitFindings
  \/ MovePullRequest \/ Fetch

BaseSpec == BaseInit /\ [][BaseNext]_baseVars

-----------------------------------------------------------------------------
\* An agent does not start at its own solution. A configuration that is found valid has
\* a base the repository holds, that holds no commit of the pull request and precedes
\* the merge commit or the commit of the reference, as far as these are there, and says
\* which are not; and no text of the task names one of them
\* (collectSourceFindings). A proposal that would be refused is never made without a
\* warning, and the commits of a pull request are recorded as GitHub listed them at one
\* time, although its target and its head may move while they are read
\* (resolveProposedBase, collectCommits).
BaseIsBeforeReference ==
  /\ reference.kind = "pull-request" =>
       \E c, d \in Commits : reference.commits = Past(c) \ Past(d)
  /\ asking = "done" /\ reported \cap Errors = {} =>
       /\ baseCommit \in local /\ named \notin RecordedCommits \cup {baseCommit}
       /\ \A c \in available :
            IF reference.kind = "pull-request" /\ c \in reference.commits
            THEN c \notin Past(baseCommit)
            ELSE c # baseCommit /\ baseCommit \in Past(c)
       /\ available # RecordedCommits => "missing-references" \in reported
  /\ proposed # NoCommit /\ warning \notin {"closed", "mergeability-unknown"} =>
       /\ \A c \in reference.commits :
            IF reference.kind = "pull-request" THEN c \notin Past(proposed) ELSE proposed \in Past(c)
       /\ proposed \notin RecordedCommits
       /\ reference.merge # NoCommit => proposed \in Past(reference.merge)
=============================================================================
