---------------------------- MODULE ConfigDocument ----------------------------
(***************************************************************************)
(* The text of a configuration, and how tevu task add appends to it: a     *)
(* task is spliced into the block of `tasks`, and a repository into that   *)
(* of `repositories` when one was added; the result is parsed again before *)
(* it is written. A line is what it opens, and whether it is indented      *)
(* deeper than the dashes of its list.                                     *)
(***************************************************************************)
EXTENDS Integers, FiniteSets, SequencesExt, FiniteSetsExt

CONSTANTS
  MaxTaskLines, \* bound: lines below the first check of the last task
  MaxTrailing   \* bound: lines below the last repository

ASSUME DocumentAssumption == MaxTaskLines \in Nat /\ MaxTrailing \in Nat

VARIABLES
  document,  \* the text that is there, and which of its lists are in flow style
  addition,  \* what is appended: the task has a source, a repository comes with it
  appended,  \* the text that was put together, <<>> before
  outcome    \* "none", or what became of it

documentVars == <<document, addition, appended, outcome>>

ListNames == {"repositories", "tasks"}
TextOrders == {<<"repositories", "tasks">>, <<"tasks", "repositories">>}

\* The head of a list; the dash of an item; a check of a task, the first with the key
\* of its list; the key of the source; lines of no content.
TextLine(what, name, deep) == [what |-> what, name |-> name, deep |-> deep]
ListHead(l) == TextLine("head", l, FALSE)
Dash(id) == TextLine("dash", id, FALSE)
Check(id) == TextLine("check", id, TRUE)
SourceKey == TextLine("key", "source", TRUE)
FlushComment == TextLine("comment", "none", FALSE)
DeepComment == TextLine("comment", "none", TRUE)
Blank == TextLine("blank", "none", FALSE)
Contents == {"dash", "check", "key"}
HasContent(line) == line.what \in Contents

\* The lines of a text that are of one of these kinds.
OfKinds(t, kinds) ==
  LET upTo[n \in 0..Len(t)] ==
        IF n = 0 THEN <<>> ELSE upTo[n - 1] \o (IF t[n].what \in kinds THEN <<t[n]>> ELSE <<>>)
  IN  upTo[Len(t)]

SequencesUpTo(S, n) == UNION {[1..m -> S] : m \in 0..n}
BelowTask == SequencesUpTo({Check("c2"), SourceKey, FlushComment, DeepComment, Blank}, MaxTaskLines)
BelowRepository == SequencesUpTo({FlushComment, DeepComment, Blank}, MaxTrailing)
TextLists(tail, trailing) ==
  [tasks |-> <<ListHead("tasks"), Dash("t1"), Check("c1")>> \o tail,
   repositories |-> <<ListHead("repositories"), Dash("r1")>> \o trailing]

-----------------------------------------------------------------------------
(* What a text says (parseConfigText).                                     *)

HeadOf(t, l) == Min({i \in DOMAIN t : t[i] = ListHead(l)})

\* The last line before the next one of one of these kinds.
LastBefore(t, i, kinds) == Min({j \in i + 1..Len(t) : t[j].what \in kinds} \cup {Len(t) + 1}) - 1
EndOf(t, l) == LastBefore(t, HeadOf(t, l), {"head"})
Dashes(t, l) == {i \in HeadOf(t, l)..EndOf(t, l) : t[i].what = "dash"}
ItemAt(t, i) == OfKinds(SubSeq(t, i, LastBefore(t, i, {"dash", "head"})), Contents)
ItemsOf(t, l) ==
  LET dashes == Dashes(t, l)
      nth(k) == CHOOSE i \in dashes : Cardinality({j \in dashes : j <= i}) = k
  IN  [k \in 1..Cardinality(dashes) |-> ItemAt(t, nth(k))]

\* YAML takes no key twice in an item, nor an item of a list that ended.
WellFormed(item) ==
  /\ IsInjective(item)
  /\ \A i \in DOMAIN item : item[i] = Check("c2") => item[i - 1].what = "check"

\* The schema: identifiers differ, and a task has a check.
Parses(t) ==
  /\ \A l \in ListNames :
       LET items == ItemsOf(t, l)
       IN IsInjective([k \in DOMAIN items |-> items[k][1]]) /\ \A k \in DOMAIN items : WellFormed(items[k])
  /\ LET tasks == ItemsOf(t, "tasks")
     IN  \A k \in DOMAIN tasks : Check("c1") \in Range(tasks[k])

\* The one type invariant.
DocumentTypeOK ==
  /\ document.flow \subseteq ListNames /\ Parses(document.text)
  /\ addition \in [source : BOOLEAN, repository : BOOLEAN]
  /\ outcome \in {"none", "spliced", "refused", "accepted"}

\* The texts that were accepted when they were read.
DocumentInit ==
  /\ \E order \in TextOrders, tail \in BelowTask, trailing \in BelowRepository, flow \in SUBSET ListNames :
       LET lists == TextLists(tail, trailing)
       IN document = [text |-> lists[order[1]] \o lists[order[2]], flow |-> flow]
  /\ Parses(document.text)
  /\ addition \in [source : BOOLEAN, repository : BOOLEAN]
  /\ appended = <<>> /\ outcome = "none"

-----------------------------------------------------------------------------
(* appendToConfigText.                                                     *)

NewItem(l) ==
  IF l = "repositories" THEN <<Dash("r2")>>
  ELSE <<Dash("t2")>> \o (IF addition.source THEN <<SourceKey>> ELSE <<>>) \o <<Check("c1")>>

Extended == IF addition.repository THEN ListNames ELSE {"tasks"}

\* After the dash of the last item, up to a line that is not indented deeper than
\* the dashes: the end of the last line before it that is not blank.
InsertionOffset(t, l) ==
  LET dash == Max(Dashes(t, l))
      stops == {i \in dash + 1..Len(t) : t[i].what # "blank" /\ ~t[i].deep}
      stop == Min(stops \cup {Len(t) + 1})
  IN Max({i \in dash..stop - 1 : t[i].what # "blank"})

SplicedAt(t, offset, lines) == SubSeq(t, 1, offset) \o lines \o SubSeq(t, offset + 1, Len(t))

\* Mutant: the tasks come first, whatever the order of the lists in the text.
SpliceTasksFirst(t) ==
  LET withTask == SplicedAt(t, InsertionOffset(t, "tasks"), NewItem("tasks"))
  IN IF "repositories" \in Extended
     THEN SplicedAt(withTask, InsertionOffset(t, "repositories"), NewItem("repositories"))
     ELSE withTask

\* All offsets are those of the text as it was; the later insertion is made first.
SpliceItems(t) ==
  LET insert(result, l) == SplicedAt(result, InsertionOffset(t, l), NewItem(l))
      later == CHOOSE l \in Extended : \A m \in Extended : InsertionOffset(t, l) >= InsertionOffset(t, m)
      others == Extended \ {later}
  IN  IF others = {} THEN insert(t, later) ELSE insert(insert(t, later), CHOOSE l \in others : TRUE)

\* A list in flow style is refused, and so is a text that cannot be redacted.
AppendToConfigText ==
  /\ outcome = "none"
  /\ \/ /\ document.flow \cap Extended = {}
        /\ appended' = SpliceItems(document.text) /\ outcome' = "spliced"
     \/ outcome' = "refused" /\ UNCHANGED appended
  /\ UNCHANGED <<document, addition>>

ReparseCandidate ==
  /\ outcome = "spliced"
  /\ outcome' = IF Parses(appended) THEN "accepted" ELSE "refused"
  /\ UNCHANGED <<document, addition, appended>>

DocumentNext == AppendToConfigText \/ ReparseCandidate
DocumentSpec == DocumentInit /\ [][DocumentNext]_documentVars

-----------------------------------------------------------------------------
\* Nothing of the last item of a list comes after a comment that is not indented
\* deeper than its dash.
Undivided(t, l) == ~\E i \in InsertionOffset(t, l) + 1..EndOf(t, l) : HasContent(t[i])

\* What a text has between its items' content.
Remarks(t) == OfKinds(t, {"head", "comment", "blank"})

\* For a text whose last items are undivided: each list that was extended is what it
\* was and the new item, which stands before the blank lines and flush comments that
\* ended the list; the other list is what it was, no comment or blank line moves, and
\* the text is accepted.
DocumentKept ==
  LET t == document.text
  IN (appended # <<>> /\ \A l \in Extended : Undivided(t, l)) =>
       /\ Parses(appended)
       /\ \A l \in ListNames :
            ItemsOf(appended, l) = ItemsOf(t, l) \o (IF l \in Extended THEN <<NewItem(l)>> ELSE <<>>)
       /\ Remarks(appended) = Remarks(t)
       /\ \A l \in Extended :
            SubSeq(appended, Max(Dashes(appended, l)) + Len(NewItem(l)), EndOf(appended, l))
              = SubSeq(t, InsertionOffset(t, l) + 1, EndOf(t, l))

\* docs/reference/configuration.md says that task add leaves what is there as it
\* is: a text it accepts to write has the tasks and repositories it had.
EarlierItemsKept ==
  outcome = "accepted" => \A l \in ListNames : IsPrefix(ItemsOf(document.text, l), ItemsOf(appended, l))
=============================================================================
