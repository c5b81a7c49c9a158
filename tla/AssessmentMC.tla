----------------------------- MODULE AssessmentMC -----------------------------
(* Small finished runs to check the commands of Assessment on.             *)
EXTENDS Assessment

\* One manual check, which shows no verdict until an operator gives one, and one
\* graded check, whose grade passed.
Names == {"manual", "graded"}
BothChecks == [c \in Cases |-> Names]
GradePassed == [c \in Cases |-> [k \in Names |-> IF k = "graded" THEN "passed" ELSE "pending"]]

\* The graded check alone.
OneName == {"graded"}
OneCheck == [c \in Cases |-> OneName]
OnePassed == [c \in Cases |-> [k \in OneName |-> "passed"]]

AllCompleted == [c \in Cases |-> "completed"]

OnCaseOne == [p \in Assessors |-> 1]
EveOnTheLast == [p \in Assessors |-> IF p = "eve" THEN NumCases ELSE 1]

\* Commands that assess the same case may overlap, or any two commands, or none.
OnOneCase == {<<p, q>> \in Assessors \X Assessors : Target[p] = Target[q]}
AnyTwo == Commands \X Commands
=============================================================================
