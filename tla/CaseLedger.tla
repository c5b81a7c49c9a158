----------------------------- MODULE CaseLedger -----------------------------
(***************************************************************************)
(* What one benchmark run promises about its planned cases, with the case  *)
(* pipeline left out: at most Concurrency cases are open at once, none is  *)
(* opened once the run stopped scheduling, every case is settled exactly   *)
(* once, and the run closes only over settled cases, with an exit code     *)
(* that is 0 only when every case was recorded as a clean pass.            *)
(***************************************************************************)
EXTENDS Integers, FiniteSets

CONSTANTS
  Cases,        \* the planned cases
  Concurrency   \* how many may be open at once

Settled == {"clean", "recorded", "unsaved", "skipped"}
Codes   == {0, 1, 2, 130}

VARIABLES
  status,       \* where each case stands
  scheduling,   \* whether a case may still be opened
  code          \* -1 until the run closes, then its exit code

vars == <<status, scheduling, code>>

TypeOK ==
  /\ status \in [Cases -> {"planned", "open"} \cup Settled]
  /\ scheduling \in BOOLEAN
  /\ code \in Codes \cup {-1}

Init ==
  /\ status = [c \in Cases |-> "planned"]
  /\ scheduling = TRUE
  /\ code = -1

Open(c) ==
  /\ code = -1
  /\ scheduling
  /\ status[c] = "planned"
  /\ Cardinality({d \in Cases : status[d] = "open"}) < Concurrency
  /\ status' = [status EXCEPT ![c] = "open"]
  /\ UNCHANGED <<scheduling, code>>

Skip(c) ==
  /\ code = -1
  /\ ~scheduling
  /\ status[c] = "planned"
  /\ status' = [status EXCEPT ![c] = "skipped"]
  /\ UNCHANGED <<scheduling, code>>

\* A record that reached the disk, or one that did not: only the latter also
\* ends scheduling.
Settle(c) ==
  /\ code = -1
  /\ status[c] = "open"
  /\ \/ \E how \in {"clean", "recorded"} : status' = [status EXCEPT ![c] = how]
        /\ UNCHANGED scheduling
     \/ /\ status' = [status EXCEPT ![c] = "unsaved"]
        /\ scheduling' = FALSE
  /\ UNCHANGED code

StopScheduling ==
  /\ code = -1
  /\ scheduling' = FALSE
  /\ UNCHANGED <<status, code>>

\* A run refused before its first write opens no case at all, and one that is
\* interrupted may be given up with its cases where they stand.
Abandon ==
  /\ code = -1
  /\ \/ /\ \A c \in Cases : status[c] = "planned"
        /\ code' = 1
     \/ code' = 130
  /\ UNCHANGED <<status, scheduling>>

Close ==
  /\ code = -1
  /\ \A c \in Cases : status[c] \in Settled
  /\ code' \in Codes
  /\ code' = 0 => \A c \in Cases : status[c] = "clean"
  /\ UNCHANGED <<status, scheduling>>

Next ==
  \/ \E c \in Cases : Open(c) \/ Skip(c) \/ Settle(c)
  \/ StopScheduling
  \/ Abandon \/ Close

Spec == Init /\ [][Next]_vars
=============================================================================
