----------------------------- MODULE ProcessEnding -----------------------------
(***************************************************************************)
(* What runManagedProcess answers, as its callers tell the answers apart.  *)
(* "refused" and "aborted" are launch failures, "aborted" the one whose    *)
(* reason is "cancelled before launch".                                    *)
(***************************************************************************)
EXTENDS Naturals

Endings == [how : {"refused", "aborted"}, code : {"none"}]
           \cup [how : {"exited"}, code : {"0", "1", "signal"}]
           \cup [how : {"cancelled", "timed-out"}, code : {"0", "1", "signal"}]

Launched(end) == end.how \notin {"refused", "aborted"}
ExitedZero(end) == Launched(end) /\ end.how # "timed-out" /\ end.code = "0"

\* A model call's reading of an ending, before the exit status counts.
Settle(end) ==
  CASE end.how \in {"aborted", "cancelled"} -> "cancellation"
    [] end.how = "refused" -> "launch-failed"
    [] end.how = "timed-out" -> "timeout"
    [] OTHER -> "settled"

\* The model listing and the check that every tool is denied read their
\* capture only when all of it is there.
Captures == {"whole", "truncated", "incomplete"}

Listing(end, capture) ==
  CASE Settle(end) = "cancellation" -> "cancelled"
    [] Settle(end) = "timeout" -> "timed-out"
    [] Settle(end) = "launch-failed" \/ end.code # "0" \/ capture # "whole" -> "failed"
    [] OTHER -> "listed"

ToolDenial(end, capture, denies) ==
  CASE Listing(end, capture) = "cancelled" -> "cancelled"
    [] Listing(end, capture) \in {"timed-out", "failed"} -> "failed"
    [] OTHER -> IF denies THEN "denied" ELSE "not-shown"
=============================================================================
