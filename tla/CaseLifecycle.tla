---------------------------- MODULE CaseLifecycle ----------------------------
(***************************************************************************)
(* What the analysis queue promises the user of the API about one case: it *)
(* is accepted once, it is settled once, with its verdict and the rows of  *)
(* that verdict appearing together or with a failure, and a settled case   *)
(* changes no more until the user deletes it.                              *)
(***************************************************************************)
EXTENDS Sequences

CONSTANTS Case, Verdict

VARIABLES
  status,   \* what GET /cases/{id} reports
  shown     \* the result rows it lists

Init ==
  /\ status = [c \in Case |-> "absent"]
  /\ shown = [c \in Case |-> <<>>]

Accept(c) ==
  /\ status[c] = "absent"
  /\ status' = [status EXCEPT ![c] = "processing"]
  /\ UNCHANGED shown

Conclude(c) ==
  /\ status[c] = "processing"
  /\ \E v \in Verdict :
       /\ status' = [status EXCEPT ![c] = v]
       /\ shown' = [shown EXCEPT ![c] = <<v>>]

Fail(c) ==
  /\ status[c] = "processing"
  /\ status' = [status EXCEPT ![c] = "failed"]
  /\ UNCHANGED shown

Remove(c) ==
  /\ status[c] \notin {"absent", "deleted"}
  /\ status' = [status EXCEPT ![c] = "deleted"]
  /\ UNCHANGED shown

Settle(c) == Conclude(c) \/ Fail(c)

Next == \E c \in Case : Accept(c) \/ Settle(c) \/ Remove(c)

vars == <<status, shown>>

\* An accepted case is not left waiting for ever.
Spec == Init /\ [][Next]_vars /\ \A c \in Case : WF_vars(Settle(c))
=============================================================================
