---------------------------- MODULE MCAnalysisRuns ----------------------------
(***************************************************************************)
(* AnalysisQueue with a history variable: how many times a worker began    *)
(* each case.  Redelivery after a crash re-sends the same message, with    *)
(* the same `retries`, so the attempt number alone cannot tell.            *)
(***************************************************************************)
EXTENDS MCAnalysisQueue

VARIABLE runs   \* deliveries of each case so far

RunsInit == Init /\ runs = [c \in Case |-> 0]

\* This step delivers a message of the case to a worker.
Begins(c) == \E w \in Worker : wpc[w] = "idle" /\ wpc'[w] # "idle" /\ task'[w].case = c

RunsNext == Next /\ runs' = [c \in Case |-> runs[c] + IF Begins(c) THEN 1 ELSE 0]

RunsSpec == RunsInit /\ [][RunsNext]_<<vars, runs>>

\* A crash costs at most one more round of attempts: it can fall after a retry is
\* published and before the acknowledgement, and then both messages are run.
RunsPerCrash == \A c \in Case : runs[c] <= MaxAttempts * (1 + spent["crash"])
=============================================================================
