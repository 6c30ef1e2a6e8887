--------------------------- MODULE MCAnalysisQueue ---------------------------
(***************************************************************************)
(* Small instances of AnalysisQueue for TLC.  Two cases carry the same     *)
(* content, c1 uploaded and c2 named by URL, so that one can be answered   *)
(* from the other's cache entry; v1 has a signal and v0 has none.          *)
(***************************************************************************)
EXTENDS AnalysisQueue, TLC

CONSTANTS c1, c2, w1, w2, x1, v0, v1

OneContent == [c \in Case |-> x1]

\* Symmetry of the workers; the cases differ in kind.
Workers == Permutations({w1, w2})

\* The failures a run may inject, each at most so often.
AtMost(n, S) == [f \in Fault |-> IF f \in S THEN n ELSE 0]

NoFault == AtMost(0, {})
AnyFault == AtMost(2, Fault)
OnlyDelete == AtMost(1, {"delete"})
OnlySqlite == AtMost(1, {"sqlite"})
CrashDelete == AtMost(2, {"crash", "delete", "broker"})
=============================================================================
