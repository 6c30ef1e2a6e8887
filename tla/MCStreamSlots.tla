---------------------------- MODULE MCStreamSlots ----------------------------
(***************************************************************************)
(* Small instances of StreamSlots: two API processes; s1 and s2 are served *)
(* by one of them, s3 by the other.                                        *)
(***************************************************************************)
EXTENDS StreamSlots

CONSTANTS s1, s2, s3, p1, p2

TwoHomes == [s \in Stream |-> IF s \in {s1, s2} THEN p1 ELSE p2]

OneAbandon == [f \in Fault |-> IF f = "abandon" THEN 1 ELSE 0]
=============================================================================
