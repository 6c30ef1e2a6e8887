------------------------- MODULE MCExtensionPolling -------------------------
(***************************************************************************)
(* Small instances of ExtensionPolling.                                    *)
(***************************************************************************)
EXTENDS ExtensionPolling

CONSTANTS c1, c2, p1, p2
=============================================================================
