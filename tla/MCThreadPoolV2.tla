--------------------------- MODULE MCThreadPoolV2 ---------------------------
(***************************************************************************)
(* A small instance of ThreadPoolV2 for TLC: two tasks submitted by clients*)
(* and one or two submitted by the first of them.                          *)
(***************************************************************************)
EXTENDS ThreadPoolV2

CONSTANTS a, b

MCParent == [t \in Tasks |-> IF t \in {a, b} THEN None ELSE a]
=============================================================================
