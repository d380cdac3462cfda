--------------------------- MODULE MCThreadPoolV1 ---------------------------
(***************************************************************************)
(* A small instance of ThreadPoolV1 for TLC: two tasks submitted by clients*)
(* and one or two submitted by the first of them.                          *)
(***************************************************************************)
EXTENDS ThreadPoolV1

CONSTANTS a, b

MCParent == [t \in Tasks |-> IF t \in {a, b} THEN None ELSE a]
=============================================================================
