---------------------------- MODULE MCThreadPool ----------------------------
(***************************************************************************)
(* A small instance of ThreadPool for TLC: two tasks submitted by clients  *)
(* and one or two submitted by the first of them.                          *)
(***************************************************************************)
EXTENDS ThreadPool

CONSTANTS a, b

MCParent == [t \in Tasks |-> IF t \in {a, b} THEN None ELSE a]
=============================================================================
