---------------------------- MODULE MCQueryRuns ----------------------------
(***************************************************************************)
(* Small instances of QueryRuns: two interchangeable tabs, three runs of   *)
(* one or two statements and a history of two runs, so that a third run in *)
(* a tab evicts the first.                                                 *)
(***************************************************************************)
EXTENDS QueryRuns, TLC
CONSTANTS t1, t2

Symmetric == Permutations(Tab)
=============================================================================
