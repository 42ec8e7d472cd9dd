-------------------------- MODULE MCEditorLayout --------------------------
(***************************************************************************)
(* A small instance of EditorLayout: two interchangeable tabs, each in any *)
(* of up to three panes, so that splits nest and panes disappear.          *)
(***************************************************************************)
EXTENDS EditorTree, TLC
CONSTANTS t1, t2

Symmetric == Permutations(Tab)
=============================================================================
