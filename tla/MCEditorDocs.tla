---------------------------- MODULE MCEditorDocs ----------------------------
(***************************************************************************)
(* Small instances of EditorDocs.                                          *)
(***************************************************************************)
EXTENDS EditorDocs, TLC
CONSTANTS a, b

Symmetric == Permutations(Window)
=============================================================================
