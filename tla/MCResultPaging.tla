--------------------------- MODULE MCResultPaging ---------------------------
(***************************************************************************)
(* Small instances of ResultPaging: pages of two rows of at most three     *)
(* bytes; tables that end within a page and at the end of one, and one     *)
(* with a row too large for the page it is met in.                         *)
(***************************************************************************)
EXTENDS ResultPaging

TwoThenOne == <<2, 1>>
MixedTables == {<<1>>, <<1, 4, 5, 6>>}
=============================================================================
