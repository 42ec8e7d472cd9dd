------------------------------ MODULE MCConsole ------------------------------
(***************************************************************************)
(* Console with every grant and every pair of a key and a call.            *)
(***************************************************************************)
EXTENDS Console
=============================================================================
