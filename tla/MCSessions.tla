----------------------------- MODULE MCSessions -----------------------------
(***************************************************************************)
(* Small instances of Sessions: the keys of two accounts on one            *)
(* connection; a membership change revokes the key of the first.           *)
(***************************************************************************)
EXTENDS Sessions, TLC
CONSTANTS k1, k2, d1, s1, s2, s3, c1, c2, r1, r2

OneConn == [k \in Key |-> d1]
FirstAccount == {{k1}}

\* Ids and requests are interchangeable; the keys are not.
Symmetric == Permutations(Session) \cup Permutations(Cursor)
               \cup Permutations(Request)
=============================================================================
