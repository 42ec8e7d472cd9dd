------------------------------- MODULE MCJobs -------------------------------
(***************************************************************************)
(* Small instances of Jobs: a user's job j1 of higher priority and one     *)
(* attempt (an export) beside an internal singleton j2 (a schema sync), or *)
(* two syncs of one connection.                                            *)
(***************************************************************************)
EXTENDS Jobs
CONSTANTS j1, j2, k1, p1, p2, w0, w1

MixedKeyOf == [j \in Job |-> IF j = j1 THEN NoKey ELSE k1]
SharedKeyOf == [j \in Job |-> k1]
MixedPriority == [j \in Job |-> IF j = j1 THEN 2 ELSE 1]
SamePriority == [j \in Job |-> 1]
MixedMaxAttempts == [j \in Job |-> IF j = j1 THEN 1 ELSE 2]
TwoAttempts == [j \in Job |-> 2]
=============================================================================
