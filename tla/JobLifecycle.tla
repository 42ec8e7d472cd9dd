---------------------------- MODULE JobLifecycle ----------------------------
(***************************************************************************)
(* What the job framework promises about one job, without workers, leases  *)
(* or transactions: it is executed by at most one worker at a time, at     *)
(* most MaxAttempts times, only while it is running; an execution that     *)
(* dies leaves it running until it is reclaimed; it ends once.             *)
(***************************************************************************)
EXTENDS Integers

CONSTANTS Job, MaxAttempts

VARIABLES
  status,    \* status[j]
  attempts,  \* attempts[j]: executions begun
  asked,     \* jobs whose cancellation was asked for
  live       \* jobs being executed

vars == <<status, attempts, asked, live>>

Ended == {"succeeded", "failed", "cancelled"}

To(j, s) == status' = [status EXCEPT ![j] = s]
Retryable(j) == attempts[j] < MaxAttempts[j]

Init ==
  /\ status = [j \in Job |-> "absent"]
  /\ attempts = [j \in Job |-> 0]
  /\ asked = {} /\ live = {}

Submit(j) ==
  /\ status[j] = "absent" /\ To(j, "queued")
  /\ UNCHANGED <<attempts, asked, live>>

Begin(j) ==
  /\ status[j] = "queued" /\ j \notin live /\ Retryable(j) /\ To(j, "running")
  /\ attempts' = [attempts EXCEPT ![j] = @ + 1]
  /\ live' = live \cup {j}
  /\ UNCHANGED asked

\* The execution ends with a result, an error, or an agreed cancellation.
End(j) ==
  /\ j \in live /\ status[j] = "running"
  /\ \/ To(j, "succeeded") \/ To(j, "failed")
     \/ j \in asked /\ To(j, "cancelled")
     \/ Retryable(j) /\ To(j, "queued")
  /\ live' = live \ {j}
  /\ UNCHANGED <<attempts, asked>>

\* The execution dies, or its outcome is lost.
Die(S) ==
  /\ S # {} /\ S \subseteq live /\ live' = live \ S
  /\ UNCHANGED <<status, attempts, asked>>

\* The lease of a dead execution is over.
Reclaim(j) ==
  /\ status[j] = "running" /\ j \notin live
  /\ IF Retryable(j) THEN To(j, "queued") ELSE To(j, "failed")
  /\ UNCHANGED <<attempts, asked, live>>

\* Cancelling takes effect at once on a queued job and is a request to a
\* running one.
Cancel(S) ==
  /\ S # {} /\ \A j \in S : status[j] \in {"queued", "running"}
  /\ asked' = asked \cup S
  /\ status' = [j \in Job |->
       IF j \in S /\ status[j] = "queued" THEN "cancelled" ELSE status[j]]
  /\ UNCHANGED <<attempts, live>>

Prune(S) ==
  /\ S # {} /\ \A j \in S : status[j] \in Ended
  /\ status' = [j \in Job |-> IF j \in S THEN "pruned" ELSE status[j]]
  /\ attempts' = [j \in Job |-> IF j \in S THEN 0 ELSE attempts[j]]
  /\ asked' = asked \ S
  /\ UNCHANGED live

Next ==
  \/ \E j \in Job : Submit(j) \/ Begin(j) \/ End(j) \/ Reclaim(j)
  \/ \E S \in SUBSET Job : Die(S) \/ Cancel(S) \/ Prune(S)

Spec == Init /\ [][Next]_vars
=============================================================================
