-------------------------------- MODULE Jobs --------------------------------
(***************************************************************************)
(* The background job framework of internal/jobs: the job table            *)
(* (store.go), the in-process runners that claim and execute its rows      *)
(* (worker.go), and the callers that enqueue and cancel.                   *)
(*                                                                         *)
(* Every statement or transaction on the application database is one step. *)
(* Under PostgreSQL (Isolated = FALSE) a transaction that reads and then   *)
(* writes is two steps, since READ COMMITTED lets others commit between    *)
(* them; under SQLite (Isolated = TRUE) the pool holds one connection, so  *)
(* a transaction excludes everything else and is one step.                 *)
(*                                                                         *)
(* Time is abstract: a job's run_at is either past (due) or not, a claim   *)
(* either expired or not, and time may pass at any moment.                 *)
(***************************************************************************)
EXTENDS Integers, FiniteSets

CONSTANTS
  Job,            \* job ids (ULIDs, never reused)
  Key, KeyOf,     \* singleton keys; KeyOf[j] is the key of j, or NoKey
  NoKey,
  UserJob,        \* jobs of visibility "user": their owner may cancel them
  Registered,     \* jobs whose type has a handler in the registry
  Priority,       \* Priority[j], larger first
  MaxAttempts,    \* MaxAttempts[j] >= 1
  Pod,            \* API processes sharing the job table
  Slot, FirstSlot,\* worker indexes of one runner; FirstSlot is worker 0
  NoSlot, NoJob,
  CandidateLimit, \* rows ClaimDue looks at (5 in the code)
  Isolated,       \* BOOLEAN: see above
  Timely,         \* BOOLEAN: a live execution renews or settles in its lease
  Retention,      \* BOOLEAN: CompletedRetention > 0
  MaxFaults       \* bound on crashes, restarts and failed database calls

ASSUME JobsAssumption ==
  /\ KeyOf \in [Job -> Key \cup {NoKey}] /\ NoKey \notin Key
  /\ UserJob \subseteq Job /\ Registered \subseteq Job
  /\ Priority \in [Job -> Int]
  /\ MaxAttempts \in [Job -> Nat \ {0}]
  /\ FirstSlot \in Slot /\ NoSlot \notin Slot /\ NoJob \notin Job
  /\ CandidateLimit \in Nat \ {0} /\ MaxFaults \in Nat
  /\ Isolated \in BOOLEAN /\ Timely \in BOOLEAN /\ Retention \in BOOLEAN

VARIABLES
  row,       \* the jobs table
  exec,      \* exec[p][s]: what worker s of pod p is doing
  mode,      \* mode[p]: the runner of pod p
  stale,     \* stale[p]: <<job, attempts>> read by RecoverExpiredRunning
  cancelTx,  \* <<job, status>> read by a RequestCancelUserWorkspaceJob
  faults     \* faults so far

vars == <<row, exec, mode, stale, cancelTx, faults>>

Terminal == {"succeeded", "failed", "cancelled"}
Active == {"queued", "running"}
Status == {"absent", "pruned"} \cup Active \cup Terminal

\* Program counters of a worker between ClaimDue and the end of execute.
Executing == {"handle", "unknown", "check", "complete", "retry", "fail",
              "markcancelled"}
Mode == {"down", "starting", "up", "draining", "cancelled"}

Row == [status: Status, attempts: Nat, claimedBy: Slot \cup {NoSlot},
        expired: BOOLEAN, due: BOOLEAN, cancel: BOOLEAN]
Exec == [pc: {"stopped", "poll", "claim", "wait", "recover", "prune"}
               \cup Executing,
         job: Job \cup {NoJob}, tries: Nat, lost: BOOLEAN, cands: SUBSET Job]

NewRow == [status |-> "absent", attempts |-> 0, claimedBy |-> NoSlot,
           expired |-> FALSE, due |-> TRUE, cancel |-> FALSE]
Idle(pc) == [pc |-> pc, job |-> NoJob, tries |-> 0, lost |-> FALSE,
             cands |-> {}]

-----------------------------------------------------------------------------
(* The job table.                                                          *)

Exists(j) == row[j].status \notin {"absent", "pruned"}
IsActive(j) == row[j].status \in Active

\* The partial unique index idx_jobs_active_singleton would reject j active.
KeyTaken(j) ==
  /\ KeyOf[j] # NoKey
  /\ \E i \in Job \ {j} : KeyOf[i] = KeyOf[j] /\ IsActive(i)

\* As if attempts were counted when a job fails.
ClaimedUncounted(r, s) ==
  [r EXCEPT !.status = "running", !.claimedBy = s, !.expired = FALSE]
Claimed(r, s) == [r EXCEPT !.status = "running", !.attempts = @ + 1,
                           !.claimedBy = s, !.expired = FALSE]
Settled(r, status) == [r EXCEPT !.status = status, !.claimedBy = NoSlot,
                                !.expired = FALSE]
Requeued(r, due) == [Settled(r, "queued") EXCEPT !.due = due]

\* UPDATE jobs ... WHERE id = j: nothing happens when the row is gone.
Put(j, r) == row' = [row EXCEPT ![j] = IF Exists(j) THEN r ELSE @]

Due == {j \in Job : row[j].status = "queued" /\ row[j].due}

\* The first CandidateLimit rows of S in ORDER BY priority DESC (the order of
\* rows of one priority, by run_at and age, is left open).
IsTop(C, S) ==
  /\ C \subseteq S
  /\ Cardinality(C) =
       IF Cardinality(S) < CandidateLimit THEN Cardinality(S) ELSE CandidateLimit
  /\ \A j \in C, i \in S \ C : Priority[i] <= Priority[j]
First(j, C) == j \in C /\ \A i \in C : Priority[i] <= Priority[j]

-----------------------------------------------------------------------------
(* The workers.                                                            *)

SetExec(p, s, e) == exec' = [exec EXCEPT ![p][s] = e]
Goto(p, s, pc) == SetExec(p, s, [exec[p][s] EXCEPT !.pc = pc])

\* As if workerLoop looked at stop only in its second select.
LoopTopDeaf(p) == Idle(IF mode[p] # "cancelled" THEN "poll" ELSE "stopped")

\* Back at the top of workerLoop, where stop and ctx are looked at.
LoopTop(p) == Idle(IF mode[p] = "up" THEN "poll" ELSE "stopped")

\* Worker s of p executes j (an execution is claimed, running or settling).
Holds(p, s, j) == exec[p][s].pc \in Executing /\ exec[p][s].job = j
CtxDone(p, s) == exec[p][s].lost \/ mode[p] = "cancelled"

\* The name a claim is made under is "api-<index>": the pod is not part of it.
OwnClaim(p, s) == row[exec[p][s].job].claimedBy = s

Init ==
  /\ row = [j \in Job |-> NewRow]
  /\ exec = [p \in Pod |-> [s \in Slot |-> Idle("stopped")]]
  /\ mode = [p \in Pod |-> "down"]
  /\ stale = [p \in Pod |-> {}]
  /\ cancelTx = {}
  /\ faults = 0

Start(j) == IF j \in Registered THEN "handle" ELSE "unknown"

Claim(p, s, j) ==
  /\ Put(j, Claimed(row[j], s))
  /\ SetExec(p, s, [pc |-> Start(j), job |-> j, tries |-> row[j].attempts + 1,
                    lost |-> FALSE, cands |-> {}])

\* ClaimDue as one step (SQLite).
ClaimAtomic(p, s) ==
  /\ Isolated /\ exec[p][s].pc = "poll" /\ mode[p] \in {"up", "draining"}
  /\ \E j \in Job : First(j, Due) /\ Claim(p, s, j)
  /\ UNCHANGED <<mode, stale, cancelTx, faults>>

\* ClaimDue's SELECT of the candidates (PostgreSQL).
ClaimSelect(p, s) ==
  /\ ~Isolated /\ exec[p][s].pc = "poll" /\ mode[p] \in {"up", "draining"}
  /\ Due # {}
  /\ \E C \in SUBSET Due :
       /\ IsTop(C, Due)
       /\ SetExec(p, s, [Idle("claim") EXCEPT !.cands = C])
  /\ UNCHANGED <<row, mode, stale, cancelTx, faults>>

\* ClaimDue's UPDATE ... WHERE id = j AND status = 'queued': when it touches no
\* row the next candidate is tried.
ClaimTry(p, s) ==
  /\ exec[p][s].pc = "claim" /\ mode[p] # "cancelled"
  /\ \E j \in exec[p][s].cands :
       /\ First(j, exec[p][s].cands)
       /\ \/ row[j].status = "queued" /\ Claim(p, s, j)
          \/ /\ row[j].status # "queued"
             /\ SetExec(p, s,
                  IF exec[p][s].cands = {j} THEN Idle("wait")
                  ELSE [exec[p][s] EXCEPT !.cands = @ \ {j}])
             /\ UNCHANGED row
  /\ UNCHANGED <<mode, stale, cancelTx, faults>>

ClaimNone(p, s) ==
  /\ exec[p][s].pc = "poll" /\ mode[p] \in {"up", "draining"}
  /\ Due = {}
  /\ SetExec(p, s, Idle("wait"))
  /\ UNCHANGED <<row, mode, stale, cancelTx, faults>>

\* The poll ticker fires in the second select.
Tick(p, s) ==
  /\ exec[p][s].pc = "wait"
  /\ SetExec(p, s, LoopTop(p))
  /\ UNCHANGED <<row, mode, stale, cancelTx, faults>>

\* The second select sees stop or ctx.Done, or a claim fails on a dead ctx.
WorkerStops(p, s) ==
  /\ \/ exec[p][s].pc = "wait" /\ mode[p] \in {"draining", "cancelled"}
     \/ exec[p][s].pc \in {"poll", "claim"} /\ mode[p] = "cancelled"
  /\ SetExec(p, s, Idle("stopped"))
  /\ UNCHANGED <<row, mode, stale, cancelTx, faults>>

\* One tick of heartbeat that extends the lease.
HeartbeatRenews(p, s) ==
  LET j == exec[p][s].job IN
  /\ exec[p][s].pc = "handle" /\ ~CtxDone(p, s)
  /\ OwnClaim(p, s) /\ ~row[j].cancel
  /\ row[j].status = "running" /\ row[j].expired
  /\ row' = [row EXCEPT ![j].expired = FALSE]
  /\ UNCHANGED <<exec, mode, stale, cancelTx, faults>>

\* One tick of heartbeat that finds the claim gone, or a cancel request, and
\* cancels the handler's context.
HeartbeatCancels(p, s) ==
  LET j == exec[p][s].job IN
  /\ exec[p][s].pc = "handle" /\ ~CtxDone(p, s)
  /\ ~OwnClaim(p, s) \/ row[j].cancel
  /\ SetExec(p, s, [exec[p][s] EXCEPT !.lost = TRUE])
  /\ UNCHANGED <<row, mode, stale, cancelTx, faults>>

\* The handler returns: its result, a retryable or a permanent error, or a
\* context error (of its own context, or of a deadline of its own).
HandlerReturns(p, s) ==
  /\ exec[p][s].pc = "handle"
  /\ \E pc \in {"complete", "retry", "fail", "check"} :
       Goto(p, s, pc)
  /\ UNCHANGED <<row, mode, stale, cancelTx, faults>>

\* As if a claim found lost were a cancellation.
CheckCancelLost(p, s) ==
  /\ exec[p][s].pc = "check"
  /\ Goto(p, s, IF ~OwnClaim(p, s) \/ row[exec[p][s].job].cancel
                  THEN "markcancelled" ELSE "fail")
  /\ UNCHANGED <<row, mode, stale, cancelTx, faults>>

\* After a context error, Store.Heartbeat once more: a cancelled job that is
\* still ours is marked cancelled, any other context error fails the job.
CheckCancel(p, s) ==
  LET j == exec[p][s].job
      cancelled == OwnClaim(p, s) /\ row[j].cancel IN
  /\ exec[p][s].pc = "check"
  /\ Goto(p, s, IF cancelled THEN "markcancelled" ELSE "fail")
  /\ row' = IF OwnClaim(p, s) /\ ~cancelled /\ row[j].status = "running"
              THEN [row EXCEPT ![j].expired = FALSE] ELSE row
  /\ UNCHANGED <<mode, stale, cancelTx, faults>>

\* Complete, MarkCancelled and the failing half of FailOrRetry: an UPDATE by id
\* alone, whoever holds the claim and whatever the status is.
Settle(p, s) ==
  LET j == exec[p][s].job
      pc == exec[p][s].pc IN
  /\ \/ pc = "complete" /\ Put(j, Settled(row[j], "succeeded"))
     \/ pc = "markcancelled" /\ Put(j, Settled(row[j], "cancelled"))
     \/ /\ pc = "fail" \/ (pc = "retry" /\ exec[p][s].tries >= MaxAttempts[j])
        /\ Put(j, Settled(row[j], "failed"))
     \/ /\ pc = "unknown" \* written with the runner's own context
        /\ IF mode[p] = "cancelled" THEN UNCHANGED row
           ELSE Put(j, Settled(row[j], "failed"))
  /\ SetExec(p, s, LoopTop(p))
  /\ UNCHANGED <<mode, stale, cancelTx, faults>>

\* As if every retryable error were retried, and the index did not exist.
RetryAlways(p, s) ==
  /\ exec[p][s].pc = "retry"
  /\ Put(exec[p][s].job, Requeued(row[exec[p][s].job], FALSE))
  /\ SetExec(p, s, LoopTop(p))
  /\ UNCHANGED <<mode, stale, cancelTx, faults>>

\* FailOrRetry with attempts left, counted in the copy the worker claimed. The
\* singleton index may reject the row, and then nothing is written.
Retry(p, s) ==
  LET j == exec[p][s].job IN
  /\ exec[p][s].pc = "retry" /\ exec[p][s].tries < MaxAttempts[j]
  /\ IF KeyTaken(j) THEN UNCHANGED row ELSE Put(j, Requeued(row[j], FALSE))
  /\ SetExec(p, s, LoopTop(p))
  /\ UNCHANGED <<mode, stale, cancelTx, faults>>

-----------------------------------------------------------------------------
(* Recovery of expired claims and pruning of old rows, by worker 0.        *)

\* As if recovery took every running job, or left those without attempts.
ExpiredAny ==
  {<<j, row[j].attempts>> : j \in {i \in Job : row[i].status = "running"}}
ExpiredRetryable ==
  {<<j, row[j].attempts>> : j \in {i \in Job :
     row[i].status = "running" /\ row[i].expired
     /\ row[i].attempts < MaxAttempts[i]}}

Expired == {<<j, row[j].attempts>> : j \in
             {i \in Job : row[i].status = "running" /\ row[i].expired}}

RecoverTick(p) ==
  /\ exec[p][FirstSlot].pc = "wait" /\ mode[p] # "cancelled"
  /\ Expired # {}
  /\ stale' = [stale EXCEPT ![p] = Expired]
  /\ SetExec(p, FirstSlot, Idle("recover"))
  /\ UNCHANGED <<row, mode, cancelTx, faults>>

Recovering(p) == mode[p] = "starting" \/ exec[p][FirstSlot].pc = "recover"

\* As if recovery granted one attempt too many.
RecoverRowOnceMore(p) ==
  /\ Recovering(p) /\ mode[p] # "cancelled"
  /\ \E je \in stale[p] :
       /\ stale' = [stale EXCEPT ![p] = @ \ {je}]
       /\ row' = IF row[je[1]].status # "running" THEN row
                 ELSE [row EXCEPT ![je[1]] = IF je[2] <= MaxAttempts[je[1]]
                                               THEN Requeued(row[je[1]], TRUE)
                                               ELSE Settled(row[je[1]], "failed")]
  /\ UNCHANGED <<exec, mode, cancelTx, faults>>

\* One UPDATE ... WHERE id = j AND status = 'running'; attempts left are
\* counted in the row as it was selected.
RecoverRow(p) ==
  /\ Recovering(p) /\ mode[p] # "cancelled"
  /\ \E je \in stale[p] :
       LET j == je[1] IN
       /\ stale' = [stale EXCEPT ![p] = @ \ {je}]
       /\ row' = IF row[j].status # "running" THEN row
                 ELSE [row EXCEPT ![j] = IF je[2] < MaxAttempts[j]
                                           THEN Requeued(row[j], TRUE)
                                           ELSE Settled(row[j], "failed")]
  /\ UNCHANGED <<exec, mode, cancelTx, faults>>

\* RecoverExpiredRunning returns: all rows done, or ctx is dead. The workers of
\* a starting runner start; worker 0 otherwise goes back to its loop.
RecoverDone(p) ==
  /\ Recovering(p)
  /\ stale[p] = {} \/ mode[p] = "cancelled"
  /\ stale' = [stale EXCEPT ![p] = {}]
  /\ IF mode[p] = "starting"
       THEN /\ mode' = [mode EXCEPT ![p] = "up"]
            /\ exec' = [exec EXCEPT ![p] = [s \in Slot |-> Idle("poll")]]
       ELSE SetExec(p, FirstSlot, LoopTop(p)) /\ UNCHANGED mode
  /\ UNCHANGED <<row, cancelTx, faults>>

\* As if PruneCompleted took every row that is not running.
PruneSelectIdle(p) ==
  /\ Retention /\ exec[p][FirstSlot].pc = "wait" /\ mode[p] # "cancelled"
  /\ \E C \in SUBSET {j \in Job : Exists(j) /\ row[j].status # "running"} :
       C # {} /\ SetExec(p, FirstSlot, [Idle("prune") EXCEPT !.cands = C])
  /\ UNCHANGED <<row, mode, stale, cancelTx, faults>>

\* PruneCompleted selects rows past the retention, then deletes them by id.
PruneSelect(p) ==
  /\ Retention /\ exec[p][FirstSlot].pc = "wait" /\ mode[p] # "cancelled"
  /\ \E C \in SUBSET {j \in Job : row[j].status \in Terminal} :
       C # {} /\ SetExec(p, FirstSlot, [Idle("prune") EXCEPT !.cands = C])
  /\ UNCHANGED <<row, mode, stale, cancelTx, faults>>

PruneDelete(p) ==
  /\ exec[p][FirstSlot].pc = "prune"
  /\ row' = [j \in Job |->
       IF j \in exec[p][FirstSlot].cands /\ mode[p] # "cancelled"
         THEN [NewRow EXCEPT !.status = "pruned"] ELSE row[j]]
  /\ SetExec(p, FirstSlot, LoopTop(p))
  /\ UNCHANGED <<mode, stale, cancelTx, faults>>

-----------------------------------------------------------------------------
(* The runner: start, drain (worker settings changed), shut down, crash.   *)

StartRunner(p) ==
  /\ mode[p] = "down"
  /\ mode' = [mode EXCEPT ![p] = "starting"]
  /\ stale' = [stale EXCEPT ![p] = Expired]
  /\ UNCHANGED <<row, exec, cancelTx, faults>>

Fault == faults < MaxFaults /\ faults' = faults + 1

Drain(p) ==
  /\ Fault /\ mode[p] = "up"
  /\ mode' = [mode EXCEPT ![p] = "draining"]
  /\ UNCHANGED <<row, exec, stale, cancelTx>>

ShutDown(p) ==
  /\ Fault /\ mode[p] \in {"starting", "up", "draining"}
  /\ mode' = [mode EXCEPT ![p] = "cancelled"]
  /\ stale' = [stale EXCEPT ![p] = IF mode[p] = "starting" THEN {} ELSE @]
  /\ UNCHANGED <<row, exec, cancelTx>>

RunnerExits(p) ==
  /\ mode[p] \in {"draining", "cancelled"}
  /\ \A s \in Slot : exec[p][s].pc = "stopped"
  /\ mode' = [mode EXCEPT ![p] = "down"]
  /\ UNCHANGED <<row, exec, stale, cancelTx, faults>>

Crash(p) ==
  /\ Fault /\ mode[p] # "down"
  /\ mode' = [mode EXCEPT ![p] = "down"]
  /\ exec' = [exec EXCEPT ![p] = [s \in Slot |-> Idle("stopped")]]
  /\ stale' = [stale EXCEPT ![p] = {}]
  /\ UNCHANGED <<row, cancelTx>>

\* A database call fails. A failed claim waits for the next tick, a failed
\* settling UPDATE is logged and dropped.
ClaimFails(p, s) ==
  /\ Fault /\ exec[p][s].pc \in {"poll", "claim"}
  /\ SetExec(p, s, Idle("wait"))
  /\ UNCHANGED <<row, mode, stale, cancelTx>>

SettleFails(p, s) ==
  /\ Fault /\ exec[p][s].pc \in Executing \ {"handle", "check"}
  /\ SetExec(p, s, LoopTop(p))
  /\ UNCHANGED <<row, mode, stale, cancelTx>>

\* A failed cancellation check counts as "not cancelled"; recovery gives up the
\* rest of its rows.
CheckFails(p, s) ==
  /\ Fault /\ exec[p][s].pc = "check"
  /\ Goto(p, s, "fail")
  /\ UNCHANGED <<row, mode, stale, cancelTx>>

RecoverFails(p) ==
  /\ Fault /\ Recovering(p) /\ stale[p] # {}
  /\ stale' = [stale EXCEPT ![p] = {}]
  /\ UNCHANGED <<row, exec, mode, cancelTx>>

-----------------------------------------------------------------------------
(* The callers and the clock.                                              *)

Enqueue(j) ==
  /\ row[j].status = "absent" /\ ~KeyTaken(j)
  /\ row' = [row EXCEPT ![j].status = "queued"]
  /\ UNCHANGED <<exec, mode, stale, cancelTx, faults>>

\* The UPDATE of RequestCancelUserWorkspaceJob, for the status it has read.
CancelWrite(j, seen) ==
  Put(j, IF seen = "queued"
           THEN [row[j] EXCEPT !.status = "cancelled", !.cancel = TRUE]
           ELSE [row[j] EXCEPT !.cancel = TRUE])

\* As if the switch on the job's status were missing.
CancelAnyStatus(j) ==
  /\ Isolated /\ j \in UserJob /\ Exists(j)
  /\ CancelWrite(j, "queued")
  /\ UNCHANGED <<exec, mode, stale, cancelTx, faults>>

CancelAtomic(j) ==
  /\ Isolated /\ j \in UserJob /\ IsActive(j)
  /\ CancelWrite(j, row[j].status)
  /\ UNCHANGED <<exec, mode, stale, cancelTx, faults>>

CancelSelect(j) ==
  /\ ~Isolated /\ j \in UserJob /\ IsActive(j)
  /\ row[j].status = "queued" \/ ~row[j].cancel  \* else nothing is written
  /\ \A c \in cancelTx : c[1] # j
  /\ cancelTx' = cancelTx \cup {<<j, row[j].status>>}
  /\ UNCHANGED <<row, exec, mode, stale, faults>>

CancelUpdate ==
  /\ \E c \in cancelTx :
       /\ CancelWrite(c[1], c[2])
       /\ cancelTx' = cancelTx \ {c}
  /\ UNCHANGED <<exec, mode, stale, faults>>

\* RequestCancelSingleton: one UPDATE over the active rows of the key.
CancelSingleton(k) ==
  /\ \E j \in Job : KeyOf[j] = k /\ IsActive(j)
  /\ row' = [j \in Job |->
       IF KeyOf[j] = k /\ IsActive(j)
         THEN [row[j] EXCEPT
                !.status = IF @ = "queued" THEN "cancelled" ELSE @,
                !.cancel = TRUE]
         ELSE row[j]]
  /\ UNCHANGED <<exec, mode, stale, cancelTx, faults>>

BecomesDue(j) ==
  /\ row[j].status = "queued" /\ ~row[j].due
  /\ row' = [row EXCEPT ![j].due = TRUE]
  /\ UNCHANGED <<exec, mode, stale, cancelTx, faults>>

LeaseExpires(j) ==
  /\ row[j].status = "running" /\ ~row[j].expired
  /\ Timely => ~\E p \in Pod, s \in Slot : Holds(p, s, j) /\ OwnClaim(p, s)
  /\ row' = [row EXCEPT ![j].expired = TRUE]
  /\ UNCHANGED <<exec, mode, stale, cancelTx, faults>>

-----------------------------------------------------------------------------

WorkerStep(p, s) ==
  \/ ClaimAtomic(p, s) \/ ClaimSelect(p, s) \/ ClaimTry(p, s)
  \/ ClaimNone(p, s) \/ Tick(p, s) \/ WorkerStops(p, s)
  \/ HandlerReturns(p, s) \/ CheckCancel(p, s) \/ Settle(p, s) \/ Retry(p, s)

RunnerStep(p) ==
  \/ StartRunner(p) \/ RecoverRow(p) \/ RecoverDone(p)
  \/ PruneDelete(p) \/ RunnerExits(p)

Next ==
  \/ \E p \in Pod, s \in Slot :
       \/ WorkerStep(p, s) \/ HeartbeatRenews(p, s) \/ HeartbeatCancels(p, s)
       \/ ClaimFails(p, s) \/ SettleFails(p, s) \/ CheckFails(p, s)
  \/ \E p \in Pod :
       \/ RunnerStep(p) \/ RecoverTick(p) \/ PruneSelect(p)
       \/ Drain(p) \/ ShutDown(p) \/ Crash(p) \/ RecoverFails(p)
  \/ \E j \in Job :
       \/ Enqueue(j) \/ CancelAtomic(j) \/ CancelSelect(j)
       \/ BecomesDue(j) \/ LeaseExpires(j)
  \/ CancelUpdate
  \/ \E k \in Key : CancelSingleton(k)

Spec == Init /\ [][Next]_vars

\* A live process runs its goroutines, time passes, and a runner that is down
\* is started again. The recovery ticker competes in a select with the poll
\* ticker, and a select with several ready cases picks each of them
\* infinitely often, hence strong fairness.
Fairness ==
  /\ \A p \in Pod, s \in Slot : WF_vars(WorkerStep(p, s))
  /\ \A p \in Pod : WF_vars(RunnerStep(p)) /\ SF_vars(RecoverTick(p))
  /\ \A j \in Job : WF_vars(BecomesDue(j)) /\ WF_vars(LeaseExpires(j))

FairSpec == Spec /\ Fairness

-----------------------------------------------------------------------------
(* Properties of every deployment.                                         *)

\* The variables keep their types.
TypeOK ==
  /\ row \in [Job -> Row]
  /\ exec \in [Pod -> [Slot -> Exec]]
  /\ mode \in [Pod -> Mode]
  /\ stale \in [Pod -> SUBSET (Job \X Nat)]
  /\ cancelTx \subseteq Job \X Active
  /\ faults \in Nat

\* A running row carries the claim that RecoverExpiredRunning and Heartbeat
\* look for, and a cancelled row the request that cancelled it, however the
\* unconditional updates by id of the workers, of recovery and of a
\* cancellation interleave.
ClaimInv ==
  \A j \in Job :
    /\ row[j].status = "running" => row[j].claimedBy # NoSlot
    /\ row[j].status = "cancelled" => row[j].cancel

\* Two executions of one job, in any pods, never carry the same attempt number,
\* and none carries one the row has not reached: attempts is a fencing token
\* ClaimDue hands out, although no update by id uses it as one.
AttemptIsFence ==
  \A p, q \in Pod, s, t \in Slot, j \in Job :
    Holds(p, s, j) =>
      /\ Exists(j) => exec[p][s].tries <= row[j].attempts
      /\ (Holds(q, t, j) /\ exec[q][t].tries = exec[p][s].tries) =>
           (p = q /\ s = t)

\* No two active jobs share a singleton key: of all writes that make a job
\* active, enqueueing and a late retry of a settled job are the ones the index
\* has to stop.
SingletonExclusive ==
  \A i, j \in Job :
    (i # j /\ KeyOf[i] = KeyOf[j] /\ KeyOf[i] # NoKey) =>
      ~(IsActive(i) /\ IsActive(j))

\* However late the retries and recoveries that count attempts in an old copy
\* of the row, a job is claimed a bounded number of times: each old execution
\* and each pod's recovery can requeue it once more.
AttemptsBounded ==
  \A j \in Job : row[j].attempts <= 2 * MaxAttempts[j] - 1 + Cardinality(Pod)

-----------------------------------------------------------------------------
(* Properties of one process whose handlers are alive within their lease.  *)

\* A job is executed by at most one worker, and only while its row is running
\* under that worker's unexpired claim and counts that attempt: no settling
\* update by id can hit another execution's claim.
ExclusiveExecution ==
  \A p, q \in Pod, s, t \in Slot, j \in Job :
    Holds(p, s, j) =>
      /\ row[j].status = "running" /\ row[j].claimedBy = s
      /\ ~row[j].expired /\ row[j].attempts = exec[p][s].tries
      /\ Holds(q, t, j) => (p = q /\ s = t)

\* A job is never claimed more often than its max_attempts, retries, crashes
\* and recoveries together.
AttemptsWithinLimit == \A j \in Job : row[j].attempts <= MaxAttempts[j]

\* A job that succeeded, failed or was cancelled stays so until it is pruned.
TerminalIsFinal ==
  [][\A j \in Job : row[j].status \in Terminal =>
        row'[j].status \in {row[j].status, "pruned"}]_vars

\* A job that is queued, or running when its worker dies, is settled in the
\* end, through crashes, restarts, failed database calls and retries.
EveryJobSettles ==
  \A j \in Job : IsActive(j) ~> (row[j].status \in Terminal \cup {"pruned"})

\* A runner told to stop gets down: workers in a select, in a handler and in
\* the middle of a recovery all reach the end of their loop.
StoppingEnds ==
  \A p \in Pod : (mode[p] \in {"draining", "cancelled"}) ~> (mode[p] = "down")

\* The job as its submitter sees it (see JobLifecycle).
Lifecycle == INSTANCE JobLifecycle WITH
  status <- [j \in Job |-> row[j].status],
  attempts <- [j \in Job |-> row[j].attempts],
  asked <- {j \in Job : row[j].cancel},
  live <- {j \in Job : \E p \in Pod, s \in Slot : Holds(p, s, j)}

LifecycleSpec == Lifecycle!Spec

-----------------------------------------------------------------------------
(* What docs/configuration.md says of leases and the code does not keep    *)
(* (see the README).                                                       *)

\* "use database claim leases so a future separate worker binary can use the
\* same job table safely": a job stops running only by a cancellation of the
\* queued job it still was, by the worker whose claim it is, or by recovery.
OnlyTheClaimantSettles ==
  [][\A p \in Pod, s \in Slot, j \in Job :
       (/\ row[j].status = "running" /\ row'[j].status # "running"
        /\ Holds(p, s, j) /\ exec'[p][s].job # j)
         => row[j].claimedBy = s /\ row[j].attempts = exec[p][s].tries]_vars

\* "The claim lease is stale-worker recovery time ... Running jobs heartbeat to
\* extend the lease while the worker is healthy": a job whose claim has not
\* expired is not taken away from the worker that executes it.
HealthyWorkerKeepsClaim ==
  [][\A p \in Pod, s \in Slot, j \in Job :
       (/\ Holds(p, s, j) /\ exec' = exec
        /\ row[j].status = "running" /\ row[j].claimedBy = s
        /\ row[j].attempts = exec[p][s].tries /\ ~row[j].expired)
         => row'[j].claimedBy = s]_vars
=============================================================================
