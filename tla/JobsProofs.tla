----------------------------- MODULE JobsProofs -----------------------------
(***************************************************************************)
(* Theorems about Jobs, for every set of jobs, pods and workers.           *)
(*                                                                         *)
(* The first part assumes nothing about the deployment. Then come the two  *)
(* ways it is deployed: one API process on one database connection         *)
(* (SQLite), whose live executions renew or settle within their lease,     *)
(* which implements JobLifecycle; and how often a job can be claimed by    *)
(* several processes on PostgreSQL, where leases expire under live         *)
(* handlers and retries and recoveries come late.                          *)
(***************************************************************************)
EXTENDS Jobs, FiniteSetTheorems, TLAPS

-----------------------------------------------------------------------------
(* Operators on rows and workers keep their types.                         *)

LEMMA ClaimedType ==
  ASSUME NEW r \in Row, NEW s \in Slot
  PROVE  Claimed(r, s) \in Row
<1>1. Claimed(r, s).attempts \in Nat
  BY DEF Row, Claimed
<1> QED BY <1>1 DEF Row, Claimed, Status, Active

LEMMA SettledType ==
  ASSUME NEW r \in Row, NEW status \in Status
  PROVE  Settled(r, status) \in Row
BY DEF Row, Settled

LEMMA RequeuedType ==
  ASSUME NEW r \in Row, NEW d \in BOOLEAN
  PROVE  Requeued(r, d) \in Row
<1>1. Settled(r, "queued") \in Row
  BY SettledType DEF Status, Active
<1> QED BY <1>1 DEF Row, Requeued

LEMMA NewRowType == NewRow \in Row
BY DEF Row, NewRow, Status, Active, Terminal

LEMMA IdleTypes ==
  /\ \A pc \in {"stopped", "poll", "claim", "wait", "recover", "prune"} :
       Idle(pc) \in Exec
  /\ \A p \in Pod : LoopTop(p) \in Exec
BY DEF Idle, LoopTop, Exec

LEMMA PutType ==
  ASSUME TypeOK, NEW j \in Job, NEW r \in Row, Put(j, r)
  PROVE  row' \in [Job -> Row]
BY DEF TypeOK, Put

LEMMA SetExecType ==
  ASSUME TypeOK, NEW p \in Pod, NEW s \in Slot, NEW e \in Exec,
         SetExec(p, s, e)
  PROVE  exec' \in [Pod -> [Slot -> Exec]]
BY DEF TypeOK, SetExec

LEMMA ExecPcType ==
  ASSUME NEW e \in Exec, NEW pc \in Executing
  PROVE  [e EXCEPT !.pc = pc] \in Exec
BY DEF Exec

LEMMA ExecCandsType ==
  ASSUME NEW e \in Exec, NEW C \in SUBSET Job
  PROVE  [e EXCEPT !.cands = C] \in Exec
BY DEF Exec

LEMMA ExpiredType == TypeOK => Expired \subseteq Job \X Nat
BY DEF TypeOK, Expired, Row

\* A worker in the middle of an execution knows its job.
JobKnown ==
  \A p \in Pod, s \in Slot :
    exec[p][s].pc \in Executing => exec[p][s].job \in Job

TypeInv == TypeOK /\ JobKnown

LEMMA ClaimTypes ==
  ASSUME TypeInv, NEW p \in Pod, NEW s \in Slot, NEW j \in Job, Claim(p, s, j)
  PROVE  row' \in [Job -> Row] /\ exec' \in [Pod -> [Slot -> Exec]] /\ JobKnown'
<1>1. Claimed(row[j], s) \in Row
  BY ClaimedType DEF TypeInv, TypeOK
<1>2. row' \in [Job -> Row]
  BY <1>1, PutType DEF Claim, TypeInv
<1> DEFINE e == [pc |-> Start(j), job |-> j, tries |-> row[j].attempts + 1,
                 lost |-> FALSE, cands |-> {}]
<1>3. e \in Exec
  <2>1. row[j].attempts + 1 \in Nat
    BY DEF TypeInv, TypeOK, Row
  <2> QED BY <2>1 DEF Exec, Start, Executing
<1>4. exec' \in [Pod -> [Slot -> Exec]]
  BY <1>3, SetExecType DEF Claim, TypeInv
<1>5. JobKnown'
  BY DEF Claim, SetExec, TypeInv, TypeOK, JobKnown
<1> QED BY <1>2, <1>4, <1>5

LEMMA IdleStep ==
  ASSUME TypeInv, NEW p \in Pod, NEW s \in Slot,
         \/ \E pc \in {"stopped", "poll", "claim", "wait", "recover", "prune"} :
              SetExec(p, s, Idle(pc))
         \/ SetExec(p, s, LoopTop(p))
  PROVE  exec' \in [Pod -> [Slot -> Exec]] /\ JobKnown'
<1>1. exec' \in [Pod -> [Slot -> Exec]]
  BY IdleTypes, SetExecType DEF TypeInv
<1>2. exec'[p][s].pc \notin Executing
  BY DEF SetExec, Idle, LoopTop, Executing, TypeInv, TypeOK
<1>3. \A q \in Pod, t \in Slot : <<q, t>> # <<p, s>> => exec'[q][t] = exec[q][t]
  BY DEF SetExec, TypeInv, TypeOK
<1> QED BY <1>1, <1>2, <1>3 DEF JobKnown, TypeInv

\* What a worker does to its own record alone.
LEMMA PcStep ==
  ASSUME TypeInv, NEW p \in Pod, NEW s \in Slot,
         exec[p][s].pc \in Executing,
         \/ \E pc \in Executing : Goto(p, s, pc)
         \/ SetExec(p, s, [exec[p][s] EXCEPT !.lost = TRUE])
  PROVE  exec' \in [Pod -> [Slot -> Exec]] /\ JobKnown'
<1>1. PICK e \in Exec : SetExec(p, s, e) /\ e.job = exec[p][s].job
  <2>1. exec[p][s] \in Exec
    BY DEF TypeInv, TypeOK
  <2>2. CASE \E pc \in Executing : Goto(p, s, pc)
    <3>1. PICK pc \in Executing : Goto(p, s, pc)
      BY <2>2
    <3> DEFINE e == [exec[p][s] EXCEPT !.pc = pc]
    <3>2. e \in Exec /\ e.job = exec[p][s].job
      BY <2>1, ExecPcType DEF Exec
    <3> QED BY <3>1, <3>2 DEF Goto
  <2>3. CASE SetExec(p, s, [exec[p][s] EXCEPT !.lost = TRUE])
    <3> DEFINE e == [exec[p][s] EXCEPT !.lost = TRUE]
    <3>1. e \in Exec /\ e.job = exec[p][s].job
      BY <2>1 DEF Exec
    <3> QED BY <2>3, <3>1
  <2> QED BY <2>2, <2>3
<1>2. exec' \in [Pod -> [Slot -> Exec]]
  BY <1>1, SetExecType DEF TypeInv
<1>3. JobKnown'
  BY <1>1 DEF SetExec, TypeInv, TypeOK, JobKnown
<1> QED BY <1>2, <1>3

LEMMA CancelledType ==
  ASSUME NEW r \in Row
  PROVE  /\ [r EXCEPT !.status = "cancelled", !.cancel = TRUE] \in Row
         /\ [r EXCEPT !.cancel = TRUE] \in Row
BY DEF Row, Status, Terminal

LEMMA CancelWriteType ==
  ASSUME TypeInv, NEW j \in Job, NEW seen, CancelWrite(j, seen)
  PROVE  row' \in [Job -> Row]
<1>1. row[j] \in Row
  BY DEF TypeInv, TypeOK
<1>2. \E r \in Row : Put(j, r)
  BY <1>1, CancelledType DEF CancelWrite
<1> QED BY <1>2, PutType DEF TypeInv

LEMMA TypeInit == Init => TypeInv
<1>1. SUFFICES ASSUME Init PROVE TypeInv
  OBVIOUS
<1>2. exec \in [Pod -> [Slot -> Exec]] /\ JobKnown
  BY <1>1, IdleTypes DEF Init, JobKnown, Executing, Idle
<1> QED BY <1>1, <1>2, NewRowType DEF Init, TypeInv, TypeOK, Mode

LEMMA TypeStep == TypeInv /\ [Next]_vars => TypeInv'
<1> SUFFICES ASSUME TypeInv, [Next]_vars PROVE TypeInv'
  OBVIOUS
<1> USE DEF TypeInv
<1>1. ASSUME NEW p \in Pod, NEW s \in Slot, ClaimAtomic(p, s) PROVE TypeInv'
  BY <1>1, ClaimTypes DEF ClaimAtomic, TypeOK
<1>2. ASSUME NEW p \in Pod, NEW s \in Slot, ClaimSelect(p, s) PROVE TypeInv'
  <2>1. PICK C \in SUBSET Due : SetExec(p, s, [Idle("claim") EXCEPT !.cands = C])
    BY <1>2 DEF ClaimSelect
  <2>2. [Idle("claim") EXCEPT !.cands = C] \in Exec
    BY <2>1 DEF Idle, Exec, Due
  <2>3. exec' \in [Pod -> [Slot -> Exec]]
    BY <2>1, <2>2, SetExecType
  <2>4. JobKnown'
    BY <2>1 DEF SetExec, Idle, JobKnown, Executing, TypeOK
  <2> QED BY <1>2, <2>3, <2>4 DEF ClaimSelect, TypeOK
<1>3. ASSUME NEW p \in Pod, NEW s \in Slot, ClaimTry(p, s) PROVE TypeInv'
  <2>1. PICK j \in exec[p][s].cands :
          \/ Claim(p, s, j)
          \/ /\ SetExec(p, s, IF exec[p][s].cands = {j} THEN Idle("wait")
                              ELSE [exec[p][s] EXCEPT !.cands = @ \ {j}])
             /\ UNCHANGED row
    BY <1>3 DEF ClaimTry
  <2>2. j \in Job
    BY DEF TypeOK, Exec
  <2>3. CASE Claim(p, s, j)
    BY <1>3, <2>2, <2>3, ClaimTypes DEF ClaimTry, TypeOK
  <2>4. CASE SetExec(p, s, Idle("wait")) /\ UNCHANGED row
    BY <1>3, <2>4, IdleStep DEF ClaimTry, TypeOK
  <2>5. CASE SetExec(p, s, [exec[p][s] EXCEPT !.cands = @ \ {j}])
             /\ UNCHANGED row
    <3>1. [exec[p][s] EXCEPT !.cands = @ \ {j}] \in Exec
      <4>1. exec[p][s] \in Exec /\ exec[p][s].cands \ {j} \in SUBSET Job
        BY DEF TypeOK, Exec
      <4> QED BY <4>1, ExecCandsType
    <3>2. exec' \in [Pod -> [Slot -> Exec]]
      BY <2>5, <3>1, SetExecType
    <3>3. JobKnown'
      BY <1>3, <2>5 DEF ClaimTry, SetExec, JobKnown, Executing, TypeOK, Exec
    <3> QED BY <1>3, <2>5, <3>2, <3>3 DEF ClaimTry, TypeOK
  <2> QED BY <2>1, <2>3, <2>4, <2>5
<1>4. ASSUME NEW p \in Pod, NEW s \in Slot,
             \/ ClaimNone(p, s) \/ Tick(p, s) \/ WorkerStops(p, s)
             \/ ClaimFails(p, s) \/ SettleFails(p, s)
      PROVE  TypeInv'
  <2>1. exec' \in [Pod -> [Slot -> Exec]] /\ JobKnown'
    BY <1>4, IdleStep DEF ClaimNone, Tick, WorkerStops, ClaimFails, SettleFails
  <2>2. UNCHANGED <<row, mode, stale, cancelTx>> /\ faults' \in Nat
    BY <1>4 DEF ClaimNone, Tick, WorkerStops, ClaimFails, SettleFails, Fault,
                TypeOK
  <2> QED BY <2>1, <2>2 DEF TypeOK
<1>5. ASSUME NEW p \in Pod, NEW s \in Slot,
             HandlerReturns(p, s) \/ CheckFails(p, s) \/ HeartbeatCancels(p, s)
      PROVE  TypeInv'
  <2>1. exec' \in [Pod -> [Slot -> Exec]] /\ JobKnown'
    BY <1>5, PcStep DEF HandlerReturns, CheckFails, HeartbeatCancels, Executing
  <2>2. UNCHANGED <<row, mode, stale, cancelTx>> /\ faults' \in Nat
    BY <1>5 DEF HandlerReturns, CheckFails, HeartbeatCancels, Fault, TypeOK
  <2> QED BY <2>1, <2>2 DEF TypeOK
<1>6. ASSUME NEW p \in Pod, NEW s \in Slot, HeartbeatRenews(p, s) PROVE TypeInv'
  <2> DEFINE j == exec[p][s].job
  <2>1. j \in Job /\ row[j] \in Row
    BY <1>6 DEF HeartbeatRenews, JobKnown, Executing, TypeOK
  <2>2. [row[j] EXCEPT !.expired = FALSE] \in Row
    BY <2>1 DEF Row
  <2>3. row' = [row EXCEPT ![j] = [row[j] EXCEPT !.expired = FALSE]]
    BY <1>6 DEF HeartbeatRenews
  <2>4. row' \in [Job -> Row]
    BY <2>1, <2>2, <2>3 DEF TypeOK
  <2> QED BY <1>6, <2>4 DEF HeartbeatRenews, TypeOK, JobKnown
<1>7. ASSUME NEW p \in Pod, NEW s \in Slot, CheckCancel(p, s) PROVE TypeInv'
  <2>1. exec' \in [Pod -> [Slot -> Exec]] /\ JobKnown'
    BY <1>7, PcStep DEF CheckCancel, Executing
  <2>2. row' \in [Job -> Row]
    BY <1>7 DEF CheckCancel, TypeOK, Row
  <2> QED BY <1>7, <2>1, <2>2 DEF CheckCancel, TypeOK
<1>8. ASSUME NEW p \in Pod, NEW s \in Slot, Settle(p, s) PROVE TypeInv'
  <2>1. exec[p][s].job \in Job /\ row[exec[p][s].job] \in Row
    BY <1>8 DEF Settle, JobKnown, Executing, TypeOK
  <2>2. \A st \in Terminal : Settled(row[exec[p][s].job], st) \in Row
    BY <2>1, SettledType DEF Status
  <2>3. row' \in [Job -> Row]
    BY <1>8, <2>1, <2>2, PutType DEF Settle, Terminal, TypeOK
  <2>4. exec' \in [Pod -> [Slot -> Exec]] /\ JobKnown'
    BY <1>8, IdleStep DEF Settle
  <2> QED BY <1>8, <2>3, <2>4 DEF Settle, TypeOK
<1>9. ASSUME NEW p \in Pod, NEW s \in Slot, Retry(p, s) PROVE TypeInv'
  <2>1. exec[p][s].job \in Job /\ row[exec[p][s].job] \in Row
    BY <1>9 DEF Retry, JobKnown, Executing, TypeOK
  <2>2. row' \in [Job -> Row]
    BY <1>9, <2>1, RequeuedType, PutType DEF Retry, TypeOK
  <2>3. exec' \in [Pod -> [Slot -> Exec]] /\ JobKnown'
    BY <1>9, IdleStep DEF Retry
  <2> QED BY <1>9, <2>2, <2>3 DEF Retry, TypeOK
<1>10. ASSUME NEW p \in Pod, StartRunner(p) PROVE TypeInv'
  BY <1>10, ExpiredType DEF StartRunner, TypeOK, JobKnown, Mode
<1>11. ASSUME NEW p \in Pod, RecoverRow(p) PROVE TypeInv'
  <2>1. PICK je \in stale[p] :
          /\ stale' = [stale EXCEPT ![p] = @ \ {je}]
          /\ \/ row' = row
             \/ row' = [row EXCEPT ![je[1]] = Requeued(row[je[1]], TRUE)]
             \/ row' = [row EXCEPT ![je[1]] = Settled(row[je[1]], "failed")]
    <3>1. PICK je \in stale[p] :
             /\ stale' = [stale EXCEPT ![p] = @ \ {je}]
             /\ row' = IF row[je[1]].status # "running" THEN row
                 ELSE [row EXCEPT ![je[1]] = IF je[2] < MaxAttempts[je[1]]
                                           THEN Requeued(row[je[1]], TRUE)
                                           ELSE Settled(row[je[1]], "failed")]
      BY <1>11 DEF RecoverRow
    <3> QED BY <3>1
  <2>2. je[1] \in Job /\ row[je[1]] \in Row
    BY <2>1 DEF TypeOK
  <2>3. /\ Requeued(row[je[1]], TRUE) \in Row
        /\ Settled(row[je[1]], "failed") \in Row
    BY <2>2, RequeuedType, SettledType DEF Status, Terminal
  <2>4. row' \in [Job -> Row]
    BY <2>1, <2>2, <2>3 DEF TypeOK
  <2>5. stale' \in [Pod -> SUBSET (Job \X Nat)]
    BY <2>1 DEF TypeOK
  <2> QED BY <1>11, <2>4, <2>5 DEF RecoverRow, TypeOK, JobKnown
<1>12. ASSUME NEW p \in Pod, RecoverDone(p) PROVE TypeInv'
  <2>1. exec' \in [Pod -> [Slot -> Exec]] /\ JobKnown'
    <3>1. CASE mode[p] = "starting"
      <4>1. exec' = [exec EXCEPT ![p] = [s \in Slot |-> Idle("poll")]]
        BY <1>12, <3>1 DEF RecoverDone
      <4>2. Idle("poll") \in Exec /\ Idle("poll").pc \notin Executing
        BY IdleTypes DEF Idle, Executing
      <4> QED BY <4>1, <4>2 DEF TypeOK, JobKnown
    <3>2. CASE mode[p] # "starting"
      BY <1>12, <3>2, IdleStep, JobsAssumption DEF RecoverDone
    <3> QED BY <3>1, <3>2
  <2>2. /\ mode' \in [Pod -> Mode] /\ stale' \in [Pod -> SUBSET (Job \X Nat)]
        /\ UNCHANGED <<row, cancelTx, faults>>
    BY <1>12 DEF RecoverDone, TypeOK, Mode
  <2> QED BY <2>1, <2>2 DEF TypeOK
<1>13. ASSUME NEW p \in Pod, PruneDelete(p) PROVE TypeInv'
  <2>1. exec' \in [Pod -> [Slot -> Exec]] /\ JobKnown'
    BY <1>13, IdleStep, JobsAssumption DEF PruneDelete
  <2>2. [NewRow EXCEPT !.status = "pruned"] \in Row
    BY DEF NewRow, Row, Status
  <2>3. row' \in [Job -> Row]
    BY <1>13, <2>2 DEF PruneDelete, TypeOK
  <2> QED BY <1>13, <2>1, <2>3 DEF PruneDelete, TypeOK
<1>14. ASSUME NEW p \in Pod, RunnerExits(p) \/ Drain(p) \/ ShutDown(p)
       PROVE  TypeInv'
  <2>1. UNCHANGED <<row, exec, cancelTx>> /\ faults' \in Nat
    BY <1>14 DEF RunnerExits, Drain, ShutDown, Fault, TypeOK
  <2>2. mode' \in [Pod -> Mode]
    BY <1>14 DEF RunnerExits, Drain, ShutDown, TypeOK, Mode
  <2>3. stale' \in [Pod -> SUBSET (Job \X Nat)]
    BY <1>14 DEF RunnerExits, Drain, ShutDown, TypeOK
  <2> QED BY <2>1, <2>2, <2>3 DEF TypeOK, JobKnown
<1>15. ASSUME NEW p \in Pod, RecoverTick(p) PROVE TypeInv'
  <2>1. exec' \in [Pod -> [Slot -> Exec]] /\ JobKnown'
    BY <1>15, IdleStep, JobsAssumption DEF RecoverTick
  <2> QED BY <1>15, <2>1, ExpiredType DEF RecoverTick, TypeOK
<1>16. ASSUME NEW p \in Pod, PruneSelect(p) PROVE TypeInv'
  <2>1. PICK C \in SUBSET {j \in Job : row[j].status \in Terminal} :
          SetExec(p, FirstSlot, [Idle("prune") EXCEPT !.cands = C])
    BY <1>16 DEF PruneSelect
  <2>2. [Idle("prune") EXCEPT !.cands = C] \in Exec
    BY <2>1 DEF Idle, Exec
  <2>3. exec' \in [Pod -> [Slot -> Exec]]
    BY <2>1, <2>2, SetExecType, JobsAssumption
  <2>4. JobKnown'
    BY <2>1, JobsAssumption DEF SetExec, Idle, JobKnown, Executing, TypeOK
  <2> QED BY <1>16, <2>3, <2>4 DEF PruneSelect, TypeOK
<1>17. ASSUME NEW p \in Pod, Crash(p) PROVE TypeInv'
  <2>1. exec' \in [Pod -> [Slot -> Exec]] /\ JobKnown'
    BY <1>17, IdleTypes DEF Crash, TypeOK, JobKnown, Idle, Executing
  <2> QED BY <1>17, <2>1 DEF Crash, Fault, TypeOK, Mode
<1>18. ASSUME NEW p \in Pod, RecoverFails(p) PROVE TypeInv'
  BY <1>18 DEF RecoverFails, Fault, TypeOK, JobKnown
<1>19. ASSUME NEW j \in Job,
              Enqueue(j) \/ BecomesDue(j) \/ LeaseExpires(j) \/ CancelAtomic(j)
       PROVE  TypeInv'
  <2>1. row' \in [Job -> Row]
    <3>1. row[j] \in Row
      BY DEF TypeOK
    <3>2. /\ [row[j] EXCEPT !.status = "queued"] \in Row
          /\ [row[j] EXCEPT !.due = TRUE] \in Row
          /\ [row[j] EXCEPT !.expired = TRUE] \in Row
      BY <3>1 DEF Row, Status, Active
    <3>3. CASE Enqueue(j)
      BY <3>2, <3>3 DEF Enqueue, TypeOK
    <3>4. CASE BecomesDue(j)
      BY <3>2, <3>4 DEF BecomesDue, TypeOK
    <3>5. CASE LeaseExpires(j)
      BY <3>2, <3>5 DEF LeaseExpires, TypeOK
    <3>6. CASE CancelAtomic(j)
      BY <3>6, CancelWriteType DEF CancelAtomic
    <3> QED BY <1>19, <3>3, <3>4, <3>5, <3>6
  <2> QED BY <1>19, <2>1
       DEF Enqueue, BecomesDue, LeaseExpires, CancelAtomic, TypeOK, JobKnown
<1>20. ASSUME NEW j \in Job, CancelSelect(j) PROVE TypeInv'
  BY <1>20 DEF CancelSelect, IsActive, TypeOK, JobKnown
<1>21. ASSUME CancelUpdate PROVE TypeInv'
  <2>1. PICK c \in cancelTx : CancelWrite(c[1], c[2])
                              /\ cancelTx' = cancelTx \ {c}
    BY <1>21 DEF CancelUpdate
  <2>2. c[1] \in Job
    BY <2>1 DEF TypeOK
  <2>3. row' \in [Job -> Row]
    BY <2>1, <2>2, CancelWriteType
  <2> QED BY <1>21, <2>1, <2>3 DEF CancelUpdate, TypeOK, JobKnown
<1>22. ASSUME NEW k \in Key, CancelSingleton(k) PROVE TypeInv'
  <2>1. ASSUME NEW j \in Job
        PROVE  [row[j] EXCEPT !.status = IF @ = "queued" THEN "cancelled" ELSE @,
                              !.cancel = TRUE] \in Row
    <3>1. row[j] \in Row
      BY DEF TypeOK
    <3> QED BY <3>1 DEF Row, Status, Terminal
  <2>2. row' \in [Job -> Row]
    BY <1>22, <2>1 DEF CancelSingleton, TypeOK
  <2> QED BY <1>22, <2>2 DEF CancelSingleton, TypeOK, JobKnown
<1>23. CASE UNCHANGED vars
  BY <1>23 DEF vars, TypeOK, JobKnown
<1> QED
  BY <1>1, <1>2, <1>3, <1>4, <1>5, <1>6, <1>7, <1>8, <1>9, <1>10, <1>11, <1>12,
     <1>13, <1>14, <1>15, <1>16, <1>17, <1>18, <1>19, <1>20, <1>21, <1>22, <1>23
  DEF Next, WorkerStep, RunnerStep

\* Type correctness.
THEOREM TypeCorrect == Spec => []TypeOK
<1>1. Init => TypeInv
  BY TypeInit
<1>2. TypeInv /\ [Next]_vars => TypeInv'
  BY TypeStep
<1>3. TypeInv => TypeOK
  BY DEF TypeInv
<1> QED BY <1>1, <1>2, <1>3, PTL DEF Spec

-----------------------------------------------------------------------------
(* What a step can do to one row of the table, and to the executions.      *)

PrunedRow == [NewRow EXCEPT !.status = "pruned"]

\* A settling UPDATE by id that has found its row.
SettlesRow(j) ==
  /\ Exists(j)
  /\ \/ row'[j] = Settled(row[j], "succeeded")
     \/ row'[j] = Settled(row[j], "failed")
     \/ /\ row'[j] = Settled(row[j], "cancelled")
        /\ \E p \in Pod, s \in Slot :
             exec[p][s].pc = "markcancelled" /\ exec[p][s].job = j

\* A write past the singleton index.
EntersIndex(j) ==
  /\ ~KeyTaken(j)
  /\ \/ /\ row[j].status = "absent"
        /\ row' = [row EXCEPT ![j] = [row[j] EXCEPT !.status = "queued"]]
     \/ /\ Exists(j)
        /\ row' = [row EXCEPT ![j] = Requeued(row[j], FALSE)]

CancelsRow(j) ==
  /\ Exists(j)
  /\ \/ row'[j] = [row[j] EXCEPT !.status = "cancelled", !.cancel = TRUE]
     \/ row'[j] = [row[j] EXCEPT !.cancel = TRUE]

RowStep(j) ==
  \/ row'[j] = row[j]
  \/ /\ row[j].status = "queued"
     /\ \E s \in Slot : row'[j] = Claimed(row[j], s)
  \/ SettlesRow(j)
  \/ EntersIndex(j)
  \/ row[j].status = "running" /\ row'[j] = Requeued(row[j], TRUE)
  \/ row'[j] = PrunedRow
  \/ CancelsRow(j)
  \/ row[j].status = "queued" /\ row'[j] = [row[j] EXCEPT !.due = TRUE]
  \/ /\ row[j].status = "running"
     /\ \E b \in BOOLEAN : row'[j] = [row[j] EXCEPT !.expired = b]

ClaimStep(p, s, j) == row[j].status = "queued" /\ Claim(p, s, j)

\* No execution begins, none changes its attempt, and one that comes to mark
\* its job as cancelled has seen the request.
KeepsExecs ==
  \A p \in Pod, s \in Slot, j \in Job :
    Holds(p, s, j)' =>
      /\ Holds(p, s, j) /\ exec'[p][s].tries = exec[p][s].tries
      /\ exec'[p][s].pc = "markcancelled" =>
           exec[p][s].pc = "markcancelled" \/ row[j].cancel

LEMMA ClaimRowStep ==
  ASSUME TypeInv, NEW p \in Pod, NEW s \in Slot, NEW i \in Job,
         ClaimStep(p, s, i), NEW j \in Job
  PROVE  RowStep(j)
BY DEF ClaimStep, Claim, Put, Exists, RowStep, TypeInv, TypeOK

LEMMA RowSteps ==
  ASSUME TypeInv, [Next]_vars, NEW j \in Job
  PROVE  RowStep(j)
<1> USE DEF TypeInv, TypeOK
<1>1. ASSUME NEW p \in Pod, NEW s \in Slot, ClaimAtomic(p, s) PROVE RowStep(j)
  BY <1>1, ClaimRowStep DEF ClaimAtomic, ClaimStep, First, Due
<1>2. ASSUME NEW p \in Pod, NEW s \in Slot, ClaimTry(p, s) PROVE RowStep(j)
  <2>1. exec[p][s].cands \subseteq Job
    BY DEF Exec
  <2>2. UNCHANGED row \/ \E i \in Job : ClaimStep(p, s, i)
    BY <1>2, <2>1 DEF ClaimTry, ClaimStep
  <2> QED BY <2>2, ClaimRowStep DEF RowStep
<1>3. ASSUME UNCHANGED row PROVE RowStep(j)
  BY <1>3 DEF RowStep
<1>4. ASSUME NEW p \in Pod, NEW s \in Slot, HeartbeatRenews(p, s)
      PROVE  RowStep(j)
  BY <1>4 DEF HeartbeatRenews, RowStep
<1>5. ASSUME NEW p \in Pod, NEW s \in Slot, CheckCancel(p, s)
      PROVE  RowStep(j)
  BY <1>5 DEF CheckCancel, RowStep
<1>6. ASSUME NEW p \in Pod, NEW s \in Slot, Settle(p, s)
      PROVE  RowStep(j)
  <2> DEFINE i == exec[p][s].job
  <2>1. \/ UNCHANGED row
        \/ Put(i, Settled(row[i], "succeeded"))
        \/ Put(i, Settled(row[i], "failed"))
        \/ /\ exec[p][s].pc = "markcancelled"
           /\ Put(i, Settled(row[i], "cancelled"))
    BY <1>6 DEF Settle
  <2> QED BY <2>1 DEF RowStep, SettlesRow, Put
<1>7. ASSUME NEW p \in Pod, NEW s \in Slot, Retry(p, s)
      PROVE  RowStep(j)
  <2> DEFINE i == exec[p][s].job
  <2>1. i \in Job
    BY <1>7 DEF Retry, JobKnown, Executing
  <2>2. UNCHANGED row \/ (~KeyTaken(i) /\ Put(i, Requeued(row[i], FALSE)))
    BY <1>7 DEF Retry
  <2>3. UNCHANGED row \/ EntersIndex(i)
    BY <2>1, <2>2 DEF EntersIndex, Put
  <2> QED BY <2>1, <2>3 DEF RowStep, EntersIndex
<1>8. ASSUME NEW p \in Pod, RecoverRow(p) PROVE RowStep(j)
  <2>1. PICK je \in stale[p] :
          row' = IF row[je[1]].status # "running" THEN row
                 ELSE [row EXCEPT ![je[1]] = IF je[2] < MaxAttempts[je[1]]
                                           THEN Requeued(row[je[1]], TRUE)
                                           ELSE Settled(row[je[1]], "failed")]
    BY <1>8 DEF RecoverRow
  <2>2. je[1] \in Job
    BY <2>1
  <2> QED BY <2>1, <2>2 DEF RowStep, SettlesRow, Exists
<1>9. ASSUME NEW p \in Pod, PruneDelete(p) PROVE RowStep(j)
  BY <1>9 DEF PruneDelete, RowStep, PrunedRow
<1>10. ASSUME NEW i \in Job, Enqueue(i) PROVE RowStep(j)
  BY <1>10 DEF Enqueue, RowStep, EntersIndex
<1>11. ASSUME NEW i \in Job, NEW seen, CancelWrite(i, seen) PROVE RowStep(j)
  BY <1>11 DEF CancelWrite, Put, RowStep, CancelsRow
<1>12. ASSUME CancelUpdate PROVE RowStep(j)
  <2>1. PICK c \in cancelTx : CancelWrite(c[1], c[2])
    BY <1>12 DEF CancelUpdate
  <2>2. c[1] \in Job
    BY <2>1
  <2> QED BY <2>1, <2>2, <1>11
<1>13. ASSUME NEW k \in Key, CancelSingleton(k) PROVE RowStep(j)
  <2>1. CASE KeyOf[j] = k /\ IsActive(j)
    <3>1. row'[j] = [row[j] EXCEPT
                !.status = IF @ = "queued" THEN "cancelled" ELSE @,
                !.cancel = TRUE]
      BY <1>13, <2>1 DEF CancelSingleton
    <3>2. CASE row[j].status = "queued"
      BY <2>1, <3>1, <3>2 DEF RowStep, CancelsRow, Exists
    <3>3. CASE row[j].status # "queued"
      <4>1. row[j] = [row[j] EXCEPT !.status = row[j].status]
        BY DEF Row
      <4> QED BY <2>1, <3>1, <3>3, <4>1
              DEF RowStep, CancelsRow, Exists, IsActive, Active, Row
    <3> QED BY <3>2, <3>3
  <2>2. CASE ~(KeyOf[j] = k /\ IsActive(j))
    BY <1>13, <2>2 DEF CancelSingleton, RowStep
  <2> QED BY <2>1, <2>2
<1>14. ASSUME NEW i \in Job, BecomesDue(i) PROVE RowStep(j)
  BY <1>14 DEF BecomesDue, RowStep
<1>15. ASSUME NEW i \in Job, LeaseExpires(i) PROVE RowStep(j)
  BY <1>15 DEF LeaseExpires, RowStep
<1>16. ASSUME NEW p \in Pod, NEW s \in Slot, WorkerStep(p, s) PROVE RowStep(j)
  BY <1>1, <1>2, <1>3, <1>5, <1>6, <1>7, <1>16
     DEF WorkerStep, ClaimSelect, ClaimNone, Tick, WorkerStops, HandlerReturns
<1>17. ASSUME NEW p \in Pod, RunnerStep(p) PROVE RowStep(j)
  BY <1>3, <1>8, <1>9, <1>17 DEF RunnerStep, StartRunner, RecoverDone, RunnerExits
<1>18. ASSUME NEW p \in Pod, NEW s \in Slot,
              \/ HeartbeatCancels(p, s) \/ ClaimFails(p, s)
              \/ SettleFails(p, s) \/ CheckFails(p, s)
       PROVE  RowStep(j)
  BY <1>3, <1>18 DEF HeartbeatCancels, ClaimFails, SettleFails, CheckFails
<1>19. ASSUME NEW p \in Pod,
              \/ RecoverTick(p) \/ PruneSelect(p) \/ Drain(p) \/ ShutDown(p)
              \/ Crash(p) \/ RecoverFails(p)
       PROVE  RowStep(j)
  BY <1>3, <1>19 DEF RecoverTick, PruneSelect, Drain, ShutDown, Crash, RecoverFails
<1>20. ASSUME NEW i \in Job, CancelAtomic(i) \/ CancelSelect(i) PROVE RowStep(j)
  BY <1>3, <1>11, <1>20 DEF CancelAtomic, CancelSelect
<1> QED BY <1>3, <1>4, <1>10, <1>12, <1>13, <1>14, <1>15, <1>16, <1>17, <1>18,
           <1>19, <1>20 DEF Next, vars

\* One worker moves to e without beginning an execution.
LEMMA KeepsIfOneMoves ==
  ASSUME TypeInv, NEW p \in Pod, NEW s \in Slot, NEW e, SetExec(p, s, e),
         e.pc \in Executing =>
           /\ exec[p][s].pc \in Executing
           /\ e.job = exec[p][s].job /\ e.tries = exec[p][s].tries
           /\ e.pc = "markcancelled" =>
                exec[p][s].pc = "markcancelled" \/ row[e.job].cancel
  PROVE  KeepsExecs
BY DEF KeepsExecs, SetExec, Holds, TypeInv, TypeOK

LEMMA IdleKeeps ==
  ASSUME TypeInv, NEW p \in Pod, NEW s \in Slot,
         \/ \E pc \in {"stopped", "poll", "claim", "wait", "recover", "prune"} :
              SetExec(p, s, Idle(pc))
         \/ SetExec(p, s, LoopTop(p))
  PROVE  KeepsExecs
<1>1. PICK e : SetExec(p, s, e) /\ e.pc \notin Executing
  BY DEF Idle, LoopTop, Executing
<1> QED BY <1>1, KeepsIfOneMoves

LEMMA GotoKeeps ==
  ASSUME TypeInv, NEW p \in Pod, NEW s \in Slot, NEW pc,
         exec[p][s].pc \in Executing, Goto(p, s, pc),
         pc = "markcancelled" => row[exec[p][s].job].cancel
  PROVE  KeepsExecs
<1> DEFINE e == [exec[p][s] EXCEPT !.pc = pc]
<1>1. exec[p][s] \in Exec
  BY DEF TypeInv, TypeOK
<1>2. e.pc = pc /\ e.job = exec[p][s].job /\ e.tries = exec[p][s].tries
  BY <1>1 DEF Exec
<1> QED BY <1>2, KeepsIfOneMoves DEF Goto

LEMMA CandsKeeps ==
  ASSUME TypeInv, NEW p \in Pod, NEW s \in Slot, NEW e \in Exec, NEW C,
         e.pc \notin Executing, SetExec(p, s, [e EXCEPT !.cands = C])
  PROVE  KeepsExecs
<1>1. [e EXCEPT !.cands = C].pc \notin Executing
  BY DEF Exec
<1> QED BY <1>1, KeepsIfOneMoves

LEMMA ExecSteps ==
  ASSUME TypeInv, [Next]_vars
  PROVE  KeepsExecs \/ \E p \in Pod, s \in Slot, j \in Job : ClaimStep(p, s, j)
<1> DEFINE Goal ==
      KeepsExecs \/ \E p \in Pod, s \in Slot, j \in Job : ClaimStep(p, s, j)
<1> USE DEF TypeInv, TypeOK
<1>1. ASSUME NEW p \in Pod, NEW s \in Slot, ClaimAtomic(p, s) PROVE Goal
  BY <1>1 DEF ClaimAtomic, ClaimStep, First, Due
<1>2. ASSUME NEW p \in Pod, NEW s \in Slot, ClaimSelect(p, s) PROVE Goal
  <2>1. Idle("claim") \in Exec /\ Idle("claim").pc \notin Executing
    BY IdleTypes DEF Idle, Executing
  <2> QED BY <1>2, <2>1, CandsKeeps DEF ClaimSelect
<1>3. ASSUME NEW p \in Pod, NEW s \in Slot, ClaimTry(p, s) PROVE Goal
  <2>1. exec[p][s] \in Exec /\ exec[p][s].cands \subseteq Job
    BY DEF Exec
  <2>2. \/ \E j \in Job : ClaimStep(p, s, j)
        \/ SetExec(p, s, Idle("wait"))
        \/ \E j \in Job : SetExec(p, s, [exec[p][s] EXCEPT !.cands = @ \ {j}])
    BY <1>3, <2>1 DEF ClaimTry, ClaimStep
  <2>3. exec[p][s].pc \notin Executing
    BY <1>3 DEF ClaimTry, Executing
  <2> QED BY <2>1, <2>2, <2>3, IdleKeeps, CandsKeeps
<1>4. ASSUME NEW p \in Pod, NEW s \in Slot,
             \/ ClaimNone(p, s) \/ Tick(p, s) \/ WorkerStops(p, s)
             \/ Settle(p, s) \/ Retry(p, s)
             \/ ClaimFails(p, s) \/ SettleFails(p, s)
      PROVE  Goal
  BY <1>4, IdleKeeps DEF ClaimNone, Tick, WorkerStops, Settle, Retry,
     ClaimFails, SettleFails
<1>5. ASSUME NEW p \in Pod, NEW s \in Slot,
             HandlerReturns(p, s) \/ CheckFails(p, s) \/ CheckCancel(p, s)
      PROVE  Goal
  BY <1>5, GotoKeeps DEF HandlerReturns, CheckFails, CheckCancel, Executing
<1>6. ASSUME NEW p \in Pod, NEW s \in Slot, HeartbeatCancels(p, s) PROVE Goal
  <2> DEFINE e == [exec[p][s] EXCEPT !.lost = TRUE]
  <2>1. e.pc = exec[p][s].pc /\ e.job = exec[p][s].job
           /\ e.tries = exec[p][s].tries
    BY DEF Exec
  <2> QED BY <1>6, <2>1, KeepsIfOneMoves DEF HeartbeatCancels
<1>7. ASSUME UNCHANGED exec PROVE Goal
  BY <1>7 DEF KeepsExecs, Holds
<1>8. ASSUME NEW p \in Pod, RecoverDone(p) PROVE Goal
  <2>1. CASE mode[p] = "starting"
    <3>1. exec' = [exec EXCEPT ![p] = [s \in Slot |-> Idle("poll")]]
      BY <1>8, <2>1 DEF RecoverDone
    <3>2. Idle("poll").pc \notin Executing
      BY DEF Idle, Executing
    <3> QED BY <3>1, <3>2 DEF KeepsExecs, Holds
  <2>2. CASE mode[p] # "starting"
    BY <1>8, <2>2, IdleKeeps, JobsAssumption DEF RecoverDone
  <2> QED BY <2>1, <2>2
<1>9. ASSUME NEW p \in Pod, PruneDelete(p) \/ RecoverTick(p) PROVE Goal
  BY <1>9, IdleKeeps, JobsAssumption DEF PruneDelete, RecoverTick
<1>10. ASSUME NEW p \in Pod, PruneSelect(p) PROVE Goal
  <2>1. Idle("prune") \in Exec /\ Idle("prune").pc \notin Executing
    BY IdleTypes DEF Idle, Executing
  <2> QED BY <1>10, <2>1, CandsKeeps, JobsAssumption DEF PruneSelect
<1>11. ASSUME NEW p \in Pod, Crash(p) PROVE Goal
  <2>1. Idle("stopped").pc \notin Executing
    BY DEF Idle, Executing
  <2> QED BY <1>11, <2>1 DEF Crash, KeepsExecs, Holds
<1>12. ASSUME NEW p \in Pod,
              \/ StartRunner(p) \/ RecoverRow(p) \/ RunnerExits(p)
              \/ Drain(p) \/ ShutDown(p) \/ RecoverFails(p)
       PROVE  Goal
  BY <1>7, <1>12 DEF StartRunner, RecoverRow, RunnerExits, Drain, ShutDown,
     RecoverFails
<1>13. ASSUME NEW j \in Job,
              \/ Enqueue(j) \/ CancelAtomic(j) \/ CancelSelect(j)
              \/ BecomesDue(j) \/ LeaseExpires(j)
       PROVE  Goal
  BY <1>7, <1>13 DEF Enqueue, CancelAtomic, CancelSelect, BecomesDue, LeaseExpires
<1>14. ASSUME NEW p \in Pod, NEW s \in Slot, HeartbeatRenews(p, s) PROVE Goal
  BY <1>7, <1>14 DEF HeartbeatRenews
<1>15. ASSUME CancelUpdate \/ \E k \in Key : CancelSingleton(k) PROVE Goal
  BY <1>7, <1>15 DEF CancelUpdate, CancelSingleton
<1> QED
  BY <1>1, <1>2, <1>3, <1>4, <1>5, <1>6, <1>7, <1>8, <1>9, <1>10, <1>11, <1>12,
     <1>13, <1>14, <1>15 DEF Next, WorkerStep, RunnerStep, vars

-----------------------------------------------------------------------------
(* The attempt number is a fencing token.                                  *)

\* A row that is still to come has no executions.
NoEarlyExecution ==
  \A p \in Pod, s \in Slot, j \in Job :
    Holds(p, s, j) => row[j].status # "absent"

FenceInv == TypeInv /\ AttemptIsFence /\ NoEarlyExecution

\* A row keeps its attempts, unless it is claimed or deleted.
LEMMA AttemptsFrame ==
  ASSUME TypeInv, [Next]_vars, NEW j \in Job
  PROVE  /\ row[j].status # "absent" => row'[j].status # "absent"
         /\ (row[j].status # "absent" /\ Exists(j)') =>
              /\ Exists(j)
              /\ row'[j].attempts \in {row[j].attempts, row[j].attempts + 1}
<1>1. row[j] \in Row /\ row'[j] \in Row
  BY TypeStep DEF TypeInv, TypeOK
<1>2. CASE row'[j] = row[j]
  BY <1>2 DEF Exists
<1>3. CASE row[j].status = "queued" /\ \E s \in Slot : row'[j] = Claimed(row[j], s)
  <2>1. PICK s \in Slot : row'[j] = Claimed(row[j], s)
    BY <1>3
  <2>2. row'[j].attempts = row[j].attempts + 1 /\ row'[j].status = "running"
    BY <1>1, <2>1 DEF Claimed, Row
  <2> QED BY <1>3, <2>2 DEF Exists
<1>4. CASE SettlesRow(j)
  <2>1. PICK st \in Terminal : row'[j] = Settled(row[j], st)
    BY <1>4 DEF SettlesRow, Terminal
  <2>2. row'[j].attempts = row[j].attempts /\ row'[j].status = st
    BY <1>1, <2>1 DEF Settled, Row
  <2> QED BY <1>4, <2>2 DEF SettlesRow, Exists, Terminal
<1>5. CASE EntersIndex(j)
  <2>1. CASE row[j].status = "absent"
    <3>1. row'[j] = [row[j] EXCEPT !.status = "queued"]
      BY <1>5, <2>1 DEF EntersIndex, Exists, TypeInv, TypeOK
    <3>2. row'[j].status = "queued"
      BY <1>1, <3>1 DEF Row
    <3> QED BY <2>1, <3>2
  <2>2. CASE row[j].status # "absent"
    <3>1. Exists(j) /\ row'[j] = Requeued(row[j], FALSE)
      BY <1>5, <2>2 DEF EntersIndex, TypeInv, TypeOK
    <3>2. row'[j].attempts = row[j].attempts /\ row'[j].status = "queued"
      BY <1>1, <3>1 DEF Requeued, Settled, Row
    <3> QED BY <3>1, <3>2
  <2> QED BY <2>1, <2>2
<1>6. CASE row[j].status = "running" /\ row'[j] = Requeued(row[j], TRUE)
  <2>1. row'[j].attempts = row[j].attempts /\ row'[j].status = "queued"
    BY <1>1, <1>6 DEF Requeued, Settled, Row
  <2> QED BY <1>6, <2>1 DEF Exists
<1>7. CASE row'[j] = PrunedRow
  BY <1>7 DEF PrunedRow, NewRow, Exists
<1>8. CASE CancelsRow(j)
  BY <1>1, <1>8 DEF CancelsRow, Exists, Row
<1>9. CASE row[j].status = "queued" /\ row'[j] = [row[j] EXCEPT !.due = TRUE]
  BY <1>1, <1>9 DEF Exists, Row
<1>10. CASE /\ row[j].status = "running"
            /\ \E b \in BOOLEAN : row'[j] = [row[j] EXCEPT !.expired = b]
  BY <1>1, <1>10 DEF Exists, Row
<1> QED BY <1>2, <1>3, <1>4, <1>5, <1>6, <1>7, <1>8, <1>9, <1>10, RowSteps
        DEF RowStep

LEMMA FenceStep == FenceInv /\ [Next]_vars => FenceInv'
<1> SUFFICES ASSUME FenceInv, [Next]_vars PROVE FenceInv'
  OBVIOUS
<1> USE DEF FenceInv
<1>1. TypeInv'
  BY TypeStep
<1>2. CASE KeepsExecs
  <2>1. ASSUME NEW p \in Pod, NEW s \in Slot, NEW j \in Job,
               Holds(p, s, j)', Exists(j)'
        PROVE  exec'[p][s].tries <= row'[j].attempts
    <3>1. /\ Holds(p, s, j) /\ exec'[p][s].tries = exec[p][s].tries
          /\ row[j].status # "absent"
      BY <1>2, <2>1 DEF KeepsExecs, NoEarlyExecution
    <3>2. /\ exec[p][s].tries <= row[j].attempts
          /\ row'[j].attempts \in {row[j].attempts, row[j].attempts + 1}
      BY <2>1, <3>1, AttemptsFrame DEF AttemptIsFence
    <3>3. exec[p][s].tries \in Nat /\ row[j].attempts \in Nat
      BY DEF TypeInv, TypeOK, Exec, Row
    <3> QED BY <3>1, <3>2, <3>3
  <2>2. AttemptIsFence'
    BY <1>2, <2>1 DEF KeepsExecs, AttemptIsFence
  <2>3. NoEarlyExecution'
    BY <1>2, AttemptsFrame DEF KeepsExecs, NoEarlyExecution
  <2> QED BY <1>1, <2>2, <2>3
<1>3. ASSUME NEW p \in Pod, NEW s \in Slot, NEW j \in Job, ClaimStep(p, s, j)
      PROVE  FenceInv'
  <2>1. /\ row' = [row EXCEPT ![j] = Claimed(row[j], s)]
        /\ row'[j].attempts = row[j].attempts + 1 /\ row'[j].status = "running"
        /\ row[j].attempts \in Nat
    BY <1>3 DEF ClaimStep, Claim, Put, Exists, Claimed, TypeInv, TypeOK, Row
  <2>2. /\ exec'[p][s].job = j /\ exec'[p][s].tries = row[j].attempts + 1
        /\ \A q \in Pod, t \in Slot :
             <<q, t>> # <<p, s>> => exec'[q][t] = exec[q][t]
    BY <1>3 DEF ClaimStep, Claim, SetExec, TypeInv, TypeOK
  <2>3. \A q \in Pod, t \in Slot :
          Holds(q, t, j) => exec[q][t].tries <= row[j].attempts
    BY <1>3 DEF AttemptIsFence, ClaimStep, Exists
  <2>4. \A q \in Pod, t \in Slot : exec[q][t].tries \in Nat
    BY DEF TypeInv, TypeOK, Exec
  <2>5. \A q \in Pod, t \in Slot, i \in Job :
          <<q, t>> # <<p, s>> => (Holds(q, t, i)' <=> Holds(q, t, i))
    BY <2>2 DEF Holds
  <2>6. \A i \in Job : Holds(p, s, i)' => i = j
    BY <2>2 DEF Holds
  <2>7. \A i \in Job : i # j => row'[i] = row[i]
    BY <2>1 DEF TypeInv, TypeOK
  <2>8. AttemptIsFence'
    <3> SUFFICES ASSUME NEW q \in Pod, NEW r \in Pod, NEW t \in Slot,
                        NEW u \in Slot, NEW i \in Job, Holds(q, t, i)'
                 PROVE  /\ Exists(i)' => exec'[q][t].tries <= row'[i].attempts
                        /\ (/\ Holds(r, u, i)'
                            /\ exec'[r][u].tries = exec'[q][t].tries) =>
                             (q = r /\ t = u)
      BY DEF AttemptIsFence
    <3>1. Exists(i)' => exec'[q][t].tries <= row'[i].attempts
      BY <2>1, <2>2, <2>3, <2>4, <2>5, <2>6, <2>7 DEF AttemptIsFence, Exists
    <3>2. ASSUME Holds(r, u, i)', exec'[r][u].tries = exec'[q][t].tries
          PROVE  q = r /\ t = u
      <4>1. CASE <<q, t>> = <<p, s>> \/ <<r, u>> = <<p, s>>
        BY <2>1, <2>2, <2>3, <2>4, <2>5, <2>6, <3>2, <4>1
      <4>2. CASE <<q, t>> # <<p, s>> /\ <<r, u>> # <<p, s>>
        BY <2>2, <2>5, <3>2, <4>2 DEF AttemptIsFence
      <4> QED BY <4>1, <4>2
    <3> QED BY <3>1, <3>2
  <2>9. NoEarlyExecution'
    BY <2>1, <2>5, <2>6, <2>7 DEF NoEarlyExecution
  <2> QED BY <1>1, <2>8, <2>9
<1> QED BY <1>2, <1>3, ExecSteps

\* Executions of one job never share an attempt number, in any deployment.
THEOREM FenceSafe == Spec => []AttemptIsFence
<1>1. Init => FenceInv
  BY TypeInit DEF Init, FenceInv, AttemptIsFence, NoEarlyExecution, Holds, Idle,
     Executing
<1>2. FenceInv /\ [Next]_vars => FenceInv'
  BY FenceStep
<1>3. FenceInv => AttemptIsFence
  BY DEF FenceInv
<1> QED BY <1>1, <1>2, <1>3, PTL DEF Spec

-----------------------------------------------------------------------------
(* Singleton keys.                                                         *)

\* A job becomes active only by a write the index has let through.
LEMMA ActiveFrame ==
  ASSUME TypeInv, [Next]_vars, NEW j \in Job, IsActive(j)'
  PROVE  IsActive(j) \/ EntersIndex(j)
<1>1. row[j] \in Row
  BY DEF TypeInv, TypeOK
<1>2. CASE row'[j] = row[j] \/ row[j].status \in {"queued", "running"}
  BY <1>2 DEF IsActive, Active
<1>3. CASE SettlesRow(j)
  <2>1. PICK st \in Terminal : row'[j] = Settled(row[j], st)
    BY <1>3 DEF SettlesRow, Terminal
  <2>2. row'[j].status = st
    BY <1>1, <2>1 DEF Settled, Row
  <2> QED BY <2>2 DEF IsActive, Active, Terminal
<1>4. CASE row'[j] = PrunedRow
  BY <1>4 DEF PrunedRow, NewRow, IsActive, Active
<1>5. CASE CancelsRow(j)
  BY <1>1, <1>5 DEF CancelsRow, IsActive, Active, Row
<1> QED BY <1>2, <1>3, <1>4, <1>5, RowSteps DEF RowStep

\* At most one job of a key is active, in any deployment.
THEOREM SingletonSafe == Spec => []SingletonExclusive
<1> DEFINE IInv == TypeInv /\ SingletonExclusive
<1>1. Init => IInv
  BY TypeInit DEF Init, SingletonExclusive, IsActive, Active, NewRow
<1>2. IInv /\ [Next]_vars => IInv'
  <2> SUFFICES ASSUME IInv, [Next]_vars PROVE IInv'
    OBVIOUS
  <2>1. TypeInv'
    BY TypeStep
  <2>2. ASSUME NEW i \in Job, NEW j \in Job, i # j, KeyOf[i] = KeyOf[j],
               KeyOf[i] # NoKey, IsActive(i)', IsActive(j)', EntersIndex(j)
        PROVE  FALSE
    <3>1. row'[i] = row[i] /\ ~KeyTaken(j)
      BY <2>2 DEF EntersIndex, TypeInv, TypeOK
    <3>2. IsActive(i)
      BY <2>2, <3>1 DEF IsActive
    <3> QED BY <2>2, <3>1, <3>2 DEF KeyTaken
  <2>3. SingletonExclusive'
    BY <2>2, ActiveFrame DEF SingletonExclusive
  <2> QED BY <2>1, <2>3
<1>3. IInv => SingletonExclusive
  OBVIOUS
<1> QED BY <1>1, <1>2, <1>3, PTL DEF Spec

-----------------------------------------------------------------------------
(* Claims and cancellations.                                               *)

\* A worker marks its job as cancelled only when somebody has asked for it: a
\* request is not taken back until the row is deleted.
MarkedWasAsked ==
  \A p \in Pod, s \in Slot, j \in Job :
    (exec[p][s].pc = "markcancelled" /\ exec[p][s].job = j) =>
      row[j].cancel \/ row[j].status = "pruned"

LEMMA RowFrame ==
  ASSUME TypeInv, MarkedWasAsked, ClaimInv, [Next]_vars, NEW j \in Job,
         row[j].status # "pruned"
  PROVE  /\ row[j].cancel => row'[j].cancel \/ row'[j].status = "pruned"
         /\ row'[j].status = "running" => row'[j].claimedBy # NoSlot
         /\ row'[j].status = "cancelled" => row'[j].cancel
<1>1. row[j] \in Row
  BY DEF TypeInv, TypeOK
<1>2. /\ row[j].status = "running" => row[j].claimedBy # NoSlot
      /\ row[j].status = "cancelled" => row[j].cancel
  BY DEF ClaimInv
<1>3. CASE row'[j] = row[j]
  BY <1>2, <1>3
<1>4. CASE \E s \in Slot : row'[j] = Claimed(row[j], s)
  BY <1>1, <1>4, JobsAssumption DEF Claimed, Row
<1>5. CASE SettlesRow(j)
  <2>1. PICK st \in Terminal :
          /\ row'[j] = Settled(row[j], st)
          /\ st = "cancelled" => row[j].cancel
    BY <1>5 DEF SettlesRow, Terminal, MarkedWasAsked, Exists
  <2>2. row'[j].status = st /\ row'[j].cancel = row[j].cancel
    BY <1>1, <2>1 DEF Settled, Row
  <2> QED BY <2>1, <2>2 DEF Terminal
<1>6. CASE EntersIndex(j)
  <2>1. \/ row'[j] = [row[j] EXCEPT !.status = "queued"]
        \/ row'[j] = Requeued(row[j], FALSE)
    BY <1>6 DEF EntersIndex, TypeInv, TypeOK
  <2>2. row'[j].status = "queued" /\ row'[j].cancel = row[j].cancel
    BY <1>1, <2>1 DEF Requeued, Settled, Row
  <2> QED BY <2>2
<1>7. CASE row'[j] = Requeued(row[j], TRUE)
  BY <1>1, <1>7 DEF Requeued, Settled, Row
<1>8. CASE row'[j] = PrunedRow
  BY <1>8 DEF PrunedRow, NewRow
<1>9. CASE CancelsRow(j)
  BY <1>1, <1>2, <1>9 DEF CancelsRow, Row
<1>10. CASE \/ row'[j] = [row[j] EXCEPT !.due = TRUE]
            \/ \E b \in BOOLEAN : row'[j] = [row[j] EXCEPT !.expired = b]
  BY <1>1, <1>2, <1>10 DEF Row
<1> QED BY <1>3, <1>4, <1>5, <1>6, <1>7, <1>8, <1>9, <1>10, RowSteps DEF RowStep

\* A deleted row stays deleted.
LEMMA PrunedFrame ==
  ASSUME TypeInv, [Next]_vars, NEW j \in Job, row[j].status = "pruned"
  PROVE  row'[j].status = "pruned"
<1>1. ~SettlesRow(j) /\ ~EntersIndex(j) /\ ~CancelsRow(j)
  BY DEF SettlesRow, EntersIndex, CancelsRow, Exists
<1> QED BY <1>1, RowSteps DEF RowStep, PrunedRow, NewRow

LEMMA ClaimInvStep ==
  ASSUME TypeInv, MarkedWasAsked, ClaimInv, [Next]_vars
  PROVE  MarkedWasAsked' /\ ClaimInv'
<1>1. ClaimInv'
  BY RowFrame, PrunedFrame DEF ClaimInv
<1>2. \A j \in Job : (row[j].cancel \/ row[j].status = "pruned") =>
        row'[j].cancel \/ row'[j].status = "pruned"
  BY RowFrame, PrunedFrame
<1>3. CASE KeepsExecs
  <2> SUFFICES ASSUME NEW p \in Pod, NEW s \in Slot, NEW j \in Job,
                      exec'[p][s].pc = "markcancelled", exec'[p][s].job = j
               PROVE  row[j].cancel \/ row[j].status = "pruned"
    BY <1>1, <1>2 DEF MarkedWasAsked
  <2>1. Holds(p, s, j)'
    BY DEF Holds, Executing
  <2> QED BY <1>3, <2>1 DEF KeepsExecs, MarkedWasAsked, Holds
<1>4. ASSUME NEW p \in Pod, NEW s \in Slot, NEW i \in Job, ClaimStep(p, s, i)
      PROVE  MarkedWasAsked'
  <2>1. exec'[p][s].pc # "markcancelled"
    BY <1>4 DEF ClaimStep, Claim, SetExec, Start, TypeInv, TypeOK
  <2>2. \A q \in Pod, t \in Slot :
           <<q, t>> # <<p, s>> => exec'[q][t] = exec[q][t]
    BY <1>4 DEF ClaimStep, Claim, SetExec, TypeInv, TypeOK
  <2> QED BY <1>2, <2>1, <2>2 DEF MarkedWasAsked
<1> QED BY <1>1, <1>3, <1>4, ExecSteps

\* A running row has a claimant and a cancelled one its request, in any
\* deployment.
THEOREM ClaimSafe == Spec => []ClaimInv
<1> DEFINE IInv == TypeInv /\ MarkedWasAsked /\ ClaimInv
<1>1. Init => IInv
  BY TypeInit DEF Init, MarkedWasAsked, ClaimInv, NewRow, Idle
<1>2. IInv /\ [Next]_vars => IInv'
  BY TypeStep, ClaimInvStep
<1>3. IInv => ClaimInv
  OBVIOUS
<1> QED BY <1>1, <1>2, <1>3, PTL DEF Spec

-----------------------------------------------------------------------------
(* One process whose live executions keep their lease.                     *)

OneTimelyProcess == Isolated /\ Timely /\ \A p, q \in Pod : p = q

-----------------------------------------------------------------------------
(* What a step can do to the lists read ahead of a write.                  *)

\* A recovery list shrinks, or is read from the table as it is.
LEMMA StaleFrame ==
  ASSUME TypeInv, [Next]_vars, NEW p \in Pod
  PROVE  \/ stale'[p] \subseteq stale[p]
         \/ row' = row /\ stale'[p] = Expired
<1> DEFINE Goal == \/ stale'[p] \subseteq stale[p]
                   \/ row' = row /\ stale'[p] = Expired
<1> USE DEF TypeInv, TypeOK
<1>1. ASSUME UNCHANGED stale PROVE Goal
  BY <1>1
<1>2. ASSUME NEW q \in Pod, NEW s \in Slot,
             \/ WorkerStep(q, s) \/ HeartbeatRenews(q, s) \/ HeartbeatCancels(q, s)
             \/ ClaimFails(q, s) \/ SettleFails(q, s) \/ CheckFails(q, s)
      PROVE  Goal
  BY <1>1, <1>2 DEF WorkerStep, HeartbeatRenews, HeartbeatCancels, ClaimFails,
     SettleFails, CheckFails, ClaimAtomic, ClaimSelect, ClaimTry, ClaimNone,
     Tick, WorkerStops, HandlerReturns, CheckCancel, Settle, Retry
<1>3. ASSUME NEW q \in Pod, StartRunner(q) \/ RecoverTick(q) PROVE Goal
  BY <1>3 DEF StartRunner, RecoverTick
<1>4. ASSUME NEW q \in Pod, RecoverRow(q) PROVE Goal
  <2>1. \E je : stale' = [stale EXCEPT ![q] = @ \ {je}]
    BY <1>4 DEF RecoverRow
  <2> QED BY <2>1
<1>5. ASSUME NEW q \in Pod,
             RecoverDone(q) \/ ShutDown(q) \/ Crash(q) \/ RecoverFails(q)
      PROVE  Goal
  BY <1>5 DEF RecoverDone, ShutDown, Crash, RecoverFails
<1>6. ASSUME NEW q \in Pod,
             PruneDelete(q) \/ RunnerExits(q) \/ PruneSelect(q) \/ Drain(q)
      PROVE  Goal
  BY <1>1, <1>6 DEF PruneDelete, RunnerExits, PruneSelect, Drain
<1>7. ASSUME NEW j \in Job,
             \/ Enqueue(j) \/ CancelAtomic(j) \/ CancelSelect(j)
             \/ BecomesDue(j) \/ LeaseExpires(j)
      PROVE  Goal
  BY <1>1, <1>7 DEF Enqueue, CancelAtomic, CancelSelect, BecomesDue, LeaseExpires
<1>8. ASSUME CancelUpdate \/ \E k \in Key : CancelSingleton(k) PROVE Goal
  BY <1>1, <1>8 DEF CancelUpdate, CancelSingleton
<1> QED
  BY <1>1, <1>2, <1>3, <1>4, <1>5, <1>6, <1>7, <1>8 DEF Next, RunnerStep, vars

Pruning(p) == exec[p][FirstSlot].pc = "prune"
PruneList(p) == exec[p][FirstSlot].cands

\* A list to prune stays as it is, or is read from the table as it is.
LEMMA PruneFrame ==
  ASSUME TypeInv, [Next]_vars, NEW p \in Pod, Pruning(p)'
  PROVE  \/ Pruning(p) /\ PruneList(p)' = PruneList(p)
         \/ row' = row /\ \A j \in PruneList(p)' : row[j].status \in Terminal
<1> DEFINE Goal == \/ Pruning(p) /\ PruneList(p)' = PruneList(p)
                   \/ row' = row /\ \A j \in PruneList(p)' : row[j].status \in Terminal
<1> USE DEF TypeInv, TypeOK
<1>1. ASSUME UNCHANGED exec PROVE Goal
  BY <1>1 DEF Pruning, PruneList
<1>2. ASSUME NEW q \in Pod, NEW s \in Slot, NEW e, SetExec(q, s, e), e.pc # "prune"
      PROVE  Goal
  BY <1>2, JobsAssumption DEF SetExec, Pruning, PruneList
<1>3. ASSUME NEW q \in Pod, NEW s \in Slot, NEW e \in Exec, NEW C,
             SetExec(q, s, [e EXCEPT !.cands = C]), e.pc # "prune"
      PROVE  Goal
  <2>1. [e EXCEPT !.cands = C].pc # "prune"
    BY <1>3 DEF Exec
  <2> QED BY <1>2, <1>3, <2>1
<1>4. ASSUME NEW q \in Pod, NEW s \in Slot, NEW pc \in Executing, Goto(q, s, pc)
      PROVE  Goal
  <2>1. exec[q][s] \in Exec
    BY DEF Exec
  <2>2. [exec[q][s] EXCEPT !.pc = pc].pc # "prune"
    BY <2>1 DEF Exec, Executing
  <2> QED BY <1>2, <1>4, <2>2 DEF Goto
<1>5. ASSUME NEW q \in Pod, NEW s \in Slot, SetExec(q, s, LoopTop(q)) PROVE Goal
  BY <1>2, <1>5 DEF LoopTop, Idle
<1>6. ASSUME NEW q \in Pod, NEW s \in Slot, NEW pc, pc # "prune",
             SetExec(q, s, Idle(pc))
      PROVE  Goal
  BY <1>2, <1>6 DEF Idle
<1>7. ASSUME NEW q \in Pod, NEW s \in Slot, NEW j, Claim(q, s, j) PROVE Goal
  BY <1>2, <1>7 DEF Claim, Start
<1>8. ASSUME NEW q \in Pod, NEW s \in Slot, WorkerStep(q, s) PROVE Goal
  <2>1. CASE ClaimAtomic(q, s)
    BY <1>7, <2>1 DEF ClaimAtomic
  <2>2. CASE ClaimSelect(q, s)
    <3>1. Idle("claim") \in Exec /\ Idle("claim").pc # "prune"
      BY IdleTypes DEF Idle
    <3> QED BY <1>3, <2>2, <3>1 DEF ClaimSelect
  <2>3. CASE ClaimTry(q, s)
    <3>1. exec[q][s] \in Exec /\ exec[q][s].pc # "prune"
      BY <2>3 DEF ClaimTry
    <3> QED BY <1>3, <1>6, <1>7, <2>3, <3>1 DEF ClaimTry
  <2>4. CASE ClaimNone(q, s) \/ WorkerStops(q, s)
    BY <1>6, <2>4 DEF ClaimNone, WorkerStops
  <2>5. CASE Tick(q, s) \/ Settle(q, s) \/ Retry(q, s)
    BY <1>5, <2>5 DEF Tick, Settle, Retry
  <2>6. CASE HandlerReturns(q, s) \/ CheckCancel(q, s)
    BY <1>4, <2>6 DEF HandlerReturns, CheckCancel, Executing
  <2> QED BY <1>8, <2>1, <2>2, <2>3, <2>4, <2>5, <2>6 DEF WorkerStep
<1>9. ASSUME NEW q \in Pod, NEW s \in Slot,
             ClaimFails(q, s) \/ SettleFails(q, s) \/ CheckFails(q, s)
      PROVE  Goal
  BY <1>4, <1>5, <1>6, <1>9 DEF ClaimFails, SettleFails, CheckFails, Executing
<1>10. ASSUME NEW q \in Pod, NEW s \in Slot, HeartbeatCancels(q, s) PROVE Goal
  <2> DEFINE e == [exec[q][s] EXCEPT !.lost = TRUE]
  <2>1. e.pc = exec[q][s].pc
    BY DEF Exec
  <2>2. e.pc # "prune"
    BY <1>10, <2>1 DEF HeartbeatCancels
  <2> QED BY <1>2, <1>10, <2>2 DEF HeartbeatCancels
<1>11. ASSUME NEW q \in Pod, RecoverDone(q) PROVE Goal
  <2>1. CASE mode[q] = "starting"
    <3>1. exec' = [exec EXCEPT ![q] = [s \in Slot |-> Idle("poll")]]
      BY <1>11, <2>1 DEF RecoverDone
    <3> QED BY <3>1, JobsAssumption DEF Idle, Pruning, PruneList
  <2>2. CASE mode[q] # "starting"
    BY <1>5, <1>11, <2>2, JobsAssumption DEF RecoverDone
  <2> QED BY <2>1, <2>2
<1>12. ASSUME NEW q \in Pod, PruneDelete(q) \/ RecoverTick(q) PROVE Goal
  BY <1>5, <1>6, <1>12, JobsAssumption DEF PruneDelete, RecoverTick
<1>13. ASSUME NEW q \in Pod, PruneSelect(q) PROVE Goal
  <2>1. PICK C \in SUBSET {j \in Job : row[j].status \in Terminal} :
          SetExec(q, FirstSlot, [Idle("prune") EXCEPT !.cands = C])
    BY <1>13 DEF PruneSelect
  <2>2. [Idle("prune") EXCEPT !.cands = C].cands = C
    BY DEF Idle
  <2> QED BY <1>13, <2>1, <2>2, JobsAssumption
          DEF PruneSelect, SetExec, Pruning, PruneList
<1>14. ASSUME NEW q \in Pod, Crash(q) PROVE Goal
  BY <1>14, JobsAssumption DEF Crash, Idle, Pruning, PruneList
<1>15. ASSUME UNCHANGED exec \/ \E k \in Key : CancelSingleton(k) PROVE Goal
  BY <1>1, <1>15 DEF CancelSingleton
<1>16. ASSUME NEW q \in Pod,
              \/ StartRunner(q) \/ RecoverRow(q) \/ RunnerExits(q)
              \/ Drain(q) \/ ShutDown(q) \/ RecoverFails(q)
       PROVE  Goal
  BY <1>1, <1>16 DEF StartRunner, RecoverRow, RunnerExits, Drain, ShutDown,
     RecoverFails
<1>17. ASSUME NEW j \in Job,
              \/ Enqueue(j) \/ CancelAtomic(j) \/ CancelSelect(j)
              \/ BecomesDue(j) \/ LeaseExpires(j)
       PROVE  Goal
  BY <1>1, <1>17 DEF Enqueue, CancelAtomic, CancelSelect, BecomesDue, LeaseExpires
<1>18. ASSUME NEW q \in Pod, NEW s \in Slot, HeartbeatRenews(q, s) PROVE Goal
  BY <1>1, <1>18 DEF HeartbeatRenews
<1>19. ASSUME CancelUpdate PROVE Goal
  BY <1>1, <1>19 DEF CancelUpdate
<1> QED
  BY <1>8, <1>9, <1>10, <1>11, <1>12, <1>13, <1>14, <1>15, <1>16, <1>17, <1>18,
     <1>19 DEF Next, RunnerStep, vars

-----------------------------------------------------------------------------
(* The inductive invariant.                                                *)

\* Recovery lists hold running rows whose claim has expired, as they are.
StaleIsDead ==
  \A p \in Pod : \A je \in stale[p] :
    /\ row[je[1]].status = "running" /\ row[je[1]].expired
    /\ row[je[1]].attempts = je[2]

\* A job still to be claimed has attempts left.
AttemptsLeft ==
  \A j \in Job :
    /\ row[j].attempts <= MaxAttempts[j]
    /\ row[j].status = "queued" => row[j].attempts < MaxAttempts[j]
    /\ row[j].status = "absent" => row[j].attempts = 0

Over == Terminal \cup {"pruned"}

\* Lists to prune hold rows that are over.
PruneIsOver ==
  \A p \in Pod :
    Pruning(p) => \A j \in PruneList(p) : row[j].status \in Over

OnePodInv ==
  /\ TypeInv /\ ExclusiveExecution /\ StaleIsDead /\ AttemptsLeft
  /\ PruneIsOver /\ cancelTx = {}

SameClaim(j) ==
  /\ row'[j].status = row[j].status /\ row'[j].claimedBy = row[j].claimedBy
  /\ row'[j].attempts = row[j].attempts

Unheld(j) == \A p \in Pod, s \in Slot : ~Holds(p, s, j)
Unlisted(j) == \A p \in Pod : \A je \in stale[p] : je[1] # j

Keeps(j) == SameClaim(j) /\ row'[j].expired = row[j].expired
Lapses(j) == row[j].status = "running" /\ SameClaim(j) /\ Unheld(j)
             /\ row'[j].expired
Renews(j) == row[j].status = "running" /\ SameClaim(j) /\ Unlisted(j)'
             /\ row'[j].expired = FALSE
Enters(j) == row[j].status \in {"absent", "queued"}
             /\ row'[j].status \in {"queued", "cancelled"}
             /\ row'[j].attempts = row[j].attempts
Leaves(j) == row[j].status = "running"
             /\ \/ row'[j].status \in Terminal
                \/ /\ row'[j].status = "queued"
                   /\ row[j].attempts < MaxAttempts[j]
             /\ row'[j].attempts = row[j].attempts
             /\ Unheld(j)' /\ Unlisted(j)'
Removed(j) == row[j].status \in Over /\ row'[j].status = "pruned"
              /\ row'[j].attempts = 0

\* All that happens to a row, but being claimed.
RowMove(j) ==
  Keeps(j) \/ Lapses(j) \/ Renews(j) \/ Enters(j) \/ Leaves(j) \/ Removed(j)

\* A running row is on a recovery list only when nobody executes it.
LEMMA HeldUnlisted ==
  ASSUME OnePodInv, NEW p \in Pod, NEW s \in Slot, NEW j \in Job, Holds(p, s, j)
  PROVE  Unlisted(j) /\ row[j].status = "running"
BY DEF OnePodInv, ExclusiveExecution, StaleIsDead, Unlisted

\* After the worker that executes j has left it, nobody executes it.
LEMMA LeftUnheld ==
  ASSUME OnePodInv, NEW p \in Pod, NEW s \in Slot, NEW j \in Job, Holds(p, s, j),
         SetExec(p, s, LoopTop(p))
  PROVE  Unheld(j)'
<1>1. LoopTop(p).pc \notin Executing
  BY DEF LoopTop, Idle, Executing
<1> QED BY <1>1 DEF OnePodInv, ExclusiveExecution, Unheld, Holds, SetExec,
                    TypeInv, TypeOK

\* What an UPDATE of row j alone leaves of the others.
LEMMA OthersKeep ==
  ASSUME TypeInv, NEW j \in Job, NEW r, row' = [row EXCEPT ![j] = r],
         NEW i \in Job, i # j
  PROVE  RowMove(i)
BY DEF TypeInv, TypeOK, RowMove, Keeps, SameClaim

LEMMA RowMoves ==
  ASSUME OneTimelyProcess, OnePodInv, [Next]_vars,
         ~\E p \in Pod, s \in Slot, j \in Job : ClaimStep(p, s, j),
         NEW i \in Job
  PROVE  RowMove(i)
<1> USE DEF OnePodInv, TypeInv, TypeOK
<1>0. row[i] \in Row /\ row'[i] \in Row
  BY TypeStep
<1>1. ASSUME UNCHANGED row PROVE RowMove(i)
  BY <1>1 DEF RowMove, Keeps, SameClaim
<1>2. ASSUME NEW p \in Pod, NEW s \in Slot, CheckCancel(p, s) PROVE RowMove(i)
  <2>1. CASE row' = row
    BY <1>1, <2>1
  <2>2. CASE row' # row
    <3> DEFINE j == exec[p][s].job
    <3>1. j \in Job /\ Holds(p, s, j)
      BY <1>2 DEF CheckCancel, JobKnown, Executing, Holds
    <3>2. row' = [row EXCEPT ![j].expired = FALSE] /\ UNCHANGED stale
      BY <1>2, <2>2 DEF CheckCancel
    <3>3. CASE i = j
      <4>1. row[i].status = "running" /\ Unlisted(i)'
        BY <3>1, <3>2, <3>3, HeldUnlisted DEF Unlisted
      <4>2. SameClaim(i) /\ row'[i].expired = FALSE
        BY <1>0, <3>2, <3>3 DEF SameClaim, Row
      <4> QED BY <4>1, <4>2 DEF RowMove, Renews
    <3>4. CASE i # j
      BY <3>1, <3>2, <3>4, OthersKeep
    <3> QED BY <3>3, <3>4
  <2> QED BY <2>1, <2>2
<1>3. ASSUME NEW p \in Pod, NEW s \in Slot, Settle(p, s) PROVE RowMove(i)
  <2> DEFINE j == exec[p][s].job
  <2>1. j \in Job /\ Holds(p, s, j)
    BY <1>3 DEF Settle, JobKnown, Executing, Holds
  <2>2. CASE row' = row
    BY <1>1, <2>2
  <2>3. CASE row' # row
    <3>1. PICK st \in Terminal : Put(j, Settled(row[j], st))
      BY <1>3, <2>3 DEF Settle, Terminal
    <3>2. row' = [row EXCEPT ![j] = Settled(row[j], st)]
      BY <2>1, <3>1, HeldUnlisted DEF Put, Exists
    <3>3. CASE i = j
      <4>1. row'[i].status = st /\ row'[i].attempts = row[i].attempts
        BY <1>0, <3>2, <3>3 DEF Settled, Row
      <4>2. Unheld(i)'
        BY <1>3, <2>1, <3>3, LeftUnheld DEF Settle
      <4>3. row[i].status = "running" /\ Unlisted(i)'
        BY <1>3, <2>1, <3>3, HeldUnlisted DEF Settle, Unlisted
      <4> QED BY <4>1, <4>2, <4>3 DEF RowMove, Leaves
    <3>4. CASE i # j
      BY <2>1, <3>2, <3>4, OthersKeep
    <3> QED BY <3>3, <3>4
  <2> QED BY <2>2, <2>3
<1>4. ASSUME NEW p \in Pod, NEW s \in Slot, Retry(p, s) PROVE RowMove(i)
  <2> DEFINE j == exec[p][s].job
  <2>1. j \in Job /\ Holds(p, s, j)
    BY <1>4 DEF Retry, JobKnown, Executing, Holds
  <2>2. CASE row' = row
    BY <1>1, <2>2
  <2>3. CASE row' # row
    <3>1. Put(j, Requeued(row[j], FALSE))
      BY <1>4, <2>3 DEF Retry
    <3>2. row' = [row EXCEPT ![j] = Requeued(row[j], FALSE)]
      BY <2>1, <3>1, HeldUnlisted DEF Put, Exists
    <3>3. CASE i = j
      <4>1. row'[i].status = "queued" /\ row'[i].attempts = row[i].attempts
        BY <1>0, <3>2, <3>3 DEF Requeued, Settled, Row
      <4>2. Unheld(i)'
        BY <1>4, <2>1, <3>3, LeftUnheld DEF Retry
      <4>3. row[i].status = "running" /\ Unlisted(i)'
        BY <1>4, <2>1, <3>3, HeldUnlisted DEF Retry, Unlisted
      <4>4. row[i].attempts < MaxAttempts[i]
        BY <1>4, <2>1, <3>3 DEF Retry, ExclusiveExecution
      <4> QED BY <4>1, <4>2, <4>3, <4>4 DEF RowMove, Leaves
    <3>4. CASE i # j
      BY <2>1, <3>2, <3>4, OthersKeep
    <3> QED BY <3>3, <3>4
  <2> QED BY <2>2, <2>3
<1>5. ASSUME NEW p \in Pod, RecoverRow(p) PROVE RowMove(i)
  <2>1. PICK je \in stale[p] :
          /\ stale' = [stale EXCEPT ![p] = @ \ {je}]
          /\ row' = IF row[je[1]].status # "running" THEN row
                 ELSE [row EXCEPT ![je[1]] = IF je[2] < MaxAttempts[je[1]]
                                           THEN Requeued(row[je[1]], TRUE)
                                           ELSE Settled(row[je[1]], "failed")]
    BY <1>5 DEF RecoverRow
  <2> DEFINE j == je[1]
  <2>2. /\ j \in Job /\ je = <<j, row[j].attempts>>
        /\ row[j].status = "running" /\ row[j].expired
    BY <2>1 DEF StaleIsDead
  <2>3. CASE i = j
    <3>1. Unheld(i)'
      <4>1. Unheld(i)
        BY <2>2, <2>3 DEF Unheld, ExclusiveExecution
      <4>2. UNCHANGED exec
        BY <1>5 DEF RecoverRow
      <4> QED BY <4>1, <4>2 DEF Unheld, Holds
    <3>2. Unlisted(i)'
      <4> SUFFICES ASSUME NEW q \in Pod, NEW x \in stale'[q], x[1] = i PROVE FALSE
        BY DEF Unlisted
      <4>1. q = p
        BY DEF OneTimelyProcess
      <4>2. x \in stale[p] /\ x # je
        BY <2>1, <4>1
      <4>3. x = <<x[1], x[2]>>
        BY <4>2
      <4>4. x[2] = row[i].attempts
        BY <4>2 DEF StaleIsDead
      <4> QED BY <2>2, <2>3, <4>2, <4>3, <4>4
    <3>3. CASE je[2] < MaxAttempts[j]
      <4>1. row'[i] = Requeued(row[i], TRUE)
        BY <2>1, <2>2, <2>3, <3>3
      <4>2. row'[i].status = "queued" /\ row'[i].attempts = row[i].attempts
        BY <1>0, <4>1 DEF Requeued, Settled, Row
      <4>3. row[i].attempts < MaxAttempts[i]
        BY <2>2, <2>3, <3>3
      <4> QED BY <2>2, <2>3, <3>1, <3>2, <4>2, <4>3 DEF RowMove, Leaves
    <3>4. CASE ~(je[2] < MaxAttempts[j])
      <4>1. row'[i] = Settled(row[i], "failed")
        BY <2>1, <2>2, <2>3, <3>4
      <4>2. row'[i].status = "failed" /\ row'[i].attempts = row[i].attempts
        BY <1>0, <4>1 DEF Settled, Row
      <4> QED BY <2>2, <2>3, <3>1, <3>2, <4>2 DEF RowMove, Leaves, Terminal
    <3> QED BY <3>3, <3>4
  <2>4. CASE i # j
    <3>1. \E r : row' = [row EXCEPT ![j] = r]
      BY <2>1, <2>2
    <3> QED BY <2>2, <2>4, <3>1, OthersKeep
  <2> QED BY <2>3, <2>4
<1>6. ASSUME NEW p \in Pod, PruneDelete(p) PROVE RowMove(i)
  <2>1. CASE row'[i] = row[i]
    BY <2>1 DEF RowMove, Keeps, SameClaim
  <2>2. CASE row'[i] # row[i]
    <3>1. /\ row'[i] = [NewRow EXCEPT !.status = "pruned"]
          /\ Pruning(p) /\ i \in PruneList(p)
      BY <1>6, <2>2 DEF PruneDelete, Pruning, PruneList
    <3> QED BY <3>1 DEF RowMove, Removed, PruneIsOver, NewRow
  <2> QED BY <2>1, <2>2
<1>7. ASSUME NEW j \in Job, Enqueue(j) PROVE RowMove(i)
  <2>1. CASE i = j
    <3>1. row'[i] = [row[i] EXCEPT !.status = "queued"]
      BY <1>7, <2>1 DEF Enqueue
    <3> QED BY <1>0, <1>7, <2>1, <3>1 DEF Enqueue, RowMove, Enters, Row
  <2>2. CASE i # j
    BY <1>7, <2>2 DEF Enqueue, RowMove, Keeps, SameClaim
  <2> QED BY <2>1, <2>2
<1>8. ASSUME NEW j \in Job, CancelAtomic(j) PROVE RowMove(i)
  <2>1. CASE i = j
    <3>1. /\ row[i].status \in {"queued", "running"}
          /\ row'[i] = IF row[i].status = "queued"
                 THEN [row[i] EXCEPT !.status = "cancelled", !.cancel = TRUE]
                 ELSE [row[i] EXCEPT !.cancel = TRUE]
      BY <1>8, <2>1 DEF CancelAtomic, CancelWrite, Put, Exists, IsActive, Active
    <3> QED BY <1>0, <3>1 DEF RowMove, Enters, Keeps, SameClaim, Row
  <2>2. CASE i # j
    BY <1>8, <2>2 DEF CancelAtomic, CancelWrite, Put, RowMove, Keeps, SameClaim
  <2> QED BY <2>1, <2>2
<1>9. ASSUME NEW k \in Key, CancelSingleton(k) PROVE RowMove(i)
  <2>1. CASE KeyOf[i] = k /\ IsActive(i)
    <3>1. /\ row[i].status \in {"queued", "running"}
          /\ row'[i] = [row[i] EXCEPT
                !.status = IF @ = "queued" THEN "cancelled" ELSE @,
                !.cancel = TRUE]
      BY <1>9, <2>1 DEF CancelSingleton, IsActive, Active
    <3> QED BY <1>0, <3>1 DEF RowMove, Enters, Keeps, SameClaim, Row
  <2>2. CASE ~(KeyOf[i] = k /\ IsActive(i))
    BY <1>9, <2>2 DEF CancelSingleton, RowMove, Keeps, SameClaim
  <2> QED BY <2>1, <2>2
<1>10. ASSUME NEW j \in Job, BecomesDue(j) PROVE RowMove(i)
  <2>1. row'[i] = row[i] \/ row'[i] = [row[i] EXCEPT !.due = TRUE]
    BY <1>10 DEF BecomesDue
  <2> QED BY <1>0, <2>1 DEF RowMove, Keeps, SameClaim, Row
<1>11. ASSUME NEW j \in Job, LeaseExpires(j) PROVE RowMove(i)
  <2>1. CASE i = j
    <3>1. row'[i] = [row[i] EXCEPT !.expired = TRUE] /\ row[i].status = "running"
      BY <1>11, <2>1 DEF LeaseExpires
    <3>2. Unheld(i)
      BY <1>11, <2>1
         DEF LeaseExpires, OneTimelyProcess, Unheld, OwnClaim, ExclusiveExecution,
             Holds
    <3> QED BY <1>0, <3>1, <3>2 DEF RowMove, Lapses, SameClaim, Row
  <2>2. CASE i # j
    BY <1>11, <2>2 DEF LeaseExpires, RowMove, Keeps, SameClaim
  <2> QED BY <2>1, <2>2
<1>12. ASSUME NEW p \in Pod, NEW s \in Slot, HeartbeatRenews(p, s)
       PROVE  RowMove(i)
  <2>1. row' = [row EXCEPT ![exec[p][s].job].expired = FALSE]
    BY <1>12 DEF HeartbeatRenews
  <2>2. exec[p][s].job \in Job /\ Holds(p, s, exec[p][s].job)
    BY <1>12 DEF HeartbeatRenews, JobKnown, Executing, Holds
  <2>3. ~row[exec[p][s].job].expired
    BY <2>2 DEF ExclusiveExecution
  <2> QED BY <1>12, <2>3 DEF HeartbeatRenews
<1>13. ASSUME NEW p \in Pod, NEW s \in Slot, ClaimAtomic(p, s) PROVE RowMove(i)
  BY <1>13 DEF ClaimAtomic, ClaimStep, First, Due
<1>14. ASSUME NEW p \in Pod, NEW s \in Slot, ClaimTry(p, s) PROVE RowMove(i)
  <2>1. exec[p][s].cands \subseteq Job
    BY DEF Exec
  <2> QED BY <1>1, <1>14, <2>1 DEF ClaimTry, ClaimStep
<1>15. ASSUME NEW p \in Pod, NEW s \in Slot, WorkerStep(p, s) PROVE RowMove(i)
  BY <1>1, <1>2, <1>3, <1>4, <1>13, <1>14, <1>15
     DEF WorkerStep, ClaimSelect, ClaimNone, Tick, WorkerStops, HandlerReturns
<1>16. ASSUME NEW p \in Pod, RunnerStep(p) PROVE RowMove(i)
  BY <1>1, <1>5, <1>6, <1>16 DEF RunnerStep, StartRunner, RecoverDone, RunnerExits
<1>17. ASSUME NEW p \in Pod, NEW s \in Slot,
              \/ HeartbeatCancels(p, s) \/ ClaimFails(p, s)
              \/ SettleFails(p, s) \/ CheckFails(p, s)
       PROVE  RowMove(i)
  BY <1>1, <1>17 DEF HeartbeatCancels, ClaimFails, SettleFails, CheckFails
<1>18. ASSUME NEW p \in Pod,
              \/ RecoverTick(p) \/ PruneSelect(p) \/ Drain(p) \/ ShutDown(p)
              \/ Crash(p) \/ RecoverFails(p)
       PROVE  RowMove(i)
  BY <1>1, <1>18 DEF RecoverTick, PruneSelect, Drain, ShutDown, Crash, RecoverFails
<1>19. ASSUME (\E j \in Job : CancelSelect(j)) \/ CancelUpdate PROVE RowMove(i)
  BY <1>1, <1>19 DEF CancelSelect, CancelUpdate
<1> QED BY <1>1, <1>7, <1>8, <1>9, <1>10, <1>11, <1>12, <1>15, <1>16, <1>17,
           <1>18, <1>19 DEF Next, vars

LEMMA NoCancelTx ==
  ASSUME OneTimelyProcess, OnePodInv, [Next]_vars
  PROVE  cancelTx' = {}
<1> USE DEF OnePodInv
<1>1. CASE UNCHANGED cancelTx
  BY <1>1
<1>2. CASE (\E j \in Job : CancelSelect(j)) \/ CancelUpdate
  BY <1>2 DEF CancelSelect, CancelUpdate, OneTimelyProcess
<1>3. ASSUME NEW p \in Pod, NEW s \in Slot,
             \/ WorkerStep(p, s) \/ HeartbeatRenews(p, s) \/ HeartbeatCancels(p, s)
             \/ ClaimFails(p, s) \/ SettleFails(p, s) \/ CheckFails(p, s)
      PROVE  UNCHANGED cancelTx
  BY <1>3 DEF WorkerStep, HeartbeatRenews, HeartbeatCancels, ClaimFails,
     SettleFails, CheckFails, ClaimAtomic, ClaimSelect, ClaimTry, ClaimNone,
     Tick, WorkerStops, HandlerReturns, CheckCancel, Settle, Retry
<1>4. ASSUME NEW p \in Pod,
             \/ RunnerStep(p) \/ RecoverTick(p) \/ PruneSelect(p)
             \/ Drain(p) \/ ShutDown(p) \/ Crash(p) \/ RecoverFails(p)
      PROVE  UNCHANGED cancelTx
  BY <1>4 DEF RunnerStep, StartRunner, RecoverRow, RecoverDone, PruneDelete,
     RunnerExits, RecoverTick, PruneSelect, Drain, ShutDown, Crash, RecoverFails
<1>5. ASSUME NEW j \in Job,
             Enqueue(j) \/ CancelAtomic(j) \/ BecomesDue(j) \/ LeaseExpires(j)
      PROVE  UNCHANGED cancelTx
  BY <1>5 DEF Enqueue, CancelAtomic, BecomesDue, LeaseExpires
<1>6. ASSUME NEW k \in Key, CancelSingleton(k) PROVE UNCHANGED cancelTx
  BY <1>6 DEF CancelSingleton
<1> QED BY <1>1, <1>2, <1>3, <1>4, <1>5, <1>6 DEF Next, vars

LEMMA OnePodInit == Init => OnePodInv
<1> SUFFICES ASSUME Init PROVE OnePodInv
  OBVIOUS
<1>1. \A p \in Pod, s \in Slot : exec[p][s].pc = "stopped"
  BY DEF Init, Idle
<1>2. \A j \in Job : row[j].status = "absent" /\ row[j].attempts = 0
  BY DEF Init, NewRow
<1>3. TypeInv
  BY TypeInit
<1>4. ExclusiveExecution /\ PruneIsOver
  BY <1>1, JobsAssumption
     DEF ExclusiveExecution, Holds, Executing, PruneIsOver, Pruning
<1>5. StaleIsDead /\ cancelTx = {}
  BY DEF Init, StaleIsDead
<1>6. AttemptsLeft
  BY <1>2, JobsAssumption DEF AttemptsLeft
<1> QED BY <1>3, <1>4, <1>5, <1>6 DEF OnePodInv

\* A claim takes a queued row, which nobody executes and no list holds.
LEMMA ClaimKeepsInv ==
  ASSUME OneTimelyProcess, OnePodInv, [Next]_vars,
         NEW p \in Pod, NEW s \in Slot, NEW j \in Job, ClaimStep(p, s, j)
  PROVE  OnePodInv'
<1> USE DEF OnePodInv
<1>1. row' = [row EXCEPT ![j] = Claimed(row[j], s)] /\ row[j].status = "queued"
  BY DEF ClaimStep, Claim, Put, Exists, TypeInv, TypeOK
<1>2. /\ row'[j].status = "running" /\ row'[j].claimedBy = s
      /\ row'[j].expired = FALSE /\ row'[j].attempts = row[j].attempts + 1
      /\ row[j].attempts \in Nat
  BY <1>1 DEF Claimed, TypeInv, TypeOK, Row
<1>3. \A i \in Job : i # j => row'[i] = row[i]
  BY <1>1 DEF TypeInv, TypeOK
<1>4. /\ exec'[p][s].job = j /\ exec'[p][s].tries = row[j].attempts + 1
      /\ \A q \in Pod, t \in Slot :
           <<q, t>> # <<p, s>> => exec'[q][t] = exec[q][t]
  BY DEF ClaimStep, Claim, SetExec, TypeInv, TypeOK
<1>5. TypeInv'
  BY TypeStep
<1>6. ExclusiveExecution'
  <2>1. Unheld(j)
    BY <1>1 DEF ExclusiveExecution, Unheld
  <2>2. \A q \in Pod, t \in Slot, i \in Job :
          Holds(q, t, i)' =>
            \/ <<q, t>> = <<p, s>> /\ i = j
            \/ <<q, t>> # <<p, s>> /\ i # j /\ Holds(q, t, i)
                 /\ exec'[q][t] = exec[q][t]
    BY <1>4, <2>1 DEF Holds, Unheld
  <2> QED BY <1>2, <1>3, <1>4, <2>2 DEF ExclusiveExecution
<1>7. StaleIsDead'
  <2> SUFFICES ASSUME NEW q \in Pod, NEW je \in stale'[q]
               PROVE  /\ row'[je[1]].status = "running" /\ row'[je[1]].expired
                      /\ row'[je[1]].attempts = je[2]
    BY DEF StaleIsDead
  <2>1. row' # row
    BY <1>1, <1>2 DEF TypeInv, TypeOK
  <2>2. je \in stale[q]
    BY <2>1, StaleFrame
  <2>3. je[1] \in Job /\ je[1] # j
    BY <1>1, <2>2 DEF StaleIsDead, TypeInv, TypeOK
  <2> QED BY <1>3, <2>2, <2>3 DEF StaleIsDead
<1>8. AttemptsLeft'
  <2>1. row[j].attempts < MaxAttempts[j] /\ MaxAttempts[j] \in Nat
    BY <1>1, JobsAssumption DEF AttemptsLeft
  <2> QED BY <1>2, <1>3, <2>1 DEF AttemptsLeft
<1>9. PruneIsOver'
  <2> SUFFICES ASSUME NEW q \in Pod, Pruning(q)', NEW i \in PruneList(q)'
               PROVE  row'[i].status \in Over
    BY DEF PruneIsOver
  <2>1. row' # row
    BY <1>1, <1>2 DEF TypeInv, TypeOK
  <2>2. i \in PruneList(q) /\ row[i].status \in Over /\ i \in Job
    BY <2>1, PruneFrame, JobsAssumption
       DEF PruneIsOver, PruneList, TypeInv, TypeOK, Exec
  <2>3. i # j
    BY <1>1, <2>2 DEF Over, Terminal
  <2> QED BY <1>3, <2>2, <2>3
<1>10. cancelTx' = {}
  BY NoCancelTx
<1> QED BY <1>5, <1>6, <1>7, <1>8, <1>9, <1>10

\* Every other step moves each row as RowMove says.
LEMMA MovesKeepInv ==
  ASSUME OneTimelyProcess, OnePodInv, [Next]_vars, KeepsExecs,
         \A j \in Job : RowMove(j)
  PROVE  OnePodInv'
<1> USE DEF OnePodInv
<1>1. TypeInv'
  BY TypeStep
<1>2. ExclusiveExecution'
  <2>1. ASSUME NEW p \in Pod, NEW s \in Slot, NEW j \in Job, Holds(p, s, j)'
        PROVE  /\ row'[j].status = "running" /\ row'[j].claimedBy = s
               /\ ~row'[j].expired /\ row'[j].attempts = exec'[p][s].tries
    <3>1. Holds(p, s, j) /\ exec'[p][s].tries = exec[p][s].tries
      BY <2>1 DEF KeepsExecs
    <3>2. /\ row[j].status = "running" /\ row[j].claimedBy = s
          /\ ~row[j].expired /\ row[j].attempts = exec[p][s].tries
      BY <3>1 DEF ExclusiveExecution
    <3>3. Keeps(j) \/ Renews(j)
      BY <2>1, <3>1, <3>2
         DEF RowMove, Lapses, Unheld, Enters, Leaves, Removed, Over, Terminal
    <3> QED BY <3>1, <3>2, <3>3 DEF Keeps, Renews, SameClaim
  <2> QED BY <2>1 DEF ExclusiveExecution, KeepsExecs
<1>3. StaleIsDead'
  <2> SUFFICES ASSUME NEW p \in Pod, NEW je \in stale'[p]
               PROVE  /\ row'[je[1]].status = "running" /\ row'[je[1]].expired
                      /\ row'[je[1]].attempts = je[2]
    BY DEF StaleIsDead
  <2>1. CASE stale'[p] \subseteq stale[p]
    <3>1. /\ je[1] \in Job /\ row[je[1]].status = "running"
          /\ row[je[1]].expired /\ row[je[1]].attempts = je[2]
      BY <2>1 DEF StaleIsDead, TypeInv, TypeOK
    <3>2. Keeps(je[1]) \/ Lapses(je[1])
      BY <3>1 DEF RowMove, Renews, Unlisted, Enters, Leaves, Removed, Over, Terminal
    <3> QED BY <3>1, <3>2 DEF Keeps, Lapses, SameClaim
  <2>2. CASE row' = row /\ stale'[p] = Expired
    BY <2>2 DEF Expired
  <2> QED BY <2>1, <2>2, StaleFrame
<1>4. AttemptsLeft'
  <2> SUFFICES ASSUME NEW j \in Job
               PROVE  /\ row'[j].attempts <= MaxAttempts[j]
                      /\ row'[j].status = "queued" =>
                           row'[j].attempts < MaxAttempts[j]
                      /\ row'[j].status = "absent" => row'[j].attempts = 0
    BY DEF AttemptsLeft
  <2>1. MaxAttempts[j] \in Nat \ {0}
    BY JobsAssumption
  <2> QED BY <2>1 DEF AttemptsLeft, RowMove, Keeps, Lapses, Renews, SameClaim,
                      Enters, Leaves, Removed, Over, Terminal
<1>5. PruneIsOver'
  <2> SUFFICES ASSUME NEW p \in Pod, Pruning(p)', NEW j \in PruneList(p)'
               PROVE  row'[j].status \in Over
    BY DEF PruneIsOver
  <2>1. j \in Job /\ row[j].status \in Over
    <3>1. j \in Job
      BY <1>1, JobsAssumption DEF PruneList, TypeInv, TypeOK, Exec
    <3>2. row[j].status \in Over
      BY PruneFrame DEF PruneIsOver, Over
    <3> QED BY <3>1, <3>2
  <2> QED BY <2>1 DEF RowMove, Keeps, Lapses, Renews, SameClaim, Enters, Leaves,
                      Removed, Over, Terminal
<1>6. cancelTx' = {}
  BY NoCancelTx
<1> QED BY <1>1, <1>2, <1>3, <1>4, <1>5, <1>6

LEMMA OnePodStep ==
  ASSUME OneTimelyProcess
  PROVE  OnePodInv /\ [Next]_vars => OnePodInv'
<1> SUFFICES ASSUME OnePodInv, [Next]_vars PROVE OnePodInv'
  OBVIOUS
<1>1. CASE \E p \in Pod, s \in Slot, j \in Job : ClaimStep(p, s, j)
  BY <1>1, ClaimKeepsInv
<1>2. CASE ~\E p \in Pod, s \in Slot, j \in Job : ClaimStep(p, s, j)
  <2>1. KeepsExecs
    BY <1>2, ExecSteps DEF OnePodInv
  <2> QED BY <1>2, <2>1, RowMoves, MovesKeepInv
<1> QED BY <1>1, <1>2

\* A job has at most one execution, and that one owns the row's claim.
THEOREM ExclusiveSafe ==
  ASSUME OneTimelyProcess
  PROVE  Spec => []ExclusiveExecution
<1>1. Init => OnePodInv
  BY OnePodInit
<1>2. OnePodInv /\ [Next]_vars => OnePodInv'
  BY OnePodStep
<1>3. OnePodInv => ExclusiveExecution
  BY DEF OnePodInv
<1> QED BY <1>1, <1>2, <1>3, PTL DEF Spec

\* A job is never claimed more than max_attempts times.
THEOREM AttemptsSafe ==
  ASSUME OneTimelyProcess
  PROVE  Spec => []AttemptsWithinLimit
<1>1. Init => OnePodInv
  BY OnePodInit
<1>2. OnePodInv /\ [Next]_vars => OnePodInv'
  BY OnePodStep
<1>3. OnePodInv => AttemptsWithinLimit
  BY DEF OnePodInv, AttemptsLeft, AttemptsWithinLimit
<1> QED BY <1>1, <1>2, <1>3, PTL DEF Spec

\* A settled job is settled for good.
THEOREM TerminalSafe ==
  ASSUME OneTimelyProcess
  PROVE  Spec => TerminalIsFinal
<1> DEFINE Final == \A j \in Job : row[j].status \in Terminal =>
                      row'[j].status \in {row[j].status, "pruned"}
<1>1. Init => OnePodInv
  BY OnePodInit
<1>2. OnePodInv /\ [Next]_vars => OnePodInv'
  BY OnePodStep
<1>3. OnePodInv /\ [Next]_vars => [Final]_vars
  <2> SUFFICES ASSUME OnePodInv, [Next]_vars PROVE Final
    OBVIOUS
  <2>1. CASE \E p \in Pod, s \in Slot, j \in Job : ClaimStep(p, s, j)
    BY <2>1 DEF ClaimStep, Claim, Put, OnePodInv, TypeInv, TypeOK, Terminal
  <2>2. CASE ~\E p \in Pod, s \in Slot, j \in Job : ClaimStep(p, s, j)
    <3>1. \A j \in Job : RowMove(j)
      BY <2>2, RowMoves
    <3> QED BY <3>1 DEF RowMove, Keeps, Lapses, Renews, SameClaim, Enters,
                        Leaves, Removed, Terminal
  <2> QED BY <2>1, <2>2
<1> QED BY <1>1, <1>2, <1>3, PTL DEF Spec, TerminalIsFinal

(***************************************************************************)
(* In such a process the job framework implements JobLifecycle: what the   *)
(* submitter of a job can see of it is what the abstract specification     *)
(* says.                                                                   *)
(***************************************************************************)
\* A deleted row is blank.
PrunedIsBlank ==
  \A j \in Job : row[j].status = "pruned" => row[j].attempts = 0 /\ ~row[j].cancel

LifecycleInv == OnePodInv /\ MarkedWasAsked /\ ClaimInv /\ PrunedIsBlank

\* The variables of JobLifecycle.
Statuses == [j \in Job |-> row[j].status]
Attempts == [j \in Job |-> row[j].attempts]
AskedJobs == {j \in Job : row[j].cancel}
LiveJobs == {j \in Job : \E p \in Pod, s \in Slot : Holds(p, s, j)}

\* What the submitter sees of job i stays as it is.
Same(i) ==
  /\ row'[i].status = row[i].status
  /\ row'[i].attempts = row[i].attempts
  /\ row'[i].cancel = row[i].cancel
OthersSame(j) == \A i \in Job : i # j => Same(i)

Abstractly == Lifecycle!Next \/ UNCHANGED Lifecycle!vars

-----------------------------------------------------------------------------
(* The steps of JobLifecycle, in terms of rows and executions.             *)

LEMMA RowsOnly ==
  ASSUME row' = row PROVE \A i \in Job : Same(i)
BY DEF Same

\* Nothing is seen but executions that end.
LEMMA DieOrStutter ==
  ASSUME \A i \in Job : Same(i), LiveJobs' \subseteq LiveJobs
  PROVE  Abstractly
<1>1. Statuses' = Statuses /\ Attempts' = Attempts /\ AskedJobs' = AskedJobs
  BY DEF Statuses, Attempts, AskedJobs, Same
<1> DEFINE S == LiveJobs \ LiveJobs'
<1>2. S \in SUBSET Job /\ LiveJobs' = LiveJobs \ S
  BY DEF LiveJobs
<1>3. CASE S = {}
  <2>1. LiveJobs' = LiveJobs
    BY <1>2, <1>3
  <2> QED BY <1>1, <2>1
       DEF Abstractly, Lifecycle!vars, Statuses, Attempts, AskedJobs, LiveJobs
<1>4. CASE S # {}
  <2>1. S # {} /\ S \subseteq LiveJobs /\ LiveJobs' = LiveJobs \ S
    BY <1>2, <1>4
  <2>2. Lifecycle!Die(S)
    BY <1>1, <2>1 DEF Lifecycle!Die, Statuses, Attempts, AskedJobs, LiveJobs
  <2> QED BY <1>2, <2>2 DEF Abstractly, Lifecycle!Next
<1> QED BY <1>3, <1>4

\* One row changes its status alone.
LEMMA StatusMoves ==
  ASSUME NEW j \in Job, OthersSame(j), NEW st, row'[j].status = st,
         row'[j].attempts = row[j].attempts, row'[j].cancel = row[j].cancel
  PROVE  /\ Statuses' = [Statuses EXCEPT ![j] = st]
         /\ Attempts' = Attempts /\ AskedJobs' = AskedJobs
BY DEF OthersSame, Same, Statuses, Attempts, AskedJobs

LEMMA SubmitStep ==
  ASSUME NEW j \in Job, OthersSame(j), row[j].status = "absent",
         row'[j].status = "queued",
         row'[j].attempts = row[j].attempts, row'[j].cancel = row[j].cancel,
         LiveJobs' = LiveJobs
  PROVE  Abstractly
<1>1. Statuses' = [Statuses EXCEPT ![j] = "queued"]
      /\ Attempts' = Attempts /\ AskedJobs' = AskedJobs
  BY StatusMoves
<1>2. Statuses[j] = "absent"
  BY DEF Statuses
<1>3. Lifecycle!Submit(j)
  BY <1>1, <1>2
     DEF Lifecycle!Submit, Lifecycle!To, Statuses, Attempts, AskedJobs, LiveJobs
<1> QED BY <1>3 DEF Abstractly, Lifecycle!Next

LEMMA BeginStep ==
  ASSUME NEW j \in Job, OthersSame(j), row[j].status = "queued",
         row'[j].status = "running", row[j].attempts < MaxAttempts[j],
         row'[j].attempts = row[j].attempts + 1, row'[j].cancel = row[j].cancel,
         j \notin LiveJobs, LiveJobs' = LiveJobs \cup {j}
  PROVE  Abstractly
<1>1. /\ Statuses' = [Statuses EXCEPT ![j] = "running"]
      /\ Attempts' = [Attempts EXCEPT ![j] = @ + 1]
      /\ AskedJobs' = AskedJobs
  BY DEF OthersSame, Same, Statuses, Attempts, AskedJobs
<1>2. Statuses[j] = "queued" /\ Attempts[j] < MaxAttempts[j]
  BY DEF Statuses, Attempts
<1>3. Lifecycle!Begin(j)
  BY <1>1, <1>2
     DEF Lifecycle!Begin, Lifecycle!To, Lifecycle!Retryable, Statuses, Attempts,
         AskedJobs, LiveJobs
<1> QED BY <1>3 DEF Abstractly, Lifecycle!Next

LEMMA EndStep ==
  ASSUME NEW j \in Job, OthersSame(j), row[j].status = "running",
         row'[j].attempts = row[j].attempts, row'[j].cancel = row[j].cancel,
         \/ row'[j].status \in {"succeeded", "failed"}
         \/ row'[j].status = "cancelled" /\ row[j].cancel
         \/ row'[j].status = "queued" /\ row[j].attempts < MaxAttempts[j],
         j \in LiveJobs, LiveJobs' = LiveJobs \ {j}
  PROVE  Abstractly
<1> DEFINE st == row'[j].status
<1>1. Statuses' = [Statuses EXCEPT ![j] = st]
      /\ Attempts' = Attempts /\ AskedJobs' = AskedJobs
  BY StatusMoves
<1>2. /\ Statuses[j] = "running"
      /\ \/ st \in {"succeeded", "failed"}
         \/ st = "cancelled" /\ j \in AskedJobs
         \/ st = "queued" /\ Attempts[j] < MaxAttempts[j]
  BY DEF Statuses, Attempts, AskedJobs
<1> HIDE DEF st
<1>3. Lifecycle!End(j)
  BY <1>1, <1>2
     DEF Lifecycle!End, Lifecycle!To, Lifecycle!Retryable, Statuses, Attempts,
         AskedJobs, LiveJobs
<1> QED BY <1>3 DEF Abstractly, Lifecycle!Next

LEMMA ReclaimStep ==
  ASSUME NEW j \in Job, OthersSame(j), row[j].status = "running",
         row'[j].attempts = row[j].attempts, row'[j].cancel = row[j].cancel,
         row'[j].status =
           IF row[j].attempts < MaxAttempts[j] THEN "queued" ELSE "failed",
         j \notin LiveJobs, LiveJobs' = LiveJobs
  PROVE  Abstractly
<1> DEFINE st == IF row[j].attempts < MaxAttempts[j] THEN "queued" ELSE "failed"
<1>1. Statuses' = [Statuses EXCEPT ![j] = st]
      /\ Attempts' = Attempts /\ AskedJobs' = AskedJobs
  BY StatusMoves
<1>2. /\ Statuses[j] = "running"
      /\ st = IF Attempts[j] < MaxAttempts[j] THEN "queued" ELSE "failed"
  BY DEF Statuses, Attempts
<1> HIDE DEF st
<1>3. Lifecycle!Reclaim(j)
  BY <1>1, <1>2
     DEF Lifecycle!Reclaim, Lifecycle!To, Lifecycle!Retryable, Statuses, Attempts,
         AskedJobs, LiveJobs
<1> QED BY <1>3 DEF Abstractly, Lifecycle!Next

LEMMA CancelStep ==
  ASSUME NEW S \in SUBSET Job, S # {}, \A i \in Job \ S : Same(i),
         \A i \in S : /\ row[i].status \in {"queued", "running"}
                      /\ row'[i].status = IF row[i].status = "queued"
                                          THEN "cancelled" ELSE row[i].status
                      /\ row'[i].attempts = row[i].attempts
                      /\ row'[i].cancel,
         LiveJobs' = LiveJobs
  PROVE  Abstractly
<1>1. /\ Statuses' = [i \in Job |-> IF i \in S /\ Statuses[i] = "queued"
                                    THEN "cancelled" ELSE Statuses[i]]
      /\ Attempts' = Attempts
  BY DEF Same, Statuses, Attempts
<1>2. AskedJobs' = AskedJobs \cup S
  BY DEF Same, AskedJobs
<1>3. \A i \in S : Statuses[i] \in {"queued", "running"}
  BY DEF Statuses
<1>4. Lifecycle!Cancel(S)
  BY <1>1, <1>2, <1>3
     DEF Lifecycle!Cancel, Statuses, Attempts, AskedJobs, LiveJobs
<1> QED BY <1>4 DEF Abstractly, Lifecycle!Next

LEMMA PruneStep ==
  ASSUME NEW S \in SUBSET Job, S # {}, \A i \in Job \ S : Same(i),
         \A i \in S : row[i].status \in Terminal /\ row'[i] = PrunedRow,
         LiveJobs' = LiveJobs
  PROVE  Abstractly
<1>1. \A i \in S : /\ row'[i].status = "pruned" /\ row'[i].attempts = 0
                   /\ ~row'[i].cancel
  BY DEF PrunedRow, NewRow
<1>2. /\ Statuses' = [i \in Job |-> IF i \in S THEN "pruned" ELSE Statuses[i]]
      /\ Attempts' = [i \in Job |-> IF i \in S THEN 0 ELSE Attempts[i]]
  BY <1>1 DEF Same, Statuses, Attempts
<1>3. AskedJobs' = AskedJobs \ S
  BY <1>1 DEF Same, AskedJobs
<1>4. \A i \in S : Statuses[i] \in Lifecycle!Ended
  BY DEF Statuses, Terminal, Lifecycle!Ended
<1>5. Lifecycle!Prune(S)
  BY <1>2, <1>3, <1>4 DEF Lifecycle!Prune, Statuses, Attempts, AskedJobs, LiveJobs
<1> QED BY <1>5 DEF Abstractly, Lifecycle!Next

-----------------------------------------------------------------------------
(* The invariant.                                                          *)

LEMMA LifecycleInvInit == Init => LifecycleInv
<1> SUFFICES ASSUME Init PROVE LifecycleInv
  OBVIOUS
<1>1. \A j \in Job : row[j].status = "absent"
  BY DEF Init, NewRow
<1>2. MarkedWasAsked
  BY DEF Init, MarkedWasAsked, Idle
<1> QED BY <1>1, <1>2, OnePodInit DEF LifecycleInv, ClaimInv, PrunedIsBlank

\* A row is blank from the step that deletes it.
LEMMA PrunedBlankStep ==
  ASSUME TypeInv, PrunedIsBlank, [Next]_vars
  PROVE  PrunedIsBlank'
<1> SUFFICES ASSUME NEW j \in Job, row'[j].status = "pruned"
             PROVE  row'[j].attempts = 0 /\ ~row'[j].cancel
  BY DEF PrunedIsBlank
<1>1. row[j] \in Row
  BY DEF TypeInv, TypeOK
<1>2. CASE row'[j] = row[j]
  BY <1>2 DEF PrunedIsBlank
<1>3. CASE row'[j] = PrunedRow
  BY <1>3 DEF PrunedRow, NewRow
<1>4. ~\E s \in Slot : row'[j] = Claimed(row[j], s)
  BY <1>1 DEF Claimed, Row
<1>5. ~SettlesRow(j)
  BY <1>1 DEF SettlesRow, Settled, Row
<1>6. ~EntersIndex(j) /\ row'[j] # Requeued(row[j], TRUE)
  BY <1>1 DEF EntersIndex, Requeued, Settled, Row, TypeInv, TypeOK
<1>7. ~CancelsRow(j)
  BY <1>1 DEF CancelsRow, Exists, Row
<1>8. ~(row[j].status = "queued" /\ row'[j] = [row[j] EXCEPT !.due = TRUE])
  BY <1>1 DEF Row
<1>9. ~(row[j].status = "running"
        /\ \E b \in BOOLEAN : row'[j] = [row[j] EXCEPT !.expired = b])
  BY <1>1 DEF Row
<1> QED BY <1>2, <1>3, <1>4, <1>5, <1>6, <1>7, <1>8, <1>9, RowSteps DEF RowStep

LEMMA LifecycleInvStep ==
  ASSUME OneTimelyProcess
  PROVE  LifecycleInv /\ [Next]_vars => LifecycleInv'
<1> SUFFICES ASSUME LifecycleInv, [Next]_vars PROVE LifecycleInv'
  OBVIOUS
<1> USE DEF LifecycleInv
<1>1. OnePodInv' 
  BY OnePodStep
<1>2. MarkedWasAsked' /\ ClaimInv' /\ PrunedIsBlank'
  BY ClaimInvStep, PrunedBlankStep DEF OnePodInv
<1> QED BY <1>1, <1>2

-----------------------------------------------------------------------------
(* Each action is a step of JobLifecycle, or none.                         *)

LEMMA SameExecs ==
  ASSUME UNCHANGED exec PROVE LiveJobs' = LiveJobs
BY DEF LiveJobs, Holds

\* Where no row changes in the submitter's eyes, executions can only end.
LEMMA QuietStep ==
  ASSUME LifecycleInv, [Next]_vars, \A i \in Job : Same(i)
  PROVE  Abstractly
<1>1. ASSUME NEW p \in Pod, NEW s \in Slot, NEW j \in Job, ClaimStep(p, s, j)
      PROVE  FALSE
  <2>1. row'[j].status = "running" /\ row[j].status = "queued"
    BY <1>1 DEF ClaimStep, Claim, Put, Exists, Claimed, LifecycleInv, OnePodInv,
       TypeInv, TypeOK, Row
  <2> QED BY <2>1 DEF Same
<1>2. KeepsExecs
  BY <1>1, ExecSteps DEF LifecycleInv, OnePodInv
<1>3. LiveJobs' \subseteq LiveJobs
  BY <1>2 DEF KeepsExecs, LiveJobs
<1> QED BY <1>3, DieOrStutter

\* A claim begins an execution.
LEMMA ClaimRefines ==
  ASSUME LifecycleInv, NEW p \in Pod, NEW s \in Slot, NEW j \in Job,
         ClaimStep(p, s, j), exec[p][s].pc \notin Executing
  PROVE  Abstractly
<1> USE DEF LifecycleInv, OnePodInv, TypeInv, TypeOK
<1>1. row[j].status = "queued" /\ row' = [row EXCEPT ![j] = Claimed(row[j], s)]
  BY DEF ClaimStep, Claim, Put, Exists
<1>2. /\ row'[j].status = "running" /\ row'[j].attempts = row[j].attempts + 1
      /\ row'[j].cancel = row[j].cancel
  BY <1>1 DEF Claimed, Row
<1>3. OthersSame(j)
  BY <1>1 DEF OthersSame, Same
<1>4. row[j].attempts < MaxAttempts[j] /\ j \notin LiveJobs
  BY <1>1 DEF AttemptsLeft, ExclusiveExecution, LiveJobs
<1>5. LiveJobs' = LiveJobs \cup {j}
  <2>1. Holds(p, s, j)' /\ \A i \in Job : Holds(p, s, i)' => i = j
    BY DEF ClaimStep, Claim, SetExec, Holds, Start, Executing
  <2>2. \A i \in Job : ~Holds(p, s, i)
    BY DEF Holds
  <2>3. \A q \in Pod, t \in Slot : <<q, t>> # <<p, s>> =>
          \A i \in Job : Holds(q, t, i)' <=> Holds(q, t, i)
    BY DEF ClaimStep, Claim, SetExec, Holds
  <2> QED BY <2>1, <2>2, <2>3 DEF LiveJobs
<1> QED BY <1>1, <1>2, <1>3, <1>4, <1>5, BeginStep

\* The worker that executes j goes back to its loop.
LEMMA LeavesAlone ==
  ASSUME LifecycleInv, NEW p \in Pod, NEW s \in Slot, NEW j \in Job,
         Holds(p, s, j), SetExec(p, s, LoopTop(p))
  PROVE  j \in LiveJobs /\ LiveJobs' = LiveJobs \ {j}
<1> USE DEF LifecycleInv, OnePodInv, TypeInv, TypeOK
<1>1. LoopTop(p).pc \notin Executing
  BY DEF LoopTop, Idle, Executing
<1>2. \A i \in Job : ~Holds(p, s, i)' /\ (Holds(p, s, i) => i = j)
  BY <1>1 DEF SetExec, Holds
<1>3. \A q \in Pod, t \in Slot : <<q, t>> # <<p, s>> =>
        \A i \in Job : Holds(q, t, i)' <=> Holds(q, t, i)
  BY DEF SetExec, Holds
<1>4. \A q \in Pod, t \in Slot : <<q, t>> # <<p, s>> => ~Holds(q, t, j)
  BY DEF ExclusiveExecution
<1>5. j \in LiveJobs
  BY DEF LiveJobs
<1>6. j \notin LiveJobs'
  BY <1>2, <1>3, <1>4 DEF LiveJobs
<1>7. \A i \in Job : i # j => (i \in LiveJobs' <=> i \in LiveJobs)
  BY <1>2, <1>3 DEF LiveJobs
<1>8. LiveJobs \subseteq Job /\ LiveJobs' \subseteq Job
  BY DEF LiveJobs
<1> QED BY <1>5, <1>6, <1>7, <1>8

LEMMA SettleRefines ==
  ASSUME LifecycleInv, [Next]_vars, NEW p \in Pod, NEW s \in Slot, Settle(p, s)
  PROVE  Abstractly
<1> USE DEF LifecycleInv, OnePodInv, TypeInv, TypeOK
<1> DEFINE j == exec[p][s].job
<1>1. j \in Job /\ Holds(p, s, j)
  BY DEF Settle, JobKnown, Executing, Holds
<1>2. CASE row' = row
  BY <1>2, RowsOnly, QuietStep
<1>3. CASE row' # row
  <2>1. row[j].status = "running"
    BY <1>1 DEF ExclusiveExecution
  <2>2. PICK st \in {"succeeded", "failed", "cancelled"} :
          /\ Put(j, Settled(row[j], st))
          /\ st = "cancelled" => exec[p][s].pc = "markcancelled"
    BY <1>3 DEF Settle
  <2>3. row' = [row EXCEPT ![j] = Settled(row[j], st)]
    BY <2>1, <2>2 DEF Put, Exists
  <2>4. /\ row'[j].status = st /\ row'[j].attempts = row[j].attempts
        /\ row'[j].cancel = row[j].cancel
    BY <1>1, <2>3 DEF Settled, Row
  <2>5. st = "cancelled" => row[j].cancel
    BY <1>1, <2>1, <2>2 DEF MarkedWasAsked
  <2>6. OthersSame(j)
    BY <1>1, <2>3 DEF OthersSame, Same
  <2>7. j \in LiveJobs /\ LiveJobs' = LiveJobs \ {j}
    BY <1>1, LeavesAlone DEF Settle
  <2>8. \/ row'[j].status \in {"succeeded", "failed"}
        \/ row'[j].status = "cancelled" /\ row[j].cancel
    BY <2>2, <2>4, <2>5
  <2> HIDE DEF j, LifecycleInv
  <2> QED BY <1>1, <2>1, <2>4, <2>6, <2>7, <2>8, EndStep
<1> QED BY <1>2, <1>3

LEMMA RetryRefines ==
  ASSUME LifecycleInv, [Next]_vars, NEW p \in Pod, NEW s \in Slot, Retry(p, s)
  PROVE  Abstractly
<1> USE DEF LifecycleInv, OnePodInv, TypeInv, TypeOK
<1> DEFINE j == exec[p][s].job
<1>1. j \in Job /\ Holds(p, s, j)
  BY DEF Retry, JobKnown, Executing, Holds
<1>2. CASE row' = row
  BY <1>2, RowsOnly, QuietStep
<1>3. CASE row' # row
  <2>1. row[j].status = "running" /\ row[j].attempts < MaxAttempts[j]
    BY <1>1 DEF ExclusiveExecution, Retry
  <2>2. row' = [row EXCEPT ![j] = Requeued(row[j], FALSE)]
    BY <1>3, <2>1 DEF Retry, Put, Exists
  <2>3. /\ row'[j].status = "queued" /\ row'[j].attempts = row[j].attempts
        /\ row'[j].cancel = row[j].cancel
    BY <1>1, <2>2 DEF Requeued, Settled, Row
  <2>4. OthersSame(j)
    BY <1>1, <2>2 DEF OthersSame, Same
  <2>5. j \in LiveJobs /\ LiveJobs' = LiveJobs \ {j}
    BY <1>1, LeavesAlone DEF Retry
  <2> HIDE DEF j, LifecycleInv
  <2> QED BY <1>1, <2>1, <2>3, <2>4, <2>5, EndStep
<1> QED BY <1>2, <1>3

LEMMA RecoverRefines ==
  ASSUME LifecycleInv, [Next]_vars, NEW p \in Pod, RecoverRow(p)
  PROVE  Abstractly
<1> USE DEF LifecycleInv, OnePodInv, TypeInv, TypeOK
<1>1. PICK je \in stale[p] :
        row' = IF row[je[1]].status # "running" THEN row
               ELSE [row EXCEPT ![je[1]] = IF je[2] < MaxAttempts[je[1]]
                                             THEN Requeued(row[je[1]], TRUE)
                                             ELSE Settled(row[je[1]], "failed")]
  BY DEF RecoverRow
<1> DEFINE j == je[1]
<1> DEFINE r == IF row[j].attempts < MaxAttempts[j]
                  THEN Requeued(row[j], TRUE) ELSE Settled(row[j], "failed")
<1>2. /\ j \in Job /\ je[2] = row[j].attempts
      /\ row[j].status = "running" /\ row[j].expired
  BY <1>1 DEF StaleIsDead
<1>3. row' = [row EXCEPT ![j] = r]
  BY <1>1, <1>2
<1>4. /\ row'[j].status =
           IF row[j].attempts < MaxAttempts[j] THEN "queued" ELSE "failed"
      /\ row'[j].attempts = row[j].attempts /\ row'[j].cancel = row[j].cancel
  BY <1>2, <1>3 DEF Requeued, Settled, Row
<1>5. OthersSame(j)
  BY <1>2, <1>3 DEF OthersSame, Same
<1>6. j \notin LiveJobs
  BY <1>2 DEF LiveJobs, ExclusiveExecution
<1>7. LiveJobs' = LiveJobs
  BY SameExecs DEF RecoverRow
<1> HIDE DEF j, LifecycleInv
<1> QED BY <1>2, <1>4, <1>5, <1>6, <1>7, ReclaimStep

LEMMA PruneRefines ==
  ASSUME LifecycleInv, [Next]_vars, NEW p \in Pod, PruneDelete(p)
  PROVE  Abstractly
<1> USE DEF LifecycleInv, OnePodInv, TypeInv, TypeOK
<1> DEFINE S == {i \in Job : row[i].status \in Terminal /\ row'[i] # row[i]}
<1>1. /\ exec[p][FirstSlot].pc = "prune" /\ SetExec(p, FirstSlot, LoopTop(p))
      /\ \A i \in Job : \/ row'[i] = row[i]
                        \/ row'[i] = PrunedRow /\ i \in PruneList(p)
  BY DEF PruneDelete, PruneList, PrunedRow
<1>2. \A i \in Job : row'[i] # row[i] => row[i].status \in Over
  BY <1>1 DEF PruneIsOver, Pruning
<1>3. \A i \in Job \ S : Same(i)
  <2> SUFFICES ASSUME NEW i \in Job \ S, row'[i] # row[i] PROVE Same(i)
    BY DEF Same
  <2>1. row[i].status = "pruned"
    BY <1>2 DEF Over
  <2>2. row'[i] = PrunedRow
    BY <1>1
  <2>3. row[i] \in Row
    OBVIOUS
  <2>4. row[i].attempts = 0 /\ row[i].cancel = FALSE
    BY <2>1, <2>3 DEF PrunedIsBlank, Row
  <2> QED BY <2>1, <2>2, <2>4 DEF Same, PrunedRow, NewRow
<1>4. CASE S = {}
  BY <1>3, <1>4, QuietStep
<1>5. CASE S # {}
  <2>1. LiveJobs' = LiveJobs
    <3>1. LoopTop(p).pc \notin Executing
      BY DEF LoopTop, Idle, Executing
    <3>2. \A s \in Slot, q \in Pod, i \in Job : Holds(q, s, i)' <=> Holds(q, s, i)
      BY <1>1, <3>1, JobsAssumption DEF SetExec, Holds, Executing
    <3> QED BY <3>2 DEF LiveJobs
  <2>2. \A i \in S : row[i].status \in Terminal /\ row'[i] = PrunedRow
    BY <1>1
  <2>3. S \in SUBSET Job
    OBVIOUS
  <2> HIDE DEF S, LifecycleInv
  <2> QED BY <1>3, <1>5, <2>1, <2>2, <2>3, PruneStep
<1> QED BY <1>4, <1>5

LEMMA EnqueueRefines ==
  ASSUME LifecycleInv, NEW j \in Job, Enqueue(j)
  PROVE  Abstractly
<1> USE DEF LifecycleInv, OnePodInv, TypeInv, TypeOK
<1>1. row' = [row EXCEPT ![j].status = "queued"] /\ row[j].status = "absent"
  BY DEF Enqueue
<1>2. /\ row'[j].status = "queued" /\ row'[j].attempts = row[j].attempts
      /\ row'[j].cancel = row[j].cancel
  BY <1>1 DEF Row
<1>3. OthersSame(j)
  BY <1>1 DEF OthersSame, Same
<1>4. LiveJobs' = LiveJobs
  BY SameExecs DEF Enqueue
<1> QED BY <1>1, <1>2, <1>3, <1>4, SubmitStep

LEMMA CancelRefines ==
  ASSUME LifecycleInv,
         (\E j \in Job : CancelAtomic(j)) \/ (\E k \in Key : CancelSingleton(k))
  PROVE  Abstractly
<1> USE DEF LifecycleInv, OnePodInv, TypeInv, TypeOK
<1> DEFINE Marked(i) ==
      /\ row[i].status \in {"queued", "running"}
      /\ row'[i] = [row[i] EXCEPT
           !.status = IF @ = "queued" THEN "cancelled" ELSE @, !.cancel = TRUE]
<1>1. LiveJobs' = LiveJobs
  BY SameExecs DEF CancelAtomic, CancelSingleton
<1>2. PICK S \in SUBSET Job : /\ S # {} /\ \A i \in Job \ S : row'[i] = row[i]
                              /\ \A i \in S : Marked(i)
  <2>1. ASSUME NEW j \in Job, CancelAtomic(j)
        PROVE  Marked(j) /\ \A i \in Job \ {j} : row'[i] = row[i]
    <3>1. row[j].status \in {"queued", "running"} /\ Exists(j)
      BY <2>1 DEF CancelAtomic, IsActive, Active, Exists
    <3>2. row[j] \in Row
      OBVIOUS
    <3>3. row' = [row EXCEPT ![j] =
             IF row[j].status = "queued"
               THEN [row[j] EXCEPT !.status = "cancelled", !.cancel = TRUE]
               ELSE [row[j] EXCEPT !.cancel = TRUE]]
      BY <2>1, <3>1 DEF CancelAtomic, CancelWrite, Put
    <3> QED BY <3>1, <3>2, <3>3 DEF Row
  <2>2. ASSUME NEW k \in Key, CancelSingleton(k)
        PROVE  LET S == {i \in Job : KeyOf[i] = k /\ IsActive(i)}
               IN  /\ S # {} /\ \A i \in Job \ S : row'[i] = row[i]
                   /\ \A i \in S : Marked(i)
    BY <2>2 DEF CancelSingleton, IsActive, Active
  <2>3. CASE \E j \in Job : CancelAtomic(j)
    <3>1. PICK j \in Job : CancelAtomic(j)
      BY <2>3
    <3>2. {j} \in SUBSET Job /\ {j} # {}
      OBVIOUS
    <3>3. Marked(j) /\ \A i \in Job \ {j} : row'[i] = row[i]
      BY <2>1, <3>1
    <3> HIDE DEF Marked
    <3> WITNESS {j} \in SUBSET Job
    <3> QED BY <3>3
  <2>4. CASE \E k \in Key : CancelSingleton(k)
    <3>1. PICK k \in Key : CancelSingleton(k)
      BY <2>4
    <3> DEFINE S == {i \in Job : KeyOf[i] = k /\ IsActive(i)}
    <3>2. S \in SUBSET Job
      OBVIOUS
    <3>3. /\ S # {} /\ \A i \in Job \ S : row'[i] = row[i]
          /\ \A i \in S : Marked(i)
      BY <2>2, <3>1
    <3> HIDE DEF S, Marked
    <3> WITNESS S \in SUBSET Job
    <3> QED BY <3>3
  <2> QED BY <2>3, <2>4
<1>3. \A i \in S : /\ row[i].status \in {"queued", "running"}
                   /\ row'[i].status = IF row[i].status = "queued"
                                       THEN "cancelled" ELSE row[i].status
                   /\ row'[i].attempts = row[i].attempts
                   /\ row'[i].cancel
  <2> SUFFICES ASSUME NEW i \in S
               PROVE  /\ row[i].status \in {"queued", "running"}
                      /\ row'[i].status = IF row[i].status = "queued"
                                          THEN "cancelled" ELSE row[i].status
                      /\ row'[i].attempts = row[i].attempts
                      /\ row'[i].cancel
    OBVIOUS
  <2>1. Marked(i) /\ row[i] \in Row
    BY <1>2
  <2>2. row[i].status = "queued" \/ row[i].status = "running"
    BY <2>1
  <2>3. CASE row[i].status = "queued"
    BY <2>1, <2>3 DEF Row
  <2>4. CASE row[i].status = "running"
    BY <2>1, <2>4 DEF Row
  <2> QED BY <2>2, <2>3, <2>4
<1>4. \A i \in Job \ S : Same(i)
  BY <1>2 DEF Same
<1> HIDE DEF LifecycleInv
<1> QED BY <1>1, <1>2, <1>3, <1>4, CancelStep

\* Every step of the framework is one of JobLifecycle, or not seen there.
LEMMA LifecycleStep ==
  ASSUME OneTimelyProcess, LifecycleInv, [Next]_vars
  PROVE  Abstractly
<1> USE DEF LifecycleInv, OnePodInv, TypeInv, TypeOK
<1>1. ASSUME UNCHANGED row PROVE Abstractly
  BY <1>1, RowsOnly, QuietStep
<1>2. ASSUME NEW p \in Pod, NEW s \in Slot, WorkerStep(p, s) PROVE Abstractly
  <2>1. CASE ClaimAtomic(p, s)
    <3>1. \E j \in Job : ClaimStep(p, s, j)
      BY <2>1 DEF ClaimAtomic, ClaimStep, First, Due
    <3>2. exec[p][s].pc \notin Executing
      BY <2>1 DEF ClaimAtomic, Executing
    <3> QED BY <3>1, <3>2, ClaimRefines
  <2>2. CASE ClaimTry(p, s)
    <3>1. exec[p][s].cands \subseteq Job
      BY DEF Exec
    <3>2. (\E j \in Job : ClaimStep(p, s, j)) \/ UNCHANGED row
      BY <2>2, <3>1 DEF ClaimTry, ClaimStep
    <3>3. exec[p][s].pc \notin Executing
      BY <2>2 DEF ClaimTry, Executing
    <3> QED BY <1>1, <3>2, <3>3, ClaimRefines
  <2>3. CASE CheckCancel(p, s)
    <3>1. \/ row' = row
          \/ row' = [row EXCEPT ![exec[p][s].job].expired = FALSE]
      BY <2>3 DEF CheckCancel
    <3>2. \A i \in Job : Same(i)
      BY <3>1 DEF Same, Row
    <3> QED BY <3>2, QuietStep
  <2>4. CASE Settle(p, s) \/ Retry(p, s)
    BY <2>4, SettleRefines, RetryRefines
  <2>5. CASE \/ ClaimSelect(p, s) \/ ClaimNone(p, s) \/ Tick(p, s)
             \/ WorkerStops(p, s) \/ HandlerReturns(p, s)
    BY <1>1, <2>5 DEF ClaimSelect, ClaimNone, Tick, WorkerStops, HandlerReturns
  <2> QED BY <1>2, <2>1, <2>2, <2>3, <2>4, <2>5 DEF WorkerStep
<1>3. ASSUME NEW p \in Pod, RunnerStep(p) PROVE Abstractly
  BY <1>1, <1>3, RecoverRefines, PruneRefines
     DEF RunnerStep, StartRunner, RecoverDone, RunnerExits
<1>4. ASSUME NEW p \in Pod, NEW s \in Slot, HeartbeatRenews(p, s)
      PROVE  Abstractly
  <2>1. row' = [row EXCEPT ![exec[p][s].job].expired = FALSE]
    BY <1>4 DEF HeartbeatRenews
  <2>2. \A i \in Job : Same(i)
    BY <2>1 DEF Same, Row
  <2> QED BY <2>2, QuietStep
<1>5. ASSUME NEW p \in Pod, NEW s \in Slot,
             \/ HeartbeatCancels(p, s) \/ ClaimFails(p, s)
             \/ SettleFails(p, s) \/ CheckFails(p, s)
      PROVE  Abstractly
  BY <1>1, <1>5 DEF HeartbeatCancels, ClaimFails, SettleFails, CheckFails
<1>6. ASSUME NEW p \in Pod,
             \/ RecoverTick(p) \/ PruneSelect(p) \/ Drain(p) \/ ShutDown(p)
             \/ Crash(p) \/ RecoverFails(p)
      PROVE  Abstractly
  BY <1>1, <1>6 DEF RecoverTick, PruneSelect, Drain, ShutDown, Crash, RecoverFails
<1>7. ASSUME NEW j \in Job, BecomesDue(j) \/ LeaseExpires(j) PROVE Abstractly
  <2>1. \A i \in Job : \/ row'[i] = row[i]
                       \/ row'[i] = [row[i] EXCEPT !.due = TRUE]
                       \/ row'[i] = [row[i] EXCEPT !.expired = TRUE]
    BY <1>7 DEF BecomesDue, LeaseExpires
  <2>2. \A i \in Job : row[i] \in Row
    OBVIOUS
  <2>3. ASSUME NEW i \in Job PROVE Same(i)
    <3>1. CASE row'[i] = row[i]
      BY <3>1 DEF Same
    <3>2. CASE row'[i] = [row[i] EXCEPT !.due = TRUE]
      BY <2>2, <3>2 DEF Same, Row
    <3>3. CASE row'[i] = [row[i] EXCEPT !.expired = TRUE]
      BY <2>2, <3>3 DEF Same, Row
    <3> QED BY <2>1, <3>1, <3>2, <3>3
  <2> QED BY <2>3, QuietStep
<1>8. ASSUME NEW j \in Job, Enqueue(j) PROVE Abstractly
  BY <1>8, EnqueueRefines
<1>9. ASSUME \/ \E j \in Job : CancelAtomic(j)
             \/ \E k \in Key : CancelSingleton(k)
      PROVE  Abstractly
  BY <1>9, CancelRefines
<1>10. ASSUME (\E j \in Job : CancelSelect(j)) \/ CancelUpdate PROVE Abstractly
  BY <1>1, <1>10 DEF CancelSelect, CancelUpdate
<1> HIDE DEF LifecycleInv
<1> QED BY <1>1, <1>2, <1>3, <1>4, <1>5, <1>6, <1>7, <1>8, <1>9, <1>10
        DEF Next, vars

LEMMA LifecycleInit == Init => Lifecycle!Init
<1> SUFFICES ASSUME Init PROVE Lifecycle!Init
  OBVIOUS
<1>1. \A j \in Job : row[j] = NewRow
  BY DEF Init
<1>2. \A p \in Pod, s \in Slot, j \in Job : ~Holds(p, s, j)
  BY DEF Init, Holds, Idle, Executing
<1> QED BY <1>1, <1>2 DEF Lifecycle!Init, NewRow

\* With one process whose live executions keep their lease, the job framework
\* of store.go and worker.go behaves, for who submits a job, as JobLifecycle
\* says: workers, claims, crashes, recovery and pruning implement "at most one
\* execution at a time, at most max_attempts of them, one end".
THEOREM LifecycleImplemented ==
  ASSUME OneTimelyProcess
  PROVE  Spec => LifecycleSpec
<1>1. Init => LifecycleInv /\ Lifecycle!Init
  BY LifecycleInvInit, LifecycleInit
<1>2. LifecycleInv /\ [Next]_vars => LifecycleInv'
  BY LifecycleInvStep
<1>3. LifecycleInv /\ [Next]_vars => [Lifecycle!Next]_(Lifecycle!vars)
  BY LifecycleStep DEF Abstractly
<1> QED BY <1>1, <1>2, <1>3, PTL DEF Spec, LifecycleSpec, Lifecycle!Spec

-----------------------------------------------------------------------------
(* Claims in any deployment.                                               *)
(*                                                                         *)
(* Once the row has reached max_attempts, a further claim has to be paid   *)
(* for: by the row being queued already, by an execution that carries an   *)
(* attempt below the limit, or by a pod whose recovery list remembers one. *)
(* None of these is created any more, executions carry distinct attempts   *)
(* (AttemptIsFence), and a list names a job once. So what is left to pay   *)
(* with is at most 1 + (max_attempts - 1) + (number of pods), less what    *)
(* the step to the limit has consumed.                                     *)

\* Attempts below the limit that some execution of j carries.
LowTries(j) ==
  {n \in 1..(MaxAttempts[j] - 1) :
     \E p \in Pod, s \in Slot : Holds(p, s, j) /\ exec[p][s].tries = n}

\* Pods whose recovery list remembers an attempt below the limit.
LowLists(j) ==
  {p \in Pod : \E je \in stale[p] : je[1] = j /\ je[2] < MaxAttempts[j]}

Waiting(j) == IF row[j].status = "queued" THEN 1 ELSE 0

\* Claims of j so far and those that are still paid for.
Claims(j) == row[j].attempts + Waiting(j)
               + Cardinality(LowTries(j)) + Cardinality(LowLists(j))

Limit(j) == 2 * MaxAttempts[j] - 1 + Cardinality(Pod)

PaidFor ==
  \A j \in Job : row[j].attempts >= MaxAttempts[j] => Claims(j) <= Limit(j)

ListedOnce == \A p \in Pod : \A x, y \in stale[p] : x[1] = y[1] => x = y

TriesCounted ==
  \A p \in Pod, s \in Slot, j \in Job : Holds(p, s, j) => exec[p][s].tries >= 1

AbsentIsNew == \A j \in Job : row[j].status = "absent" => row[j].attempts = 0

AttemptsInv == FenceInv /\ ListedOnce /\ TriesCounted /\ AbsentIsNew /\ PaidFor

-----------------------------------------------------------------------------
(* Sizes.                                                                  *)

LEMMA LowSet ==
  ASSUME NEW j \in Job, NEW T \in SUBSET (1..(MaxAttempts[j] - 1))
  PROVE  /\ IsFiniteSet(T) /\ Cardinality(T) \in Nat
         /\ Cardinality(T) <= MaxAttempts[j] - 1
<1>1. MaxAttempts[j] \in Nat \ {0}
  BY JobsAssumption
<1> DEFINE U == 1..(MaxAttempts[j] - 1)
<1>2. IsFiniteSet(U) /\ Cardinality(U) = MaxAttempts[j] - 1
  <2>1. MaxAttempts[j] - 1 \in Int /\ 1 \in Int
    BY <1>1
  <2>2. /\ IsFiniteSet(U)
        /\ Cardinality(U) = IF 1 > MaxAttempts[j] - 1 THEN 0
                            ELSE (MaxAttempts[j] - 1) - 1 + 1
    BY <2>1, FS_Interval
  <2> QED BY <1>1, <2>2
<1>3. IsFiniteSet(T) /\ Cardinality(T) <= Cardinality(U)
  BY <1>2, FS_Subset
<1>4. Cardinality(T) \in Nat
  BY <1>3, FS_CardinalityType
<1> QED BY <1>2, <1>3, <1>4

LEMMA PodSet ==
  ASSUME IsFiniteSet(Pod), NEW L \in SUBSET Pod
  PROVE  /\ IsFiniteSet(L) /\ Cardinality(L) \in Nat
         /\ Cardinality(Pod) \in Nat /\ Cardinality(L) <= Cardinality(Pod)
BY FS_Subset, FS_CardinalityType

\* A set that loses an element gets smaller.
LEMMA LosesOne ==
  ASSUME NEW S, IsFiniteSet(S), NEW x \in S, NEW R \in SUBSET (S \ {x})
  PROVE  Cardinality(R) + 1 <= Cardinality(S)
<1>1. IsFiniteSet(S \ {x}) /\ Cardinality(S \ {x}) = Cardinality(S) - 1
  BY FS_RemoveElement
<1>2. IsFiniteSet(R) /\ Cardinality(R) <= Cardinality(S \ {x})
  BY <1>1, FS_Subset
<1>3. Cardinality(R) \in Nat /\ Cardinality(S) \in Nat
  BY <1>2, FS_CardinalityType
<1> QED BY <1>1, <1>2, <1>3

-----------------------------------------------------------------------------
(* The parts of the invariant.                                             *)

LEMMA ListedOnceStep ==
  ASSUME TypeInv, ListedOnce, [Next]_vars
  PROVE  ListedOnce'
<1> SUFFICES ASSUME NEW p \in Pod, NEW x \in stale'[p], NEW y \in stale'[p],
                    x[1] = y[1]
             PROVE  x = y
  BY DEF ListedOnce
<1>1. CASE stale'[p] \subseteq stale[p]
  BY <1>1 DEF ListedOnce
<1>2. CASE stale'[p] = Expired
  BY <1>2 DEF Expired
<1> QED BY <1>1, <1>2, StaleFrame

\* The record of a worker that claims j.
LEMMA ClaimFacts ==
  ASSUME TypeInv, NEW p \in Pod, NEW s \in Slot, NEW j \in Job, ClaimStep(p, s, j)
  PROVE  /\ row[j].status = "queued" /\ row'[j].status = "running"
         /\ row[j].attempts \in Nat /\ row'[j].attempts = row[j].attempts + 1
         /\ \A i \in Job : i # j => row'[i] = row[i]
         /\ exec'[p][s].job = j /\ exec'[p][s].tries = row[j].attempts + 1
         /\ \A q \in Pod, t \in Slot :
              <<q, t>> # <<p, s>> => exec'[q][t] = exec[q][t]
<1>1. row' = [row EXCEPT ![j] = Claimed(row[j], s)] /\ row[j].status = "queued"
  BY DEF ClaimStep, Claim, Put, Exists, TypeInv, TypeOK
<1>2. /\ row'[j].status = "running" /\ row[j].attempts \in Nat
      /\ row'[j].attempts = row[j].attempts + 1
  BY <1>1 DEF Claimed, TypeInv, TypeOK, Row
<1>3. \A i \in Job : i # j => row'[i] = row[i]
  BY <1>1 DEF TypeInv, TypeOK
<1>4. /\ exec'[p][s].job = j /\ exec'[p][s].tries = row[j].attempts + 1
      /\ \A q \in Pod, t \in Slot :
           <<q, t>> # <<p, s>> => exec'[q][t] = exec[q][t]
  BY DEF ClaimStep, Claim, SetExec, TypeInv, TypeOK
<1> QED BY <1>1, <1>2, <1>3, <1>4

LEMMA TriesCountedStep ==
  ASSUME TypeInv, TriesCounted, [Next]_vars
  PROVE  TriesCounted'
<1>1. CASE KeepsExecs
  BY <1>1 DEF KeepsExecs, TriesCounted
<1>2. ASSUME NEW p \in Pod, NEW s \in Slot, NEW j \in Job, ClaimStep(p, s, j)
      PROVE  TriesCounted'
  <2>1. exec'[p][s].tries >= 1
    BY <1>2, ClaimFacts
  <2>2. \A q \in Pod, t \in Slot, i \in Job :
          <<q, t>> # <<p, s>> /\ Holds(q, t, i)' =>
            Holds(q, t, i) /\ exec'[q][t] = exec[q][t]
    BY <1>2, ClaimFacts DEF Holds
  <2> QED BY <2>1, <2>2 DEF TriesCounted
<1> QED BY <1>1, <1>2, ExecSteps

LEMMA AbsentIsNewStep ==
  ASSUME TypeInv, AbsentIsNew, [Next]_vars
  PROVE  AbsentIsNew'
<1> SUFFICES ASSUME NEW j \in Job, row'[j].status = "absent"
             PROVE  row'[j].attempts = 0
  BY DEF AbsentIsNew
<1>1. row[j] \in Row
  BY DEF TypeInv, TypeOK
<1>2. row[j].status = "absent"
  BY AttemptsFrame
<1>3. CASE row'[j] = row[j]
  BY <1>2, <1>3 DEF AbsentIsNew
<1>4. ~SettlesRow(j) /\ ~CancelsRow(j) /\ row'[j] # PrunedRow
  BY <1>2 DEF SettlesRow, CancelsRow, Exists, PrunedRow, NewRow
<1>5. ~EntersIndex(j)
  <2>1. [row[j] EXCEPT !.status = "queued"].status = "queued"
    BY <1>1 DEF Row
  <2>2. row' # [row EXCEPT ![j] = [row[j] EXCEPT !.status = "queued"]]
    BY <2>1 DEF TypeInv, TypeOK
  <2> QED BY <1>2, <2>2 DEF EntersIndex, Exists
<1> QED BY <1>2, <1>3, <1>4, <1>5, RowSteps DEF RowStep

-----------------------------------------------------------------------------
(* What a step pays with.                                                  *)

\* Below the limit no attempt is handed out any more.
LEMMA TriesShrink ==
  ASSUME TypeInv, [Next]_vars, NEW j \in Job, row'[j].attempts >= MaxAttempts[j]
  PROVE  LowTries(j)' \subseteq LowTries(j)
<1>1. CASE KeepsExecs
  BY <1>1 DEF KeepsExecs, LowTries
<1>2. ASSUME NEW p \in Pod, NEW s \in Slot, NEW i \in Job, ClaimStep(p, s, i)
      PROVE  LowTries(j)' \subseteq LowTries(j)
  <2> SUFFICES ASSUME NEW n \in 1..(MaxAttempts[j] - 1), NEW q \in Pod,
                      NEW t \in Slot, Holds(q, t, j)', exec'[q][t].tries = n
               PROVE  n \in LowTries(j)
    BY DEF LowTries
  <2>1. MaxAttempts[j] \in Nat
    BY JobsAssumption
  <2>2. <<q, t>> # <<p, s>>
    <3>1. ASSUME q = p, t = s PROVE FALSE
      <4>1. i = j
        BY <1>2, <3>1, ClaimFacts DEF Holds
      <4>2. n = row'[j].attempts
        BY <1>2, <3>1, <4>1, ClaimFacts
      <4> QED BY <2>1, <4>2
    <3> QED BY <3>1
  <2>3. Holds(q, t, j) /\ exec[q][t].tries = n
    BY <1>2, <2>2, ClaimFacts DEF Holds
  <2> QED BY <2>3 DEF LowTries
<1> QED BY <1>1, <1>2, ExecSteps

\* Recovery reads no attempt below the limit any more.
LEMMA ListsShrink ==
  ASSUME TypeInv, [Next]_vars, NEW j \in Job, row'[j].attempts >= MaxAttempts[j]
  PROVE  LowLists(j)' \subseteq LowLists(j)
<1> SUFFICES ASSUME NEW p \in Pod, NEW je \in stale'[p], je[1] = j,
                    je[2] < MaxAttempts[j]
             PROVE  p \in LowLists(j)
  BY DEF LowLists
<1>1. CASE stale'[p] \subseteq stale[p]
  BY <1>1 DEF LowLists
<1>2. CASE row' = row /\ stale'[p] = Expired
  <2>1. je[2] = row'[j].attempts
    BY <1>2 DEF Expired
  <2>2. row'[j].attempts \in Nat /\ MaxAttempts[j] \in Nat
    BY <1>2, JobsAssumption DEF TypeInv, TypeOK, Row
  <2> QED BY <2>1, <2>2
<1> QED BY <1>1, <1>2, StaleFrame

\* The row does not come to wait for a claim.
Calm(j) == /\ row'[j].attempts = row[j].attempts
           /\ row'[j].status = "queued" => row[j].status = "queued"

\* An execution that carries an attempt below the limit is used up.
SpendsTry(j) ==
  \E p \in Pod, s \in Slot :
    /\ Holds(p, s, j) /\ exec[p][s].tries < MaxAttempts[j]
    /\ SetExec(p, s, LoopTop(p)) /\ row'[j].attempts = row[j].attempts

\* An entry of a recovery list is used up.
SpendsList(j) ==
  \E p \in Pod : \E je \in stale[p] :
    /\ je[1] = j /\ je[2] < MaxAttempts[j]
    /\ stale' = [stale EXCEPT ![p] = @ \ {je}]
    /\ row'[j].attempts = row[j].attempts

\* A job that has reached the limit gets queued only by using up one of them.
LEMMA Spends ==
  ASSUME TypeInv, AbsentIsNew, [Next]_vars,
         ~\E p \in Pod, s \in Slot, i \in Job : ClaimStep(p, s, i),
         NEW j \in Job, row'[j].attempts >= MaxAttempts[j]
  PROVE  Calm(j) \/ SpendsTry(j) \/ SpendsList(j)
<1> DEFINE Goal == Calm(j) \/ SpendsTry(j) \/ SpendsList(j)
<1> USE DEF TypeInv, TypeOK
<1>0. row[j] \in Row /\ MaxAttempts[j] \in Nat \ {0}
  BY JobsAssumption
<1>1. ASSUME row'[j] = row[j] PROVE Goal
  BY <1>1 DEF Calm
<1>2. ASSUME row' = row PROVE Goal
  BY <1>1, <1>2
<1>3. ASSUME NEW st \in Status \ {"queued"}, row'[j] = Settled(row[j], st)
      PROVE  Goal
  BY <1>0, <1>3 DEF Calm, Settled, Row
<1>4. ASSUME NEW i \in Job, NEW r, Put(i, r), row'[j] # row[j]
      PROVE  i = j /\ row'[j] = r /\ Exists(j)
  BY <1>4 DEF Put
<1>5. ASSUME NEW p \in Pod, NEW s \in Slot, CheckCancel(p, s) PROVE Goal
  <2>1. row'[j] = row[j] \/ row'[j] = [row[j] EXCEPT !.expired = FALSE]
    BY <1>5 DEF CheckCancel
  <2> QED BY <1>0, <1>1, <2>1 DEF Calm, Row
<1>6. ASSUME NEW p \in Pod, NEW s \in Slot, Settle(p, s) PROVE Goal
  <2>1. exec[p][s].job \in Job
    BY <1>6 DEF Settle, JobKnown, Executing
  <2>2. row' = row \/ \E st \in Terminal :
          Put(exec[p][s].job, Settled(row[exec[p][s].job], st))
    BY <1>6 DEF Settle, Terminal
  <2>3. Terminal \subseteq Status \ {"queued"}
    BY DEF Terminal, Status
  <2> QED BY <1>1, <1>2, <1>3, <1>4, <2>1, <2>2, <2>3
<1>7. ASSUME NEW p \in Pod, NEW s \in Slot, Retry(p, s) PROVE Goal
  <2>1. exec[p][s].job \in Job /\ Holds(p, s, exec[p][s].job)
    BY <1>7 DEF Retry, JobKnown, Executing, Holds
  <2>2. CASE row'[j] = row[j]
    BY <1>1, <2>2
  <2>3. CASE row'[j] # row[j]
    <3>1. Put(exec[p][s].job, Requeued(row[exec[p][s].job], FALSE))
      BY <1>7, <2>3 DEF Retry
    <3>2. exec[p][s].job = j /\ row'[j] = Requeued(row[j], FALSE)
      BY <1>4, <2>1, <2>3, <3>1
    <3>3. row'[j].attempts = row[j].attempts
      BY <1>0, <3>2 DEF Requeued, Settled, Row
    <3>4. SpendsTry(j)
      BY <1>7, <2>1, <3>2, <3>3 DEF Retry, SpendsTry
    <3> QED BY <3>4
  <2> QED BY <2>2, <2>3
<1>8. ASSUME NEW p \in Pod, RecoverRow(p) PROVE Goal
  <2>1. PICK je \in stale[p] :
          /\ stale' = [stale EXCEPT ![p] = @ \ {je}]
          /\ row' = IF row[je[1]].status # "running" THEN row
                 ELSE [row EXCEPT ![je[1]] = IF je[2] < MaxAttempts[je[1]]
                                           THEN Requeued(row[je[1]], TRUE)
                                           ELSE Settled(row[je[1]], "failed")]
    BY <1>8 DEF RecoverRow
  <2>2. CASE row'[j] = row[j]
    BY <1>1, <2>2
  <2>3. CASE row'[j] # row[j]
    <3>1. je[1] = j
      BY <2>1, <2>3
    <3>2. CASE je[2] < MaxAttempts[j]
      <4>1. row'[j] = Requeued(row[j], TRUE)
        BY <2>1, <2>3, <3>1, <3>2
      <4>2. row'[j].attempts = row[j].attempts
        BY <1>0, <4>1 DEF Requeued, Settled, Row
      <4>3. SpendsList(j)
        BY <2>1, <3>1, <3>2, <4>2 DEF SpendsList
      <4> QED BY <4>3
    <3>3. CASE ~(je[2] < MaxAttempts[j])
      <4>1. row'[j] = Settled(row[j], "failed")
        BY <2>1, <2>3, <3>1, <3>3
      <4> QED BY <1>3, <4>1 DEF Status, Terminal
    <3> QED BY <3>2, <3>3
  <2> QED BY <2>2, <2>3
<1>9. ASSUME NEW p \in Pod, PruneDelete(p) PROVE Goal
  <2>1. row'[j] = row[j] \/ row'[j] = [NewRow EXCEPT !.status = "pruned"]
    BY <1>9 DEF PruneDelete
  <2>2. row'[j] # [NewRow EXCEPT !.status = "pruned"]
    BY <1>0 DEF NewRow
  <2> QED BY <1>1, <2>1, <2>2
<1>10. ASSUME NEW i \in Job, Enqueue(i) PROVE Goal
  <2>1. CASE i = j
    <3>1. row'[j].attempts = row[j].attempts /\ row[j].attempts = 0
      BY <1>0, <1>10, <2>1 DEF Enqueue, AbsentIsNew, Row
    <3> QED BY <1>0, <3>1
  <2>2. CASE i # j
    BY <1>1, <1>10, <2>2 DEF Enqueue
  <2> QED BY <2>1, <2>2
<1>11. ASSUME NEW i \in Job, NEW seen, CancelWrite(i, seen) PROVE Goal
  <2>1. \/ row'[j] = row[j]
        \/ row'[j] = [row[j] EXCEPT !.status = "cancelled", !.cancel = TRUE]
        \/ row'[j] = [row[j] EXCEPT !.cancel = TRUE]
    BY <1>4, <1>11 DEF CancelWrite
  <2> QED BY <1>0, <1>1, <2>1 DEF Calm, Row
<1>12. ASSUME NEW k \in Key, CancelSingleton(k) PROVE Goal
  <2>1. \/ row'[j] = row[j]
        \/ row'[j] = [row[j] EXCEPT
             !.status = IF @ = "queued" THEN "cancelled" ELSE @, !.cancel = TRUE]
    BY <1>12 DEF CancelSingleton
  <2> QED BY <1>0, <1>1, <2>1 DEF Calm, Row
<1>13. ASSUME NEW i \in Job, BecomesDue(i) \/ LeaseExpires(i) PROVE Goal
  <2>1. \/ row'[j] = row[j] \/ row'[j] = [row[j] EXCEPT !.due = TRUE]
        \/ row'[j] = [row[j] EXCEPT !.expired = TRUE]
    BY <1>13 DEF BecomesDue, LeaseExpires
  <2> QED BY <1>0, <1>1, <2>1 DEF Calm, Row
<1>14. ASSUME NEW p \in Pod, NEW s \in Slot, HeartbeatRenews(p, s) PROVE Goal
  <2>1. row'[j] = row[j] \/ row'[j] = [row[j] EXCEPT !.expired = FALSE]
    BY <1>14 DEF HeartbeatRenews
  <2> QED BY <1>0, <1>1, <2>1 DEF Calm, Row
<1>15. ASSUME NEW p \in Pod, NEW s \in Slot, ClaimAtomic(p, s) PROVE Goal
  BY <1>15 DEF ClaimAtomic, ClaimStep, First, Due
<1>16. ASSUME NEW p \in Pod, NEW s \in Slot, ClaimTry(p, s) PROVE Goal
  <2>1. exec[p][s].cands \subseteq Job
    BY DEF Exec
  <2> QED BY <1>2, <1>16, <2>1 DEF ClaimTry, ClaimStep
<1>17. ASSUME NEW p \in Pod, NEW s \in Slot, WorkerStep(p, s) PROVE Goal
  BY <1>2, <1>5, <1>6, <1>7, <1>15, <1>16, <1>17
     DEF WorkerStep, ClaimSelect, ClaimNone, Tick, WorkerStops, HandlerReturns
<1>18. ASSUME NEW p \in Pod, RunnerStep(p) PROVE Goal
  BY <1>2, <1>8, <1>9, <1>18 DEF RunnerStep, StartRunner, RecoverDone, RunnerExits
<1>19. ASSUME NEW p \in Pod, NEW s \in Slot,
              \/ HeartbeatCancels(p, s) \/ ClaimFails(p, s)
              \/ SettleFails(p, s) \/ CheckFails(p, s)
       PROVE  Goal
  BY <1>2, <1>19 DEF HeartbeatCancels, ClaimFails, SettleFails, CheckFails
<1>20. ASSUME NEW p \in Pod,
              \/ RecoverTick(p) \/ PruneSelect(p) \/ Drain(p) \/ ShutDown(p)
              \/ Crash(p) \/ RecoverFails(p)
       PROVE  Goal
  BY <1>2, <1>20 DEF RecoverTick, PruneSelect, Drain, ShutDown, Crash, RecoverFails
<1>21. ASSUME NEW i \in Job, CancelAtomic(i) \/ CancelSelect(i) PROVE Goal
  BY <1>2, <1>11, <1>21 DEF CancelAtomic, CancelSelect
<1>22. ASSUME CancelUpdate PROVE Goal
  <2>1. PICK c \in cancelTx : CancelWrite(c[1], c[2])
    BY <1>22 DEF CancelUpdate
  <2>2. c[1] \in Job
    OBVIOUS
  <2> QED BY <1>11, <2>1, <2>2
<1> QED BY <1>2, <1>10, <1>12, <1>13, <1>14, <1>17, <1>18, <1>19, <1>20, <1>21,
           <1>22 DEF Next, vars

-----------------------------------------------------------------------------
(* The invariant.                                                          *)

\* Sums that do not grow.
LEMMA StillPaid ==
  ASSUME NEW a \in Nat, NEW v \in Nat, NEW w \in Nat, NEW t \in Nat, NEW u \in Nat,
         NEW l \in Nat, NEW m \in Nat, NEW b \in Int,
         a + v + t + l <= b, u <= t, m <= l,
         w <= v \/ (w <= 1 /\ (u + 1 <= t \/ m + 1 <= l))
  PROVE  a + w + u + m <= b
OBVIOUS

LEMMA PaidForStep ==
  ASSUME IsFiniteSet(Pod), AttemptsInv, [Next]_vars
  PROVE  PaidFor'
<1> USE DEF AttemptsInv, FenceInv
<1> SUFFICES ASSUME NEW j \in Job, row'[j].attempts >= MaxAttempts[j]
             PROVE  Claims(j)' <= Limit(j)
  BY DEF PaidFor, Limit
<1> DEFINE T == LowTries(j)
           U == LowTries(j)'
           L == LowLists(j)
           M == LowLists(j)'
<1>1. U \subseteq T /\ M \subseteq L
  BY TriesShrink, ListsShrink
<1>2. T \in SUBSET (1..(MaxAttempts[j] - 1)) /\ L \in SUBSET Pod
  BY DEF LowTries, LowLists
<1>3. /\ MaxAttempts[j] \in Nat \ {0} /\ row[j].attempts \in Nat
      /\ Waiting(j) \in {0, 1} /\ Waiting(j)' \in {0, 1}
  BY JobsAssumption DEF TypeInv, TypeOK, Row, Waiting
<1>4. TypeInv'
  BY TypeStep
<1>5. row'[j].attempts \in Nat
  BY <1>4 DEF TypeInv, TypeOK, Row
<1>6. /\ IsFiniteSet(T) /\ Cardinality(T) \in Nat
      /\ Cardinality(T) <= MaxAttempts[j] - 1
  BY <1>2, LowSet
<1>7. /\ IsFiniteSet(L) /\ Cardinality(L) \in Nat
      /\ Cardinality(Pod) \in Nat /\ Cardinality(L) <= Cardinality(Pod)
  BY <1>2, PodSet
<1>8. Cardinality(U) \in Nat /\ Cardinality(U) <= Cardinality(T)
  BY <1>1, <1>6, FS_Subset, FS_CardinalityType
<1>9. Cardinality(M) \in Nat /\ Cardinality(M) <= Cardinality(L)
  BY <1>1, <1>7, FS_Subset, FS_CardinalityType
<1>10. row[j].attempts >= MaxAttempts[j] =>
         row[j].attempts + Waiting(j) + Cardinality(T) + Cardinality(L)
           <= 2 * MaxAttempts[j] - 1 + Cardinality(Pod)
  BY DEF PaidFor, Claims, Limit
<1> DEFINE Goal == row'[j].attempts + Waiting(j)' + Cardinality(U) + Cardinality(M)
                     <= 2 * MaxAttempts[j] - 1 + Cardinality(Pod)
<1>11. ASSUME NEW p \in Pod, NEW s \in Slot, NEW i \in Job, ClaimStep(p, s, i)
       PROVE  Goal
  <2>1. CASE i = j
    <3>1. /\ row'[j].attempts = row[j].attempts + 1
          /\ Waiting(j) = 1 /\ Waiting(j)' = 0
      BY <1>11, <2>1, ClaimFacts DEF Waiting
    <3>2. CASE row[j].attempts >= MaxAttempts[j]
      <4> HIDE DEF T, U, L, M
      <4> QED BY <1>3, <1>5, <1>6, <1>7, <1>8, <1>9, <1>10, <3>1, <3>2
    <3>3. CASE ~(row[j].attempts >= MaxAttempts[j])
      <4>1. row'[j].attempts = MaxAttempts[j]
        BY <1>3, <1>5, <3>1, <3>3
      <4> HIDE DEF T, U, L, M
      <4> QED BY <1>3, <1>6, <1>7, <1>8, <1>9, <3>1, <4>1
    <3> QED BY <3>2, <3>3
  <2>2. CASE i # j
    <3>1. row'[j] = row[j] /\ Waiting(j)' = Waiting(j)
      BY <1>11, <2>2, ClaimFacts DEF Waiting
    <3> HIDE DEF T, U, L, M
    <3> QED BY <1>3, <1>6, <1>7, <1>8, <1>9, <1>10, <3>1
  <2> QED BY <2>1, <2>2
<1>12. ASSUME ~\E p \in Pod, s \in Slot, i \in Job : ClaimStep(p, s, i)
       PROVE  Goal
  <2>0. KeepsExecs
    BY <1>12, ExecSteps
  <2> DEFINE Paying ==
        \/ Waiting(j)' <= Waiting(j)
        \/ Cardinality(U) + 1 <= Cardinality(T)
        \/ Cardinality(M) + 1 <= Cardinality(L)
  <2>5. ASSUME row'[j].attempts = row[j].attempts, Paying PROVE Goal
    <3>1. row[j].attempts >= MaxAttempts[j]
      BY <2>5
    <3>2. row[j].attempts + Waiting(j) + Cardinality(T) + Cardinality(L)
            <= 2 * MaxAttempts[j] - 1 + Cardinality(Pod)
      BY <1>10, <3>1
    <3>3. 2 * MaxAttempts[j] - 1 + Cardinality(Pod) \in Int
      BY <1>3, <1>7
    <3>4. /\ Waiting(j) \in Nat /\ Waiting(j)' \in Nat
          /\ Waiting(j)' <= Waiting(j) \/ Waiting(j)' <= 1
      BY <1>3
    <3> HIDE DEF T, U, L, M
    <3>5. row[j].attempts + Waiting(j)' + Cardinality(U) + Cardinality(M)
            <= 2 * MaxAttempts[j] - 1 + Cardinality(Pod)
      BY <1>3, <1>6, <1>7, <1>8, <1>9, <2>5, <3>2, <3>3, <3>4, StillPaid
    <3> QED BY <2>5, <3>5
  <2>1. CASE Calm(j)
    <3>1. row'[j].attempts = row[j].attempts /\ Waiting(j)' <= Waiting(j)
      BY <2>1 DEF Calm, Waiting
    <3> QED BY <2>5, <3>1
  <2>2. CASE SpendsTry(j)
    <3>1. PICK p \in Pod, s \in Slot :
            /\ Holds(p, s, j) /\ exec[p][s].tries < MaxAttempts[j]
            /\ SetExec(p, s, LoopTop(p)) /\ row'[j].attempts = row[j].attempts
      BY <2>2 DEF SpendsTry
    <3> DEFINE n == exec[p][s].tries
    <3>2. n \in T
      <4>1. n \in Nat /\ n >= 1
        BY <3>1 DEF TriesCounted, TypeInv, TypeOK, Exec
      <4>2. n \in 1..(MaxAttempts[j] - 1)
        BY <1>3, <3>1, <4>1
      <4> QED BY <3>1, <4>2 DEF LowTries
    <3>3. n \notin U
      <4> SUFFICES ASSUME NEW q \in Pod, NEW t \in Slot, Holds(q, t, j)',
                          exec'[q][t].tries = n
                   PROVE  FALSE
        BY DEF LowTries
      <4>1. Holds(q, t, j) /\ exec[q][t].tries = n
        BY <2>0 DEF KeepsExecs
      <4>2. q = p /\ t = s
        BY <3>1, <4>1 DEF AttemptIsFence
      <4>3. exec'[p][s] = LoopTop(p)
        BY <3>1 DEF SetExec, TypeInv, TypeOK
      <4> QED BY <4>2, <4>3 DEF Holds, LoopTop, Idle, Executing
    <3>4. U \in SUBSET (T \ {n})
      BY <1>1, <3>3
    <3> HIDE DEF T, U, L, M, n
    <3>5. Cardinality(U) + 1 <= Cardinality(T)
      BY <1>6, <3>2, <3>4, LosesOne
    <3> QED BY <2>5, <3>1, <3>5
  <2>3. CASE SpendsList(j)
    <3>1. PICK p \in Pod : \E je \in stale[p] :
            /\ je[1] = j /\ je[2] < MaxAttempts[j]
            /\ stale' = [stale EXCEPT ![p] = @ \ {je}]
            /\ row'[j].attempts = row[j].attempts
      BY <2>3 DEF SpendsList
    <3>2. p \in L
      BY <3>1 DEF LowLists
    <3>3. p \notin M
      <4>1. \A x \in stale'[p] : x[1] # j
        BY <3>1 DEF ListedOnce, TypeInv, TypeOK
      <4> QED BY <4>1 DEF LowLists
    <3>4. M \in SUBSET (L \ {p})
      BY <1>1, <3>3
    <3> HIDE DEF T, U, L, M
    <3>5. Cardinality(M) + 1 <= Cardinality(L)
      BY <1>7, <3>2, <3>4, LosesOne
    <3> QED BY <2>5, <3>1, <3>5
  <2>4. Calm(j) \/ SpendsTry(j) \/ SpendsList(j)
    BY <1>12, Spends
  <2> QED BY <2>1, <2>2, <2>3, <2>4
<1>13. Goal
  BY <1>11, <1>12
<1> QED BY <1>13 DEF Claims, Limit

LEMMA AttemptsInvStep ==
  ASSUME IsFiniteSet(Pod)
  PROVE  AttemptsInv /\ [Next]_vars => AttemptsInv'
<1> SUFFICES ASSUME AttemptsInv, [Next]_vars PROVE AttemptsInv'
  OBVIOUS
<1>1. FenceInv'
  BY FenceStep DEF AttemptsInv
<1>2. ListedOnce' /\ TriesCounted' /\ AbsentIsNew'
  BY ListedOnceStep, TriesCountedStep, AbsentIsNewStep DEF AttemptsInv, FenceInv
<1>3. PaidFor'
  BY PaidForStep
<1> QED BY <1>1, <1>2, <1>3 DEF AttemptsInv

LEMMA AttemptsInvInit == Init => AttemptsInv
<1> SUFFICES ASSUME Init PROVE AttemptsInv
  OBVIOUS
<1>1. \A p \in Pod, s \in Slot, j \in Job : ~Holds(p, s, j)
  BY DEF Init, Holds, Idle, Executing
<1>2. \A j \in Job : row[j].status = "absent" /\ row[j].attempts = 0
  BY DEF Init, NewRow
<1>3. FenceInv
  BY <1>1, TypeInit DEF FenceInv, AttemptIsFence, NoEarlyExecution
<1>4. ListedOnce
  BY DEF Init, ListedOnce
<1>5. PaidFor
  BY <1>2, JobsAssumption DEF PaidFor
<1> QED BY <1>1, <1>2, <1>3, <1>4, <1>5 DEF AttemptsInv, TriesCounted, AbsentIsNew

LEMMA AttemptsInvBounds ==
  ASSUME IsFiniteSet(Pod)
  PROVE  AttemptsInv => AttemptsBounded
<1> SUFFICES ASSUME AttemptsInv, NEW j \in Job
             PROVE  row[j].attempts <= 2 * MaxAttempts[j] - 1 + Cardinality(Pod)
  BY DEF AttemptsBounded
<1>1. /\ MaxAttempts[j] \in Nat \ {0} /\ row[j].attempts \in Nat
      /\ Waiting(j) \in {0, 1}
  BY JobsAssumption DEF AttemptsInv, FenceInv, TypeInv, TypeOK, Row, Waiting
<1>2. Cardinality(LowTries(j)) \in Nat
  BY LowSet DEF LowTries
<1>3. Cardinality(LowLists(j)) \in Nat /\ Cardinality(Pod) \in Nat
  BY PodSet DEF LowLists
<1>4. row[j].attempts >= MaxAttempts[j] =>
        row[j].attempts + Waiting(j)
          + Cardinality(LowTries(j)) + Cardinality(LowLists(j))
          <= 2 * MaxAttempts[j] - 1 + Cardinality(Pod)
  BY DEF AttemptsInv, PaidFor, Claims, Limit
<1> QED BY <1>1, <1>2, <1>3, <1>4

\* In any deployment of finitely many pods, however leases expire and retries
\* and recoveries come late, FailOrRetry and RecoverExpiredRunning together
\* requeue a job a bounded number of times.
THEOREM AttemptsBoundedSafe ==
  ASSUME IsFiniteSet(Pod)
  PROVE  Spec => []AttemptsBounded
<1>1. Init => AttemptsInv
  BY AttemptsInvInit
<1>2. AttemptsInv /\ [Next]_vars => AttemptsInv'
  BY AttemptsInvStep
<1>3. AttemptsInv => AttemptsBounded
  BY AttemptsInvBounds
<1> QED BY <1>1, <1>2, <1>3, PTL DEF Spec
=============================================================================
