# SQLWarden: a TLA+ verification development

SQLWarden is a team SQL workbench: a Go API server (`internal/`), one or more
processes of which share an application database (PostgreSQL or SQLite), and a
web frontend (`frontend/`). The server holds live connections to the databases
its users work on, keeps their files and query results, decides who may do what,
and runs background jobs. The frontend is an SQL editor with panes, shared
documents and query results, and a console for organizations, workspaces and
the instance.

This directory specifies the parts of the server and of the frontend whose
correctness depends on what happens at the same time, in which order, or after a
failure. Paths below are relative to the repository (frontend files to
`frontend/src`); `file.go:n` abbreviates a path given in the same section.

| Module | What it is |
| --- | --- |
| `Jobs` | the background job framework, in every deployment |
| `JobLifecycle` | what the job framework promises of one job; `Jobs` implements it in one process |
| `Sessions` | live sessions on target databases, query cursors, and the requests and reapers that use them |
| `ResultPaging` | the pages of a result, from the server's cursor to the editor's grid |
| `QueryRuns` | runs of statements in the editor: batches, confirmations, cancellation, history |
| `EditorLayout` | the panes and tabs of an editor window, in a tree of splits |
| `EditorTree` | that tree as the nested nodes of the source, with its recursive functions |
| `EditorPanes` | what such a tree promises of tabs and panes; `EditorLayout` implements it |
| `EditorTabs` | the variables both have, and what is to hold of both |
| `EditorDocs` | one file in several windows: shared document, saves, snapshots, reloads |
| `Console` | the console's query cache and sign-in beside the server's permissions; composes the next six |
| `ConsoleServer` | what each route of the server requires and changes |
| `ConsoleQueries` | the cached queries |
| `OrgPages`, `WorkspacePages`, `AdminPages`, `IdePanels` | what the pages and panels read, offer and tell the cache |
| `JobsProofs` | theorems of `Jobs`: in every deployment; in one process whose live workers keep their leases, among them that it implements `JobLifecycle`; the bound on a job's attempts with several |
| `EditorLayoutProofs` | theorems of `EditorLayout`, among them that it implements `EditorPanes` |
| `SessionsProofs`, `ResultPagingProofs`, `QueryRunsProofs`, `EditorPanesProofs`, `EditorDocsProofs`, `ConsoleProofs` | theorems of the module each is named after |
| `MCJobs`, `MCSessions`, `MCResultPaging`, `MCQueryRuns`, `MCEditorLayout`, `MCEditorDocs`, `MCConsole` | small instances |

`PROJECT.json` lists the parts of the system, the runs, for each property a bug
in the code that it would catch, the lines each definition stands for, the
hazards of the code with the properties aimed at them, and the theorems.

To check a run, `tlc -config MCJobsOnePod.cfg MCJobs`; to check the proofs,
`tlapm SessionsProofs.tla`.

## 1. Inventory

### Background jobs (`internal/jobs`)

*State.* The `jobs` table: status, `attempts`, `claimed_by`, `claimed_until`,
`run_at`, `cancel_requested`, `singleton_key`. In each process a `Runner` with
workers `api-0`, `api-1`, ...

*Operations.* Enqueue (plain or singleton, with a partial unique index on
active keys); claim the best due row; renew the lease by heartbeat; execute the
registered handler; complete, fail or retry with backoff; cancel a queued or
running job; recover rows whose lease is over (at start, and by worker 0);
prune old settled rows; stop on a settings change or at shutdown.

*What is hard.* Several processes update the same rows. Every update that settles
a row is `WHERE id = ?` alone, decided on a copy read earlier. The worker's name
does not contain the process. A lease can run out under a live handler. A
process can die, and any database call can fail.

*Correct when* a job has one execution at a time and at most `max_attempts` of
them, is settled in the end and once, and at most one job of a key is active.

### Live sessions and query cursors (`internal/connection`, `internal/web`)

*State.* `Manager` with its indexes `byKey` (account and connection) and `byID`;
each `Session` with its driver, its lock and its open cursors; the handle of each
cursor; `QueryCursorManager`'s records; the schema cache of a connection.

*Operations.* Connect; query; start, fetch and close a cursor; inspect the
schema; disconnect; drop sessions after a revocation, a membership change or a
DSN rotation; two reapers of idle sessions and idle cursors; a hook that runs
when a connection has lost its last session.

*What is hard.* Three levels of locks, held across calls to target databases. A
session is closed with the manager's lock held and waits for its running query.
Cursors are listed in two places, which different goroutines empty in different
orders. Queries start before they are registered. Handlers work from rows they
read at the start of the request.

*Correct when* the indexes and the open drivers agree, no open cursor is
forgotten, nothing waits for ever, and what a removal was meant to end does end.

### Runtime supervisor and settings (`internal/web/runtime_operations.go`, `internal/database/instance_settings.go`)

*State.* The single settings row; a slot for one pending update; the settings in
force; the runner. *Operations.* An administrator's change reads the row,
changes it and writes all columns; the change is put in the slot; a ticker reads
the row every two seconds; applying settings may stop and start the runner. *What
is hard.* Lost updates of the row, updates that overtake each other, a send that
blocks, and a wait for jobs in flight. *Correct when* the settings in force end
up being those of the row.

### Access control (`internal/access`)

*State.* Role bindings, roles, memberships and the resource hierarchy in the
database; in each process a cache of policies, principals and ancestries with a
lifetime of 15 minutes. *Operations.* Decide; load on a miss; change the policy
or a membership and invalidate. *What is hard.* A load that began before a change
stores its result after the invalidation; a load takes several statements; other
processes are not told. *Correct when* a right that was withdrawn stops being
granted.

### Workspace files (`internal/files`, `internal/filestore`)

*State.* Rows for files, contents and pending deletions; objects in a byte store;
a lock for each workspace in each process. *Operations.* Create, read, write
under a hash precondition, rename and move, duplicate, delete a tree, reap old
revisions. *What is hard.* Two stores without a common transaction, a failure
between any two of their updates, and two processes with a lock each. *Correct
when* every content a row points to has its bytes, an accepted write is the last
one, and what is deleted goes away.

### Schema snapshots and the schema cache (`internal/schema`)

*State.* Generations of a connection's metadata, of which one is active; cached
directories in the process. *Operations.* Begin, fill, publish or abort a
generation (as a background job); disable and purge; inspect with coalesced
callers. *What is hard.* Publications that race each other and a purge, a crash
in the middle, an inspection that outlives the reason it was made. *Correct
when* the active generation is complete, the newest, and allowed.

### Exports (`internal/exports`)

*State.* The stream or file an export writes. *Operations.* Stream everything a
query returns; as a job, write it to a workspace file. *What is hard.* Errors
after output has begun; retries. *Correct when* a reader can tell a complete
export from a broken one.

### Sign-in sessions (`internal/database/refresh_tokens.go`, `auth_sessions.go`, `internal/web/handlers_auth.go`)

*State.* Sign-in sessions, refresh tokens in families, organization access
sessions. *Operations.* Sign in, refresh, revoke, sign out. *What is hard.*
Refreshes at the same time, a refresh beside a revocation. *Correct when* a
family has one live token, and a revoked session gets no new one.

### Encryption keys (`internal/web/keyrotation.go`, `internal/encrypt`)

*State.* A keyring; values sealed under one of its keys: DSNs, file contents, the
mail password. *Operations.* Seal, open, and a pass that reseals everything under
the primary key. *What is hard.* The pass overwrites what it has read, beside
writers of the same values. *Correct when* rotation changes no value.

### Memberships, invitations, administrators (`internal/database`)

*State.* Organizations, members, teams, roles, invitations, administrators.
*Operations.* Invite, accept, add, remove, delete a team. *What is hard.* Rules
over several rows checked before a write; removal beside live sessions and cached
decisions. *Correct when* an invitation is used once, an administrator is left,
and a removed member has no access.

### The rest of the server

The bounded byte cache (`internal/cache`); query history and favorites;
workspaces, environments, connections and accounts as stored rows; SQL
classification, safety checks, completion, DDL and metadata for each dialect;
mail, passwords, validation, routing and logging; the job endpoints.
`PROJECT.json` says of each why it is not modelled, or which planned module it
belongs to.

### Query runs in the editor (`components/ide/useQueryExecution.ts`, `useRunAllStatements.ts`, `runStatementBatch.ts`, `useIdeStore.ts`)

*State.* In the store, for each tab, the last 50 runs with one result per
statement, the selected one, whether the tab is running, its abort controller
and its pending confirmation; in the toolbar two hooks that remember the run they
started last. *Operations.* Run a statement or all of them; answer; pause for
the confirmation of an unsafe statement and go on; cancel; select, close and evict
runs; close tabs. *What is hard.* A batch goes on after the user has moved to
another tab, started another run, closed the run or the tab; the dialog's answer
is given by a hook that has started other runs since. *Correct when* nothing is
sent that was not agreed to, statements run in order and once, and what is shown
as running is running.

### Editor panes and tabs (`ideLayout.ts`, `IdeTabBar.tsx`, `tabMenu.ts`, `EditorGroup.tsx`, `WorkspaceIde.tsx`)

*State.* A tree of splits whose leaves are groups of tabs, a focus, a drag, a
pending close. *Operations.* Open, also to the side; split; move and drag within and
between groups and to edges; close one, others, all; confirm. *What is hard.* A
tab may be in several groups; removing the last tab of a group rewrites the tree; a
close can come from another window during a drag or a dialog. *Correct when* the
tree is sound, open tabs are the ones shown, and nothing unsaved is closed without
asking.

### Editor documents, saves and windows (`useYDocRegistry.ts`, `fileHydration.ts`, `filePersistence.ts`, `useEditorDocumentLifecycle.ts`, `storeSync.ts`, `windowRole.ts`)

*State.* In each window a Y.js document per open file, the tab with its etag, dirty
mark and snapshot; two broadcast channels; the state the primary window stores; the
file on the server. *Operations.* Open, hydrate, edit, snapshot after 400 ms,
save under the etag, reload, take over the peers' edits and etags. *What is hard.*
Documents meet through full states and increments, and through copies of the same
text that came from the server; snapshot, etag and dirty mark are stored by
different updates. *Correct when* text is neither doubled nor lost, and an accepted
save replaces only what it knew.

### Console (`routes/`, `components/`, `lib/api/queries`, `lib/query-keys.ts`, `lib/query-cache.ts`, `lib/api/client.ts`)

*State.* A cache of queries by key, each with its staleness and its request; the
access token; the page, the effective permissions. *Operations.* Visit a page,
open a dialog, call the server, invalidate, fill or remove keys on success,
refetch, expire, sign out and in. *What is hard.* Many pairs of a query
and a call that changes what it lists, on pages that each decide by permissions of
their own what to ask and to offer; a change of the account with requests under
way. *Correct when* what is shown is what the server has once all is at rest, no
page asks for what it is refused, and no account sees another's data.

### Result pages (`internal/engine/cursor`, `internal/connection/query_cursors.go`, `components/ide/useResultCursorPaging.ts`, `cursorPaging.ts`, `resultRunHistory.ts`)

*State.* The server's cursor with its place in the rows; in the store the rows so
far, the cursor id, the marks "exhausted" and "fetching". *Operations.* Start,
fetch within a row and a byte limit, append, close with a run, expire. *What is
hard.* A page that does not arrive, a view that is unmounted while it waits, a
cursor closed on either side. *Correct when* the pages together are the result or
the user is told otherwise, and every cursor is closed in the end.

### The rest of the frontend

Which database session a connection of the editor uses and what happens when it
is dropped; the storage of panes, expansion and favorites across windows; the
schema diagram, CSV viewer, completion and formatting; appearance, controls and
generated routes.

### How the parts interact

- HTTP handlers call everything; each request is a goroutine.
- `Manager` calls a hook when a connection has lost its last session; the hook
  drops the connection's schema and completion caches. The schema service is
  called by handlers that hold a session.
- Membership and policy handlers change the database, drop sessions through
  `Manager` and invalidate the access cache. Connection updates drop sessions and
  cancel or enqueue schema syncs.
- The supervisor starts and stops the job runner. Job handlers run schema syncs,
  which publish snapshots, and exports, which write workspace files.
- Key rotation writes connections, files and settings.
- The editor starts runs through the query endpoints, which open a session and a
  cursor; the grid fetches its pages, and a run that leaves the history closes its
  cursors. The idle reapers close what the frontend forgets.
- The console's pages decide by the effective permissions the server reports, and
  the server's routes require theirs; the query cache is shared by all pages and
  the editor's panels.
- Windows of one browser share documents and tabs by two broadcast channels, and
  one of them stores the state all restore.

## 2. Plan

In order of what matters most. Built:

1. `Jobs` and `JobLifecycle`, with proofs of all safety properties and of the
   refinement.
2. `Sessions` with its proofs: manager, cursors, and the requests and reapers that
   compose them. Left: closing the managers at process exit.
3. `QueryRuns` with proofs of all its properties; `EditorDocs` with proofs of all
   its safety properties; `EditorLayout`, which implements `EditorPanes`, with
   proofs of all properties of both and of the refinement.
4. `ResultPaging`, which meets `Sessions` at the cursor and `QueryRuns` at the run,
   with proofs of all its invariants.
5. `ConsoleServer`, `ConsoleQueries`, the pages, and `Console`, which composes
   them, with proofs of all its invariants.

Left, in this order:

6. `AccessCache`: one organization, two processes, a load in its statements, an
   invalidation, the lifetime. Abstract specification `Access`: a decision is
   that of some database state since the request began. Expected to be
   implemented only up to the lifetime; composed with `Sessions`' removal for
   the rule that a removed member has no session.
7. `Files`: one file, two contents, versioned and not; the metadata and the
   byte store as two stores; write, reap, relocate and delete with a failure
   between any two steps. Abstract specification: a register with a conditional
   write. To prove: a row's bytes exist, for every number of files.
8. `SchemaSnapshots`: two syncs of one connection, a disable, a crash; the
   coalesced cache fill. To prove: one active generation, and it is complete.
9. `Exports`: what the reader of a stream or a file sees after a failure or a
   retry.
10. `RuntimeSettings`: the row, the slot, the ticker, two administrators; with
    `KeyRotation` as another writer of the row, of DSNs and of files.
11. `AuthSessions`: a family of tokens, two refreshes and a revocation.
12. `Membership`: the last administrator and the acceptance of invitations.
13. `MemCache` against a reference definition.

Each of 6 to 11 gets one passing run of two or three properties and an instance
like those below: one or two of each thing, two actors. Every safety property of a
passing run is proved, or stated of the abstract module that is proved; what the
provers cannot reach is listed at the end of section 11.

Smaller hazards, to be settled with those parts and left out of `PROJECT.json`,
which keeps the sharpest ones:

- `jobs/worker.go:98`: worker 0 recovers and prunes only when it has found nothing to
  claim.
- `connection/manager.go:112`: a cursor reads on a session's driver beside its
  queries, without the session's lock.
- `connection/manager.go:475`: `lastUsed` is set when a query starts, so that the
  session of a long query may be reaped as it ends.
- `connection/manager.go:232`: a driver is opened with the manager's lock held.
- `connection/manager.go:493`: the hook of a lost last session runs after the lock
  is released, when a new session may be there (`Sessions` has it: `Recheck`).
- `access/enforcer.go:249`: role permissions and bindings are read by two
  statements without a transaction, and the pair is cached.
- `web/handlers_orgs.go:325`: a connect authorized before a removal opens its
  session after the removal dropped the others.
- `web/handlers_teams.go:163`: deleting a team invalidates no principals.
- `web/handlers_teams.go:301`: sessions are dropped before the principals are
  invalidated, so a connect in between is judged by the old ones.
- `schema/snapshot_store.go:157, :165`: publications read the active generation
  and the setting before they write.
- `web/schema_snapshots.go:151`: a generation left building by a crash.
- `web/schema_snapshots.go:246`: a cancelled sync may still publish before its next
  heartbeat, while the purge runs.
- `schema/service.go:118`: a coalesced inspection runs with its first caller's
  context, and fails for all when that caller leaves.
- `files/service.go:579, :782, :1018`: metadata and bytes are written and deleted in
  turn, with compensation that may fail itself.
- `files/service.go:1006`: the rollback of a relocation uses the request's context,
  whose cancellation may be what failed.
- `web/handlers_instance.go:660`, `web/runtime_operations.go:103`: read, change and
  write of the settings row, and the hand-over of an update.
- `web/handlers_exports.go:150`: an error after the output has begun.
- `web/handlers_auth.go:220`: a refresh reads its sign-in session before it
  rotates; a revocation may come in between and leave a live token of a revoked
  session, which later refreshes still refuse. Two refreshes with one token both
  get a successor. Sign-out ignores database errors, a change of password revokes
  no session, and `RevokeOrgAccessSessionsForMember` has no caller.
- `database/instance_admins.go:65`: the last-administrator rule does not look at
  whom it removes.
- `engine/cursor/scan.go:171`: a page filled by the last row is not exhausted
  (`ResultPaging` has it).

## 3. Jobs

### State and actions

`row[j]` is a row of the `jobs` table. `run_at <= now` and `claimed_until < now`
become the booleans `due` and `expired`, which time (`BecomesDue`,
`LeaseExpires`) may set at any moment; `claimed_by` is the worker's index alone,
since the code names workers `api-<index>` in every process. `exec[p][s]` is
worker `s` of process `p`: its place in `workerLoop` and `execute`, and the copy
of the job it works from, of which only the attempt number matters. `mode[p]` is
the runner: starting (recovery before the workers), up, draining (the stop
channel is closed), cancelled (the context is), down. `stale[p]` are the rows a
recovery has selected and not yet updated, `cancelTx` the same for a user's
cancellation.

One step is one statement on the database, or one transaction when the database
excludes others during it. `Isolated` says which: with SQLite the pool has one
connection, so `ClaimDue` and `RequestCancelUserWorkspaceJob` are one step each
(`ClaimAtomic`, `CancelAtomic`); under PostgreSQL's READ COMMITTED they are two
(`ClaimSelect` and `ClaimTry`, `CancelSelect` and `CancelUpdate`). Recovery and
pruning are never in a transaction and always two.

| Code | Actions |
| --- | --- |
| `Store.ClaimDue`, `Runner.runOnce` | `ClaimAtomic`, `ClaimSelect`, `ClaimTry`, `ClaimNone`, `ClaimFails` |
| `Runner.workerLoop` | `Tick`, `WorkerStops`, `LoopTop` at the end of the others |
| `Runner.heartbeat` | `HeartbeatRenews`, `HeartbeatCancels` |
| `Runner.execute` | `HandlerReturns`, `CheckCancel`, `CheckFails`, `Settle`, `Retry`, `SettleFails` |
| `Store.RecoverExpiredRunning` | `RecoverTick` (or `StartRunner`), `RecoverRow`, `RecoverDone`, `RecoverFails` |
| `Store.PruneCompleted` | `PruneSelect`, `PruneDelete` |
| supervisor, `RunUntilStopped` | `StartRunner`, `Drain`, `ShutDown`, `RunnerExits`, `Crash` |
| callers | `Enqueue`, `CancelAtomic`, `CancelSelect`, `CancelUpdate`, `CancelSingleton` |

Definitions whose comment begins "As if" are not part of the specification: each
is an action or operator as a plausible mistake would have it, used to see that
a property would notice.

### Two settings

*Every deployment.* Several processes, `Isolated` and `Timely` false. Here the
framework does **not** keep executions apart: a stalled worker settles a job that
another one is running, and the recovery of one process takes a job that another
has just reclaimed. The documentation says otherwise; see section 10. What does
hold is stated by `ClaimInv`, `AttemptIsFence`, `AttemptsBounded` and
`SingletonExclusive`.

*One process.* `Isolated` and `Timely` true. `Timely` says that a live execution
renews or settles within its lease, so that `LeaseExpires` needs a dead one: the
heartbeat runs several times in a lease, and the assumption fails only when the
database stays unreachable or the process stands still for that long. Then
executions are exclusive, attempts are within the limit, an outcome is final,
and `Jobs` implements `JobLifecycle`, whose state is the status and attempts of
each job, who asked for its cancellation, and which jobs are being executed.

### Bounds

Job ids, processes and workers are sets. `CandidateLimit` is 1 or 2 (5 in the
code), with at most two jobs: the limit matters only when there are more due
jobs than it. `MaxFaults` bounds stops, crashes and failed calls together; after
that many the system goes on without more. Jobs are submitted once. Time has no
unit, so how long a lease or a backoff is makes no difference.

Two jobs are the fewest at which priority, the singleton index and a worker
that moves on to another job matter; two workers or two processes with one worker
each the fewest at which claims race; a job with one attempt beside one with two
has both outcomes of a failure, and two attempts with two processes suffice for a
late retry of an execution that was recovered, claimed again and settled.

### Fairness (`FairSpec`)

Workers (`WorkerStep`) and the runner (`RunnerStep`) run: goroutines of a live
process are scheduled, handlers return, a runner that is down is started again.
Heartbeats and faults get no fairness. `RecoverTick` gets strong fairness: it is
one ready case of a `select` beside the poll ticker, a worker leaves and enters
that `select` again and again, and Go picks among ready cases at random.
Backoffs and leases end (`BecomesDue`, `LeaseExpires`).

A limit: worker 0 looks at its recovery ticker only when it has found nothing to
claim. With a queue that never runs empty for worker 0 recovery never runs; the
models submit finitely many jobs and so do not show it.

## 4. Sessions

### State and actions

`mu` is who holds `Manager.mu` for writing; `byKey` and `byID` are the manager's
indexes; `sess[s]` a `Session`: its key, the version of the DSN it was opened
with, whether its driver is open, whether it counts as idle, who holds its lock,
its registered cursors; `cur[c]` a cursor's rows and handle lock; `rec[c]` its
`QueryCursorRecord`; `dsn[d]` the version of the DSN in the database; `cached`
the connections whose metadata is cached; `proc[p]` a goroutine and its local
variables.

A critical section in which nothing can block is one step. Those that block are
cut where they do: `Create` takes `Manager.mu` and `Opened` or `OpenFails` gives
it back, with the driver opened in between; `LockManager`, `PickSession`, `Drain`,
`CloseHandle`, `CloseSession` and `Unlock` are a removal, which keeps `mu` while
it waits for a session's query (`PickSession`) and for a cursor's fetch
(`CloseHandle`). Queries, fetches and inspections have a start and an end. A
closed driver neither ends nor waits for what has started on it, as with
`database/sql`.

| Code | Actions |
| --- | --- |
| `connectToDatabase`, `GetOrCreateWithMetadata` | `Connect`, `Create`, `Opened`, `OpenFails` |
| handlers that use a session | `GetSession`, `Query`, `QueryReturns`, `Inspect`, `InspectReturns` |
| `Remove`, `RemoveForConnection` and its family, `Manager.reap` | `LockManager`, `PickSession`, `Drain`, `CloseHandle`, `CloseSession`, `Unlock`; `ReapTick`; `Revoke` |
| `onConnectionEmpty` hook | `Notify`, `Hook`, `Recheck`, `Removed` |
| DSN update with `force` | `Rotate`, `Count`, removal, `Update` |
| `StartQueryCursor`, cursor handlers | `StartQuery`, `StartReturns`, `StartFails`, `Register`, `Record`, `Parent`, `Touch`, `Fetch`, `FetchReturns`, `FetchCursor`, `CloseQueryCursor` |
| `QueryCursorManager` | `ReapCursors`, `Take`, `Untrack`, `CloseOne`, `CursorsClosed` |

`Unhindered(p)` says of a goroutine that the lock it waits for, if any, is free:
`mu`, its session's, or a cursor handle's. `NoCircle`: when some goroutine is under
way, one of them is unhindered. `SomebodyMoves` adds that an unhindered goroutine
has a step, so that nobody waits for something `Unhindered` forgot to name.

`QueryCursorManager.mu` and the lock of a record guard only short sections and
are left out. Not modelled: closing both managers at process exit, and
synchronous exports, which use a session's driver without its lock.

### Bounds

Session and cursor ids are never reused, so their sets bound how many are made.
Two sessions and two requests are enough for a removal between two connects of one
account, for a revocation or the reaper beside either, and for a cursor that is
closed while it is being fetched. A second account would add only sessions that a
revocation leaves alone. `Kinds` selects the requests of a run: the one with two
requests at a time leaves out inspections and rotations, the one with a single
request has all of them beside the two reapers. `MaxDsn` bounds rotations; one is
enough, since a session is either on the current DSN or not.

### Fairness (`FairSpec`)

Each goroutine that is under way gets strong fairness: a goroutine waiting for a
Go mutex that others take and release is handed it after a millisecond (the
mutex's starvation mode), and the steps at the ends of database calls happen
because the target answers or the client leaves and the context is cancelled.
New requests need not come. The cursor reaper ticks (`ReapCursors`), and a record
whose session is gone gets older, since nothing touches it (`CursorIdles`).

## 5. Query runs

A run is named by its number and stands for its statements; a statement is an
index. `runs[t]` are the runs listed for a tab, `status[r][i]` the result of a
statement, `flight[r]` the batch that executes a run: its tab, the statement it
waits for, whether it was sent with `confirmUnsafe`. `ref[h]` is the run the two
hooks of the toolbar (`plain` for Run, `batch` for Run All) started last, in
whatever tab; `controller`, `running`, `pending`, `selected` are the maps of the
store. `executed` and `approved` are ghosts: what the server has executed and
what the user has agreed to.

| Code | Actions |
| --- | --- |
| `useQueryExecution`, `useRunAllStatements`, `useBeginRun` | `RunStatement`, `RunAll` |
| `runStatementBatch` | `Answer`: every outcome, and the next statement or the end |
| `UnsafeQueryDialog`, `runAnyway` | `RunAnyway`, `Abandon` |
| toolbar, `cancelQuery` | `Cancel` |
| `ResultsArea`, store | `SelectRun`, `CloseRun`, eviction as part of a start |
| store | `OpenTab`, `Activate`, `CloseTab` |

Left out: which text is run, and the record in the history panel. *Bounds.* Two
interchangeable tabs let a hook be used in one and answered for the other; three
runs with a history of two (50 in the code) have an eviction beside a batch in
flight and one to resume; two statements have one after the other and one to be
skipped.

*Beside the dialog.* `RunAnywayResubmits` is stated in `QueryRuns` and not checked
by a run, since it does not hold: when the hook has started another run since, its
own check (`useQueryExecution.ts:89`) drops the answer, and nothing is sent
although the dialog promises to resubmit (`UnsafeQueryDialog.tsx:20`). The check is
what makes `ForcedWasApproved` hold. An abandoned run of an executed and a paused
statement counts as ok afterwards.

## 6. Editor layout

`panes[g]` is what group `g` holds: its tabs in order, and the active one. The tree
of `ideLayout.ts` is kept as what it says of groups: `splits`, each with the
direction it runs in and the groups below it, and `order`, who is before whom.
`focus` is the focused group, `drag` the tab under the pointer, `asking` the close
dialog, `losable` the tabs whose content or running query would be lost. The
operations on groups (`AddTab`, `Drop`, `TakeOut`, `PutIn`, ...) and on the tree
(`Normalized`, `SplitGroup`, `PlaceTabAtEdge`) are operators named after the
functions. `Tidied` is the clean-up every removal ends with: empty groups leave
`panes`, `splits` and `order`, and a split whose groups are all in one of its parts
(`Forks`) goes. `UserStep` are the steps of this window's user, so that
`LossNeedsConsent` can tell them from what another window does.

`EditorTree` has the nodes of the source, a leaf or a split with its children in
order, and its functions as they are, recursive: `AllGroups`, `Normalize`,
`Transform` within `SplitInTree`, `PlaceAtEdge`. `Built` makes the nodes of the
splits and the order of a state. `TreeFollowsSource` says in every reachable state
that nodes and splits are one tree, and that each function of the source, applied
to the nodes with any of the groups empty, any group split to any side, or a group
put at either edge, gives what the operators of `EditorLayout` say. The run checks
it; so `EditorLayout` is free of recursion and can be proved about.

`EditorPanes` is what this promises without the tree: a pane shows a set of tabs,
one of them active; where panes lie, the order of tabs, and which neighbour takes
over from a closed one, are open. Its actions have the names of the operations,
and say what the panes are afterwards up to the order of tabs (`Alike`); a removal
is `Shrinks`: panes lose some tabs and nothing else, those left empty go, one stays
if it would be the last. Both modules extend `EditorTabs`, which has their common
variables and the two properties that are the same formula in both,
`OpenIffShown` and `ViewSurvivesClose`. `ImplementsPanes` is the refinement, under
the mapping that forgets the tree: after any sequence of operations the clean-up
has left the panes as the operation says, and no others touched. It is checked on
the small instance and proved for any number of tabs and panes (section 11).

| Code | Actions |
| --- | --- |
| `WorkspaceIde`, store | `OpenTab`, `OpenTabToSide`, `SetActiveTab`, `FocusGroup` |
| `tabMenu.ts`, `IdeTabBar` | `SplitActiveTab`, `RequestClose`, `CloseMany`, `ConfirmClose`, `DismissClose` |
| drag and drop in `IdeTabBar`, `EditorGroup` | `DragStart`, `DragOver` (which moves the tab), `DropAtEdge`, `DragEnd` |
| another window | `EnsureTab`, `CloseTab` |
| typing, saving, running | `Work` |

Left out: sizes of panes, ids of splits. *Bounds.* Two tabs in up to three panes:
splits nest, a pane disappears when its last tab leaves it, a tab is in several
panes. The tree itself is enumerated without a bound on its depth other than
that of the panes. `TreeFollowsSource` is evaluated where nothing is dragged, asked
about or losable, which is no matter to the tree.

## 7. Editor documents

A document is a set of insertions, some deleted. An insertion lies beside what its
author had, and waits (`pend`) where that is missing; this is what is used of
Y.js (`Integrate`, `Merge`, `Text`), and external. What an insertion lies beside
are all the insertions its author had, with what those lie beside among them, so
one look suffices: `Integrate` takes in everything whose neighbours are there or
come along. A hydration inserts a copy of what
the server has. `server` is the file and its version, which is the etag; for each
window `tab` is its etag, dirty mark and snapshot, `load` the answer of the
content query, `timer` a scheduled snapshot, `saving` the etag under way; `chan` and
`etags` are the two broadcast channels; `disk` is what the primary window stored.

| Code | Actions |
| --- | --- |
| `useYDocRegistry` | `Open`, `Close`, `Type`, `Clear`, `Deliver` |
| `useFileContent`, `hydrateFileTab` | `FetchAnswered`, and the end of every step (`Settle`) |
| `useEditorDocumentLifecycle` | `Snapshot`, `TabsChange`, `Reload` |
| `useSaveEditorTab`, `filePersistence` | `Save`, `Saved` |
| `storeSync`, `windowRole` | `Deliver`, `Persist` |
| another client | `SavedElsewhere` |

A behaviour starts with a file that has text, or with an empty one, as
`CreateItemDialog` creates them. Ctrl+S asks only for the etag, so `Save` does
not wait for the content: a restored tab can be saved while its content is being
loaded, or after that failed. A window has one save under way at a time.

*Bounds.* Two windows, two insertions, two versions, three openings or reloads:
two copies of a text, a copy and an edit, an old and a new answer. Three
openings of a file that is there, two of one that was just created, whose
creation counts as one. The run that shows the lost save needs only one window,
with five insertions and three versions.

*Where it does not hold*, and the properties say so:

- *A new file, doubled.* What is typed into an empty document lies beside nothing,
  so any document takes it in. Windows a and b open a new file; a has its answer,
  types and saves; then b gets its answer, which has the text already, and
  hydrates a copy of it; then a's edit arrives at b, which shows the text twice.
  Hence the condition of `NeverDoubled`, which speaks of a document all of whose
  insertions were made where something had come from the server before
  (`FromNothing` are the others). `CopiesStayApart` is without the condition, as
  the comment in `useYDocRegistry.ts:85` has it, and fails.
- An emptied document is filled again from the cached answer, in two windows
  twice, so `NeverDoubled` and `StayTogether` speak of behaviours in which nobody
  has emptied one.
- A save before the content is there sends what the document has, which may be
  nothing, and is accepted: `SavesBuildOnSaves` speaks only of documents whose
  content has been loaded, and fails even so.

Besides, `StayTogether`
compares what two windows will have once they have taken the updates under way to
them, and not the full states, which a document that shows something refuses; a file emptied
just after opening has its text back when the snapshot is taken. Two windows that
open a file at the same time have copies of their own, which are alike but not
the same document, and stay so until one edits: the other takes the edit in only
when it has what the edit lies beside. A window restored from an older snapshot
refuses the full state of its peer, as it shows text, and waits for what it lacks.
After a reload with an old etag an unchanged file may be refused (412), and the
etag of another window's save clears the dirty mark of this one's edits. Left out:
a file created by Save As, whose tab opens with its etag and text known
(`WorkspaceIde.tsx`); the tabs and sessions `storeSync` also carries, its assumption that the first
notification of the store is the hydration, the ids of scratch tabs, which two
windows may choose alike, and session messages that overtake each other.

## 8. Console

`ConsoleServer` has for each route what it requires, of the route (`routes.go`) and
of its handler, and the tables it writes, and the built-in roles with their
permissions. `ConsoleQueries` has for each cache key the tables whose rows it
lists. The tables are those of the database, so that two pages that show the same
rows share them: the role of a member of the organization is a row of the
`bindings` that its policies list. How many rows a table has is one more where an
answer counts them (`teamCount`, `environmentCount`, `connectionCount`), and the
server's copy of a schema, its live sessions and its jobs are tables too. `OrgPages`,
`WorkspacePages`, `AdminPages` and `IdePanels` have for each page what it reads and
offers under given permissions, where its links lead, and for each call which keys
its success invalidates, sets or removes. These are tables, finite and without
bounds: one organization, one workspace, one of each thing in them, and an account
for each kind of grant.

`Console` lets them meet. A behaviour follows one query and one call (`focus`),
chosen among all pairs that have to do with each other, or none: then it walks
through the pages. `have` is what is cached, whose it is and which calls it shows;
`invalid` and `old` its staleness; `fetch` the request under way; `mutation` the
call; `token` who is signed in; `loaded` which effective permissions are there.

| Code | Actions |
| --- | --- |
| router, pages, dialogs | `Visit`, `ToggleDialog`, `PermissionsArrive` |
| mutations and their `onSuccess` | `Submit`, `Commit`, `Refuse`, `Settle`, `LoseAnswer` |
| react-query (external) | `Serve`, `Receive`, `Fail`, `GrowOld`, `Collect` |
| `lib/auth`, `client.ts` | `Login`, `Logout`, `AuthInvalidated`, `AcceptInvitation` |

*Bounds.* One call and one change of the account (`MaxChanges`, `Switches`): a
second call finds the cache in no state the first does not, and a cache is older
than an account or is not. The run may stop: a page with nothing to do is at rest.

*Abstractions.* The grant of the account under test is fixed: a call may change
somebody's role, not what this account may do next. Names that an answer takes from
another table (the name of an environment in a list of connections) are not
followed. A deletion of an organization or a workspace writes only the thing
itself. What the server does on its own (it drops a copy of a schema, a session
expires, an export finishes) is not a change. The DSN is forgotten when the dialog
that shows it closes, and here it stays cached. `connectionDsn` is refused in an
organization that masks credentials; the dialog asks the organization first.

*Exceptions*, named in the module and excluded from the properties:

- `KnownStale`: calls whose success does not tell a key that lists what they
  change. The page shows the old rows while the answer counts as fresh. Every
  other call that `Changes` the rows of a key `Tells` the cache of it, which is what
  the proof of `ShownIsFresh` goes through table by table; and each of the
  exceptions is one, which `ExceptionsAreReal` proves. They are:
  - *Roles in the organization.* `updateMemberRole` deletes and inserts the
    member's bindings (`handlers_orgs.go:419`) and tells only the member's page:
    the list of members and the list of policies keep the old role. The other way
    round, `createPolicy` and `revokePolicy` tell only the policies, and the member
    list and the member's page keep the role they took from the same rows.
  - *What is gone.* The own page of a deleted role, of the workspace's or the
    organization's, and of a deleted workspace; the policies of the workspace that
    name a deleted environment or connection; its history and favorites.
  - *Teams.* The pages of a team and of a member tell only themselves: the teams of
    the workspace keep their counts, and its effective members the old ones, also
    after a team has been added to it or taken from it; a renamed team keeps its
    name among those of a member.
  - *Counts.* The workspaces' numbers of environments and connections, after
    either has been created or deleted; the organizations' number of teams.
  - *Lists across pages.* The accounts of the instance after `updateProfile`; its
    organizations after one has been deleted on its own page; the account's own
    organizations after an administrator has created one.
  - *Live sessions.* They are dropped when somebody leaves a team or the workspace,
    when a team comes to it or leaves it, and with a new DSN; the editor's list is
    not told.
  - *Schemas.* A new DSN drops the server's copy, and what the browser has of it
    stays: the directory, relationships, objects and, also after a refresh or an
    edit of the schema, generated statements.
  - *The editor's panels.* The search for private files after a change of the
    files; the history and the favorites after they have been cleared; the jobs
    after an export has been submitted.
- `ToldOtherVariant`: a cache entry is told under one spelling of its identifier
  and has another. `query-keys.ts:3-6` says that every variant is invalidated;
  `VariantsInvalidated` states it and does not hold: `EditConnectionDialog` gets
  `Number(workspaceId)` (`connections.tsx:254` of the workspace's routes) where
  the list's key has the text of the address, and likewise for a member's teams
  and for environments between their pages and the editor.
- `KnownRefusals`: requests the server refuses: the single policy, which has no
  route; private files for those who do not belong to the workspace and shared
  files for those without `wsfile:read`; the jobs and their cancelling, which the
  routes leave to any member of the organization and `ensureWorkspaceJobAccess`
  (`handlers_jobs.go:117`) to those of the workspace, so that an administrator of the
  organization who opens the exports panel of a workspace that is not theirs is
  refused; and the test of an edited connection, which needs `conn:create`
  where the dialog (`EditConnectionDialog`) is open to those who may only modify it.
- `lost`, `raced`: an answer that never came; and a first load under way, which
  an invalidation does not start again, so that it may deliver what was there
  before the call.
- An answer of `updateOrg` or `updateRuntime` that arrives after the account was
  changed fills the new account's cache, which the comment of `query-cache.ts`
  rules out. `OwnUnlessSet` says that these are the only ones.

Found beside the model: a 401 to a request of the account before clears the new
token (`client.ts:141`); the set-up page clears the token and not the cache; the
favorites and history panels count as stored on the server until the settings are
there; a settings form takes over a refetch in the background over unsaved
changes, and sends all its fields, so that the last writer wins. Not modelled:
two tabs of the browser with one token; forms, filters, tables and pagination.

## 9. Result pages

A result is named by its run and its index in it and has one cursor at most. Rows
are their numbers, a page a sequence of them. `cursor`, `table` and `pos` are the
server's: the cursor, what it reads and how far it has; `result[c]` is what the
store has; `statement`, `fetches`, `strays` and `closers` are requests under way,
given up, and for each run that went the cursors still to be closed; `fetchingRef`
what the mounted view waits for. `dropped`, `lost` and `forgotten` are ghosts: rows read
and not returned, rows in answers that were lost, cursors nobody remembers.

| Code | Actions |
| --- | --- |
| `runStatementBatch`, `handleQueryCursorStart` | `BeginRun`, `Execute`, `Refuse`, `StatementAnswered`, `StatementFailed`, `StatementLost`, `Cancel` |
| `useResultCursorPaging`, `cursorPaging` | `FetchNextPage`, `PageAnswered`, `PageLost` |
| `SQLRowsCursor.Fetch`, fetch handler | `ServeFetch`, `ServeStray` (`Fetch`, `Advance`) |
| `ResultsArea`, `resultRunHistory` | `Select`, `CloseRun`, `CloseTab`, `CloseCursors` |
| `QueryCursorManager`, `Manager` | `Expire` |

*Bounds.* Two runs, one of two statements, with a history of one: an eviction
closes two cursors. A table of one row, and one of four in which a page of two
rows (`PageSize`) ends within the table, at its end, and before a row that does
not fit (`MaxBytes`). One lost request or answer.

*What the properties leave open*, because the code does: when an answer to a fetch
is lost the user is told of an error, but the next scroll goes on after the lost
page, which stays missing (`lost` in `RowsAccounted`). Closing a tab closes no
cursors, and neither does an answer that arrives after its run was closed or
cancelled: they are in `forgotten` and stay open until the idle reaper (which
`Sessions` shows to close them). `truncated`, which the server reports with a cut
page, is not shown. Found beside the model: the preview of an object retries a
lost fetch by itself and so skips a page, never closes its cursors, and puts an
error of a fetch in the place of the rows. Exports stream without the byte limit
and lose nothing. Left out: `ScanRows`, the buffered scan of drivers without
cursors.

## 10. Runs

Times are for two TLC workers, in minutes.

| Run | Instance | Shows |
| --- | --- | --- |
| `jobs_two_pods` | 2 processes with a worker each, two jobs of one key, PostgreSQL, leases may expire under live handlers, 1 fault, pruning; 2,830,000 states, 3:00 | `ClaimInv`: rows and claimants agree; `AttemptIsFence`: executions of a job never share an attempt number; `AttemptsBounded`: late retries and recoveries requeue a job boundedly often; `SingletonExclusive`: a late retry never makes a second job of the key active |
| `jobs_one_pod` | 1 process with 2 workers, SQLite, 3 faults, pruning, fair | `ExclusiveExecution`, `AttemptsWithinLimit`, `TerminalIsFinal`; `LifecycleSpec`: the refinement of `JobLifecycle`; `EveryJobSettles`, `StoppingEnds` |
| `jobs_unfenced_settle` | 2 processes, leases may expire | `OnlyTheClaimantSettles` fails |
| `sessions` | 1 account, 2 sessions, 1 cursor, 2 requests at a time, both reapers; symmetric; 805,000 states | `TypeOK`; `RegistryCoherent`: indexes and open drivers agree; `CursorsAccounted`: no open cursor is forgotten; `SomebodyMoves`: no deadlock at the three levels of locks |
| `sessions_live` | requests of all kinds with a rotation, one at a time, both reapers, fair | `RequestsFinish`, `RemovedCursorsClose` |
| `query_runs` | 2 tabs, 3 runs of up to 2 statements, history of 2; symmetric; 2,150,000 states, 2:30 | `ForcedWasApproved`: nothing unsafe is sent that was not agreed to; `ExecutedInOrder`, `NothingAfterFailure`, `SpinnerHasFlight`, `RunningMeansInFlight`, `SelectedIsShown`, `ResultsAreFinal` |
| `editor_layout` | 2 tabs, 3 panes; symmetric; 153,000 states, 2:45 | `TreeIsSound`, `OpenIffShown`; `TreeFollowsSource`: the recursive functions of the source do what the model says of splits and order; `LossNeedsConsent`: what would be lost is asked about; `ViewSurvivesClose`: a close elsewhere does not move what the user looks at; `ImplementsPanes`: the refinement of `EditorPanes` |
| `editor_docs` | 2 windows, 2 insertions, 2 versions, a file with text or a new one; symmetric; 699,000 states, 2:50 | `NeverDoubled`: full states, hydrations and updates in any order add no text to a copy of itself; `StayTogether`: windows with the same document keep it the same |
| `editor_docs_lost_save` | 1 window, 5 insertions, 3 versions | `SavesBuildOnSaves` fails |
| `console` | all grants, pages, queries and calls; one call, one switch; 1,413,000 states, 3:15 | `ShownIsFresh`, `OfferedIsAllowed`, `LinksLead`, `OwnUnlessSet` |
| `result_paging` | 2 runs, history of 1, 2 tables, 1 loss | `TypeOK`; `FetchingHasFlight`; `RowsAccounted`: no page overwrites or repeats another; `CompleteUnlessTold`: no part of a result passes for all of it; `CursorsHeld` |
| `result_paging_bytes` | the same without losses | `PagesAreContiguous` fails |

Symmetry is used only with invariants and properties of single steps, which do
not tell the permuted values apart. Deadlock is checked except in the editor's
documents, the console and the result pages, which come to rest: every bound is
used up, or a page has nothing left to do. Fairness is assumed only in `Jobs` and
`Sessions`: what the user does is never due, and the frontend's properties are of
safety.

The three that fail are disagreements between the code and what its documentation
or comments say:

- **A stale worker settles another worker's job.** `Complete`, `FailOrRetry` and
  `MarkCancelled` (`internal/jobs/store.go:413-470`) update by id. A worker whose
  lease ran out overwrites the row a worker of another process is running.
  `docs/configuration.md:204` says leases make a shared job table safe.
  `AttemptIsFence` says what would make it so: the attempt number, in the `WHERE`.
- **A reload takes an old text with a new etag.** The answer to a save changes the
  list of tabs, which drops the scheduled snapshot
  (`useEditorDocumentLifecycle.ts:75`); what is stored has the etag of the save
  and the text of the snapshot before it. After a reload the next save replaces
  what was saved and is accepted, although `useFileContent.ts:26` says the etag
  gates conflicts.
- **A row too large for its page is lost.** `SQLRowsCursor.Fetch`
  (`internal/engine/cursor/scan.go:161`) has read the row it does not return, and
  the next page starts after it. `docs/configuration.md:183` says clients can go
  on fetching.

Further disagreements are stated in the modules and checked by no run; to see one,
add the property to the run's configuration:

- `Jobs.HealthyWorkerKeepsClaim`: `RecoverExpiredRunning` (`store.go:524`) repeats
  only `status = 'running'` in its update, not the lease it selected by;
  `docs/configuration.md:210` says a healthy worker's heartbeat keeps its job.
- `Sessions.CursorsBeforeDriver`: `StartQueryCursor` (`connection/manager.go:119`)
  registers a cursor after its query has started, whether or not the session was
  closed meanwhile; `TestRemoveClosesActiveCursorsBeforeDriver` covers only
  cursors registered before. `RemovedCursorsClose` shows that the idle timeout
  closes it.
- `Sessions.SessionsUseCurrentDsn`: the update of a DSN counts sessions, drops
  them and then writes (`web/handlers_connections.go:479`); a connect that read the
  row before opens its session in between. The message at line 450 promises that
  they are dropped.
- `Sessions.MetadataNeedsSession`: an inspection that outlives its session fills
  the cache after the hook has emptied it (`schema/service.go:137`);
  `docs/sqlwarden-architecture.md:736` says metadata is kept only while a live
  session exists.
- `EditorDocs.CopiesStayApart`: a full state is taken only by a document that shows
  nothing, which "prevents merging two independently-initialised docs with the
  same text" (`useYDocRegistry.ts:85`); an update merges what was typed into a new,
  empty file into a copy that has it from the server (section 7).
- `QueryRuns.RunAnywayResubmits` (section 5) and `Console.VariantsInvalidated`
  (section 8).

## 11. Proofs

All theorems are of `Spec`, for every value of the constants that satisfies the
module's named assumption: any number of jobs, processes, workers, faults, keys,
sessions, cursors, requests, tabs, runs, statements, pages of results, windows,
edits and panes. Three theorems of the console need no behaviour: two are of
any account, one of the tables alone (below).

### Jobs

`JobsProofs` has three parts. The first assumes nothing about the deployment.

- `TypeCorrect`: `TypeOK`, by `TypeInv`, which adds that an execution has a job.
- `FenceSafe`: `AttemptIsFence`. Inductive with `TypeInv` and the fact that a job
  never submitted has no execution (`FenceInv`). The lemmas `RowSteps` and
  `ExecSteps` say once what a step may do to one row and one worker;
  `AttemptsFrame` that attempts never decrease while a row exists, and grow only
  by a claim, which gives the new number to the one worker that claimed.
- `SingletonSafe`: `SingletonExclusive`. `ActiveFrame`: the only steps that make a
  job active are `Enqueue` and `Retry`, and both look at the index.
- `ClaimSafe`: `ClaimInv`. Not inductive: that a cancelled row was asked to be
  needs to be known of a worker that has read the request and not yet marked
  the row (`MarkedWasAsked`).

The last part assumes that there are finitely many processes.

- `AttemptsBoundedSafe`: `AttemptsBounded`, that a job is claimed at most
  `2 * max_attempts - 1 + |Pod|` times. An attempt beyond the limit has to be paid
  for by somebody who acts on an old copy: a worker whose attempt number was below
  the limit (`LowTries`), or a recovery that listed the job when its attempts
  were (`LowLists`). Once attempts have reached the limit, the attempts, one if the
  job waits to be claimed, and the sizes of these two sets stay within the bound
  together (`PaidFor`). That `LowTries` has fewer than `max_attempts` members
  follows from its numbers; that a late retry takes one of them away follows from
  the fence, since no two executions share a number.

The part between them assumes `OneTimelyProcess`, that is `Isolated`, `Timely` and at
most one process, as a hypothesis of each theorem.

- `ExclusiveSafe`, `AttemptsSafe`, `TerminalSafe`: `ExclusiveExecution`,
  `AttemptsWithinLimit`, `TerminalIsFinal`. None of the three follows from itself.
  `OnePodInv` adds what makes a write by id harmless: the rows in a recovery list
  are still running, expired, and count the attempts that were read
  (`StaleIsDead`), hence nobody executes them; a queued job has attempts left
  (`AttemptsLeft`); a prune list names settled rows (`PruneIsOver`); no
  cancellation is between its two statements. `TerminalSafe` follows from the
  invariant in one step.
- `LifecycleImplemented`: `LifecycleSpec`. `LifecycleInv` adds to `OnePodInv` what
  the mapped state needs, in particular that a pruned row is blank. One lemma for
  each action of `JobLifecycle` (`Submit`, `Begin`, `End`, `Die`, `Reclaim`,
  `Cancel`, `Prune`) says which steps of `Jobs` are that action; all others
  leave the mapped state alone.

### Sessions

`SessionsProofs`:

- `TypeCorrect`: `TypeOK`, in which `Manager.mu` is held by exactly the goroutine
  between `Lock` and `Unlock`.
- `RegistrySafe`: `RegistryCoherent`. `RegistryInv` adds for each goroutine what
  it knows from having looked (`Known`): one that opens a driver found its key
  free and holds `mu`, so it still is; one that removes holds only registered
  sessions.
- `CursorsSafe`: `CursorsAccounted`, which is not inductive: when a cursor's
  record is gone, that its session will close it has to be known of the session's
  map. `CursorInv` says of every open cursor who tends it (`Tended`): a goroutine
  that has yet to register or record it, a listed record, or a closer that holds
  it. Steps that leave cursors alone are one lemma (`SteadyStep`); a step that
  takes a cursor from one keeper gives it to another (`HandingOn`).

- `NobodyDeadlocks`: `NoCircle`. `LockInv` adds to `RegistryInv` what a lock says of
  its holder: who holds a session's lock is querying that session, who holds a
  cursor's is fetching from it, a recorded cursor has a session. A query and a
  fetch wait for the target only, so the argument goes down the levels: if
  `Manager.mu` is held, its holder moves or waits for the lock of a session or of a
  cursor, whose holder moves; if it is free, whoever waits does so for one of
  the other two. `SomebodyMoves` is `NoCircle` with the part about `ENABLED`, which
  stays with TLC.

### Result pages

`ResultPagingProofs` proves the five invariants of the run, for any tables, batches,
page sizes, history and number of lost requests: `TypeCorrect`,
`OnePageOnItsWay` (`FetchingHasFlight`), `EveryRowAccounted` (`RowsAccounted`),
`CompleteResults` (`CompleteUnlessTold`) and `CursorsHaveOwners` (`CursorsHeld`), all
from `PagingInv`. None of the middle three follows from itself. What is added:

- `Lists`, `Views`: the history is in the order of the runs, and a mounted view
  waits for pages of its run only;
- `Batch`: at most one statement of the newest run is under way, nothing has been
  read for those ahead of it, and their results are pending;
- `Requests`, `FirstPages`: a page request knows the rows its result has, and an
  answer that says exhausted or gone is still true when it arrives, whatever
  closed the cursor meanwhile;
- `ReadToTheEnd`: a result that has no cursor and no message was read to the end,
  which is what `CompleteUnlessTold` needs beside the accounting of rows.

How many bytes a page has is the difference of two sums a table holds
(`BytesUpTo`), so that no fold stands in the way of the provers; the lemmas on rows
(`Increasing`, `Account`) say what appending a page to what is shown does.

### Query runs

`QueryRunsProofs` proves every property of the run.

- `TypeCorrect`: `TypeOK`, by `TypeInv`, which adds what is known of what is in
  flight, pending and controlled (`FlightKnown`, `PendingKnown`,
  `ControllerKnown`).
- `RunningSafe`: `RunningMeansInFlight`, from the part of `TypeInv` about
  controllers (`ControllerKnown`).
- `ForcedSafe`: `ForcedWasApproved`, by `ForcedInv`.
- `OrderSafe`: `ExecutedInOrder`, by `OrderInv`: what has been executed of a run
  ends where its flight, or the confirmation somebody may still answer, goes on
  (`ExecutedUpTo`). An answer for a run that was abandoned or resumed would send a
  statement a second time.
- `SpinnerSafe`, `NothingAfterSafe`, `SelectedSafe`, `ResultsFinal`: from
  `StatusInv`, which has one part for the lists (`ListInv`: no run is listed twice
  or for two tabs) and one for a listed run (`RunOk`: ok up to where it is, and
  what is there).

### Editor panes

`EditorPanesProofs` is about `EditorPanes`.

- `PanesStaySound`, `EveryTabIsShown`: `TypeOK /\ PanesSound` and `OpenIffShown`,
  proved together (`TypeInv`). `PanesSound` is not inductive by itself: that a new
  pane leaves no empty one beside it is known because a tab that is open is shown
  somewhere (`NoneEmpty`). `Adding` says what a tab more does to the panes,
  `Shrinking` what losing some does, each for all operations that do it;
  `Reordering`, that the order of tabs does not matter to any of it.
- `LossIsAgreed`: the `LossNeedsConsent` of `EditorPanes`, in one step from `TypeInv`:
  a tab several panes show outlives a close in one of them (`ShownElsewhere`), so
  what a close of the user's loses is what `Close` spares or the dialog has
  asked about (`UserAgrees`).
- `ViewIsKept`: `ViewSurvivesClose`; a pane that loses other tabs keeps its active
  one, and the focus leaves a pane only with it (`ViewStays`).

### Editor layout

`EditorLayoutProofs` is about the tree, for any tabs and any bound on panes. The
invariant `Inv` is that of `EditorPanes` (`TypeInv`), which the theorems of
`EditorPanesProofs` keep, with what the tree adds (`TreeInv`): its splits nest
(`Nested`), its groups have a total order in which the groups of a split lie
together (`Ordered`), no tab is twice in a pane, and without panes nothing is
dragged or asked about.

- *Rows of tabs.* What taking one out and putting one in at an index does
  (`RemovedAt`, `InsertedAt`), and from it what each operation on a group does
  (`DropLoses`, `TakeOutLoses`, `PutInHolds`, `ClosedLoses`): a group that loses
  tabs keeps its active one unless that is among them (`Loses`).
- *The tree.* `NormalizedNested` and `NormalizedOrdered`: what is left of a tree
  after the clean-up is a tree, whichever groups go. The argument is that a split that
  stays forks, so that two groups of it remain (`ForkTwo`) and a split below it has
  not all of them; and if two groups remain at all, the least split over all that
  remain forks (`Lowest`). `SplitNested`,
  `SplitOrdered`, `EdgeNested`, `EdgeOrdered`: so is what `SplitGroup` and
  `PlaceTabAtEdge` make.
- *The steps.* `TidiedIs`: a clean-up after groups have lost tabs is a `Shrinks` of
  `EditorPanes` and keeps the tree; one lemma for each action (`OpenTabStep`,
  `DragOverStep`, `CloseManyStep`, ...) says which action of `EditorPanes` it is.
- `LayoutImplementsPanes`: `ImplementsPanes`, from these lemmas.
- `TreeStaysSound`: `TreeIsSound`, which is a part of `Inv`. It is not inductive by
  itself: that a new pane leaves no empty one beside it needs `OpenIffShown`.
- `TypeCorrect`, `TabsStayShown`: `TypeOK` and `OpenIffShown`, from `Inv`.
- `LossIsAgreed`: `LossNeedsConsent`. A step of the user's is one of the user's in
  `EditorPanes` (`UserStepIs`), of which the same is proved; that the dialogs and
  the question whether to ask are the same in both is `DialogIs` and
  `NeedsConfirmationIs` (one pane at most, counted here, named there).
- `ViewIsKept`: `ViewSurvivesClose`, carried over from `EditorPanes` by the
  refinement.

Induction over numbers is not available as a theorem of the library here; where
it is needed (`FirstExists`, `Lowest`, `ClosedLoses`) the argument takes the least
number of a set (`Least`, `SetInduction`), which well-foundedness gives.

### Editor documents

`EditorDocsProofs`, for any number of windows, edits, reloads and versions:

- `TypeCorrect`: `TypeOK`, by `TypeInv`: no tab, answer or save is ahead of the server,
  documents hold what was made, and nothing is left of a closed tab.
- `NothingDoubled`: `NeverDoubled`, of files with text and of new ones, by `Contents`,
  which holds as long as nobody has emptied a document: what a document shows has
  all that its members lie beside, and at most one hydration among its members
  (`Sound`, `Hydrated`); every other insertion is an edit, with a text of its own.
  A copy is hydrated only into a document that shows nothing, a snapshot is never
  ahead of its document (`Kept`), and what comes from another window without a copy
  this one has waits. That a document with a hydration and with edits beside
  nothing may show a text twice is what the condition on `FromNothing` leaves out.
- `NeverParted`: `StayTogether`, a property of steps. What a document becomes depends
  on nothing but what it has, waits for and is about to get (`Carries`, and
  `DrainsToCarried`): every step adds the same to what each of two windows
  carries, or nothing to either.

### Console

`ConsoleProofs` has two kinds of theorems: of `Spec`, for any number of calls and
changes of the account, and of the tables.

- `OwnSafe`: `OwnUnlessSet`. With the types of five variables it is inductive
  (`OwnInv`): a request carries the account it was made for from the start, and no
  change of the token leaves one under way. The proof does not look into the tables.
- `TypeCorrect`: `TypeOK`, by `TypeInv`, and `SignedOutIsQuiet`: `SignedOut`, that a tab
  without a token is on the login page and asks for nothing. A success that comes
  after the sign-out may still write into the cache (`OwnUnlessSet` says where), but
  it starts no request, because no page of the tables is the login page
  (`LoginUsesNothing`); that it leads to a page of the console is read off the
  tables (`CallsLand`). `TypeInv` adds that a call that was sent has a change left.
- `RestIsFresh`: `ShownIsFresh`. `FreshInv` adds that what is neither marked nor old
  shows all changes, and so does the answer under way, if the call tells the
  cache of the key (`Freshness`). That the calls do is read off the tables: every
  key a call `Changes` it also `Tells`, but for the exceptions of section 8.
- `ExceptionsAreReal`: none of the exceptions is there for nothing. Each pair of a key
  and a call in `KnownStale` is one where the call changes rows the key lists and its
  success does not tell the cache.
- `NothingRefused`: for any account that is `Coherent`, whatever its roles, no page it
  can get to asks for or offers what a route or its handler refuses, but for
  `KnownRefusals`; what is left to members of the workspace is among these for
  everybody else (`MembersOnly`). `Coherent` is what the pages
  count on: a member has Baseline Access, a workspace grants what applies to one and
  only to members, who may change policies may read them, ownership is handed over
  by its owner, and who may do anything on a connection may query it. The built-in
  roles are so (`BuiltInRoles`). Custom roles need not be: `createRole`
  (`internal/web/handlers_policy.go:83`) takes any set of permissions, and with
  `policy:modify` or `conn:ddl` alone a page offers what is then refused.
- `OfferedAllowed`: `OfferedIsAllowed`, from the two before.
- `NoLinkLeadsNowhere`: for any `Coherent` account, every menu entry, card and row
  leads to a page that it can get to, is let stay on, and that has something to
  show. `LinksAllLead`: `LinksLead`.

### Only model-checked

- Liveness: `EveryJobSettles`, `StoppingEnds`, `RequestsFinish`,
  `RemovedCursorsClose`. The prover has no rules for fairness here.
- The part of `SomebodyMoves` with `ENABLED`.
- `TreeFollowsSource`: what the recursive functions of `EditorTree` do to nodes.
  Induction over trees is out of the provers' reach; the theorems are about the
  splits and the order that the nodes stand for.

The `TypeOK` of `Jobs`, `QueryRuns`, `EditorDocs`, `EditorLayout`, `EditorPanes` and
`Console` are in no run because they are proved: add them to a configuration to
check them.

## 12. What is not modelled

The components the plan leaves for later (section 2). Besides: the contents of
messages, SQL, files and results; job events; which of several due jobs of one
priority is claimed first; clock differences between processes; how long
anything takes; transactions that fail for serialization (neither database is
used at a level where they do).

Of the frontend, drawing, parsing and text: the schema diagram, the CSV viewer,
completion and formatting are functions of data that is there. Of the
bookkeeping of database sessions two things were seen and not modelled: a
callback with an old session may clear a newer one, and a poll that was under way
may put an old one in the place of the one just set. Storage across windows keeps
panes, expansion and favorites as they are serialized; only the primary window
stores.
