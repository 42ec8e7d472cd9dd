------------------------------ MODULE Sessions ------------------------------
(***************************************************************************)
(* Live sessions on target databases: the session manager                  *)
(* (internal/connection/manager.go), the query cursors on its sessions     *)
(* (cursor_manager.go), and the HTTP handlers and reapers that use both at *)
(* once.                                                                   *)
(*                                                                         *)
(* Three locks matter, in this order: Manager.mu (mu), a session's mu      *)
(* (sess[s].lock), a cursor handle's mu (cur[c].lock).  A step between two *)
(* of them is atomic, and so is a critical section in which nothing can    *)
(* block.  The work on a target database (opening a driver, a query, the   *)
(* fetch of a page) is a start and an end, with everybody else in between. *)
(* QueryCursorManager.mu and the mu of a cursor record only guard such     *)
(* short sections and are left out.                                        *)
(*                                                                         *)
(* Closing a database/sql pool fails later calls, but neither waits for    *)
(* nor ends the queries that have already started on it.                   *)
(***************************************************************************)
EXTENDS Integers, FiniteSets

CONSTANTS
  Key,              \* "<account>:<connection>": at most one session each
  Conn, ConnOf,     \* connections of a workspace; ConnOf[k] is that of k
  Scope,            \* sets of keys a membership change revokes at once
  Session, Cursor,  \* ids (ULIDs, never reused); a bound on both
  Request,          \* concurrent HTTP requests
  Reaper,           \* the goroutine of Manager.reap
  CursorReaper,     \* the goroutine of QueryCursorManager.reap
  Kinds,            \* the requests made, a subset of AllKinds
  MaxDsn,           \* bound on DSN rotations of a connection
  NoKey, NoConn, NoSession, NoCursor, NoProc

AllKinds == {"connect", "query", "cursor", "fetch", "close", "disconnect",
             "revoke", "inspect", "rotate"}

ASSUME SessionsAssumption ==
  /\ ConnOf \in [Key -> Conn]
  /\ Scope \subseteq SUBSET Key
  /\ Kinds \subseteq AllKinds
  /\ MaxDsn \in Nat
  /\ NoKey \notin Key /\ NoConn \notin Conn /\ NoSession \notin Session
  /\ NoCursor \notin Cursor /\ Reaper # CursorReaper
  /\ {Reaper, CursorReaper} \cap Request = {}
  /\ NoProc \notin Request \cup {Reaper, CursorReaper}

VARIABLES
  mu,      \* who holds Manager.mu for writing
  byKey,   \* Manager.byKey
  byID,    \* the keys of Manager.byID
  sess,    \* the Session values and their drivers
  cur,     \* the QueryCursorHandle values and their rows
  rec,     \* rec[c]: the QueryCursorRecord of cursor c
  dsn,     \* dsn[d]: the version of connection d's DSN in the database
  cached,  \* connections whose schema metadata is in the process's cache
  proc     \* proc[p]: what goroutine p is doing

vars == <<mu, byKey, byID, sess, cur, rec, dsn, cached, proc>>

Proc == Request \cup {Reaper, CursorReaper}

\* What a goroutine is about to do: first those of the requests, then those
\* of removing sessions, then those of closing cursors.
PC == {"idle", "create", "opening", "query", "querying", "inspect",
       "inspecting", "start", "starting", "register", "record", "parent",
       "touch", "fetch", "fetching", "count", "update",
       "lock", "pick", "drain", "closing", "notify", "hook", "recheck",
       "take", "untrack", "closeone"}
HoldsManager == {"opening", "pick", "drain", "closing"}

SessRow == [key: Key \cup {NoKey}, dsn: Nat, open: BOOLEAN, idle: BOOLEAN,
            lock: Proc \cup {NoProc}, cursors: SUBSET Cursor]
CurRow == [sess: Session \cup {NoSession}, open: BOOLEAN,
           lock: Proc \cup {NoProc}]
ProcRow == [pc: PC, kind: AllKinds \cup {"none", "reap", "remove"},
            key: Key \cup {NoKey}, conn: Conn \cup {NoConn}, dsn: Nat,
            gone: BOOLEAN, sess: Session \cup {NoSession},
            keys: SUBSET Key, cur: Cursor \cup {NoCursor},
            todo: SUBSET Session, handles: SUBSET Cursor, conns: SUBSET Conn]

Rest == [pc |-> "idle", kind |-> "none", key |-> NoKey, conn |-> NoConn,
         dsn |-> 0, gone |-> FALSE, sess |-> NoSession, keys |-> {},
         cur |-> NoCursor, todo |-> {}, handles |-> {}, conns |-> {}]

Init ==
  /\ mu = NoProc
  /\ byKey = [k \in Key |-> NoSession]
  /\ byID = {}
  /\ sess = [s \in Session |->
               [key |-> NoKey, dsn |-> 0, open |-> FALSE, idle |-> FALSE,
                lock |-> NoProc, cursors |-> {}]]
  /\ cur = [c \in Cursor |->
              [sess |-> NoSession, open |-> FALSE, lock |-> NoProc]]
  /\ rec = [c \in Cursor |-> "none"]
  /\ dsn = [d \in Conn |-> 0]
  /\ cached = {}
  /\ proc = [p \in Proc |-> Rest]

-----------------------------------------------------------------------------

At(p, pc) == proc[p].pc = pc
Become(p, r) == proc' = [proc EXCEPT ![p] = r]
Goto(p, pc) == Become(p, [proc[p] EXCEPT !.pc = pc])

\* Manager.Remove(s) and the RemoveFor... family, which select by account,
\* workspace or connection.
RemoveSession(s) ==
  [Rest EXCEPT !.pc = "lock", !.kind = "remove", !.sess = s, !.keys = Key]
RemoveKeys(K) == [Rest EXCEPT !.pc = "lock", !.kind = "remove", !.keys = K]

KeysOf(d) == {k \in Key : ConnOf[k] = d}
ConnOfSession(s) == ConnOf[sess[s].key]
LiveOn(d) == \E s \in byID : ConnOfSession(s) = d

\* lastUsed = time.Now()
Used(s) == [sess EXCEPT ![s].idle = FALSE]
Free(s) == sess[s].lock = NoProc

-----------------------------------------------------------------------------
(* Requests on sessions.                                                   *)

\* connectToDatabase has loaded the connection's row.
Connect(p, k) ==
  /\ At(p, "idle") /\ "connect" \in Kinds
  /\ Become(p, [Rest EXCEPT !.pc = "create", !.kind = "connect", !.key = k,
                            !.dsn = dsn[ConnOf[k]]])
  /\ UNCHANGED <<mu, byKey, byID, sess, cur, rec, dsn, cached>>

\* As if the driver were opened without the manager's lock.
CreateUnlocked(p) ==
  /\ At(p, "create") /\ mu = NoProc
  /\ \/ /\ byKey[proc[p].key] # NoSession
        /\ sess' = Used(byKey[proc[p].key])
        /\ Become(p, Rest)
     \/ /\ byKey[proc[p].key] = NoSession
        /\ Goto(p, "opening")
        /\ sess' = sess
  /\ UNCHANGED <<mu, byKey, byID, cur, rec, dsn, cached>>

\* GetOrCreate: reuse the session of the key, or open a driver with m.mu held.
Create(p) ==
  /\ At(p, "create") /\ mu = NoProc
  /\ \/ /\ byKey[proc[p].key] # NoSession
        /\ sess' = Used(byKey[proc[p].key])
        /\ Become(p, Rest) /\ mu' = mu
     \/ /\ byKey[proc[p].key] = NoSession
        /\ Goto(p, "opening") /\ mu' = p
        /\ sess' = sess
  /\ UNCHANGED <<byKey, byID, cur, rec, dsn, cached>>

Opened(p, s) ==
  /\ At(p, "opening") /\ sess[s].key = NoKey
  /\ sess' = [sess EXCEPT ![s].key = proc[p].key, ![s].dsn = proc[p].dsn,
                          ![s].open = TRUE]
  /\ byKey' = [byKey EXCEPT ![proc[p].key] = s]
  /\ byID' = byID \cup {s}
  /\ mu' = NoProc
  /\ Become(p, Rest)
  /\ UNCHANGED <<cur, rec, dsn, cached>>

\* As if the error of open() were returned without unlocking.
OpenFailsLocked(p) ==
  /\ At(p, "opening")
  /\ Become(p, Rest)
  /\ UNCHANGED <<mu, byKey, byID, sess, cur, rec, dsn, cached>>

OpenFails(p) ==
  /\ At(p, "opening")
  /\ mu' = NoProc
  /\ Become(p, Rest)
  /\ UNCHANGED <<byKey, byID, sess, cur, rec, dsn, cached>>

\* Manager.Get of the session a request names (X-Warden-Session). A session
\* that is gone is answered 410, or 204 for a disconnect: no step.
GetSession(p, s, kind) ==
  /\ At(p, "idle") /\ kind \in Kinds /\ mu = NoProc /\ s \in byID
  /\ sess' = Used(s)
  /\ Become(p, CASE kind = "query" -> [Rest EXCEPT !.pc = "query", !.sess = s]
                 [] kind = "cursor" -> [Rest EXCEPT !.pc = "start", !.sess = s,
                                                    !.kind = "cursor"]
                 [] kind = "inspect" -> [Rest EXCEPT !.pc = "inspect",
                                                     !.sess = s]
                 [] kind = "disconnect" -> [RemoveSession(s) EXCEPT
                       !.kind = "disconnect", !.conn = ConnOfSession(s)])
  /\ UNCHANGED <<mu, byKey, byID, cur, rec, dsn, cached>>

\* Session.Query, Execute and ApplyDDL hold the session's mu throughout.
Query(p) ==
  LET s == proc[p].sess IN
  /\ At(p, "query") /\ Free(s)
  /\ sess' = [Used(s) EXCEPT ![s].lock = p]
  /\ Goto(p, "querying")
  /\ UNCHANGED <<mu, byKey, byID, cur, rec, dsn, cached>>

\* A cancelled query takes its session with it.
QueryReturns(p) ==
  LET s == proc[p].sess IN
  /\ At(p, "querying")
  /\ sess' = [sess EXCEPT ![s].lock = NoProc]
  /\ \E r \in {Rest, RemoveSession(s)} : Become(p, r)
  /\ UNCHANGED <<mu, byKey, byID, cur, rec, dsn, cached>>

\* schema.Service.Directory, Objects and Relationships: a cache hit, or an
\* inspection through the session's driver whose result is cached.
Inspect(p) ==
  /\ At(p, "inspect")
  /\ IF sess[proc[p].sess].open /\ ConnOfSession(proc[p].sess) \notin cached
     THEN Goto(p, "inspecting") ELSE Become(p, Rest)
  /\ UNCHANGED <<mu, byKey, byID, sess, cur, rec, dsn, cached>>

InspectReturns(p) ==
  /\ At(p, "inspecting")
  /\ cached' \in {cached, cached \cup {ConnOfSession(proc[p].sess)}}
  /\ Become(p, Rest)
  /\ UNCHANGED <<mu, byKey, byID, sess, cur, rec, dsn>>

-----------------------------------------------------------------------------
(* Removing sessions.                                                      *)

\* A membership or personal-space change revokes the sessions of some keys.
Revoke(p, K) ==
  /\ At(p, "idle") /\ "revoke" \in Kinds
  /\ Become(p, RemoveKeys(K))
  /\ UNCHANGED <<mu, byKey, byID, sess, cur, rec, dsn, cached>>

\* Manager.reap's ticker; ticks that find nothing idle are left out.
ReapTick ==
  /\ At(Reaper, "idle")
  /\ \E s \in byID : sess[s].idle
  /\ Become(Reaper, [RemoveKeys(Key) EXCEPT !.kind = "reap"])
  /\ UNCHANGED <<mu, byKey, byID, sess, cur, rec, dsn, cached>>

LockManager(p) ==
  /\ At(p, "lock") /\ mu = NoProc
  /\ mu' = p
  /\ Become(p, [proc[p] EXCEPT !.pc = "pick", !.keys = {}, !.sess = NoSession,
       !.todo = {s \in byID : /\ sess[s].key \in proc[p].keys
                              /\ proc[p].sess \in {NoSession, s}}])
  /\ UNCHANGED <<byKey, byID, sess, cur, rec, dsn, cached>>

\* The reaper looks at lastUsed when it comes to the session.
PickSession(p, s) ==
  /\ At(p, "pick") /\ s \in proc[p].todo
  /\ Become(p, IF proc[p].kind = "reap" /\ ~sess[s].idle
               THEN [proc[p] EXCEPT !.todo = @ \ {s}]
               ELSE [proc[p] EXCEPT !.pc = "drain", !.sess = s])
  /\ UNCHANGED <<mu, byKey, byID, sess, cur, rec, dsn, cached>>

\* As if CloseAllCursors forgot the handles it was to close.
DrainForget(p) ==
  LET s == proc[p].sess IN
  /\ At(p, "drain") /\ Free(s)
  /\ sess' = [sess EXCEPT ![s].cursors = {}]
  /\ Goto(p, "closing")
  /\ UNCHANGED <<mu, byKey, byID, cur, rec, dsn, cached>>

\* CloseAllCursors takes the handles under the session's mu ...
Drain(p) ==
  LET s == proc[p].sess IN
  /\ At(p, "drain") /\ Free(s)
  /\ sess' = [sess EXCEPT ![s].cursors = {}]
  /\ Become(p, [proc[p] EXCEPT !.pc = "closing",
                               !.handles = sess[s].cursors])
  /\ UNCHANGED <<mu, byKey, byID, cur, rec, dsn, cached>>

\* ... and closes each when no fetch is using it.
CloseHandle(p, c) ==
  /\ At(p, "closing") /\ c \in proc[p].handles /\ cur[c].lock = NoProc
  /\ cur' = [cur EXCEPT ![c].open = FALSE]
  /\ Become(p, [proc[p] EXCEPT !.handles = @ \ {c}])
  /\ UNCHANGED <<mu, byKey, byID, sess, rec, dsn, cached>>

\* Conn.Close and the deletes from both maps.
CloseSession(p) ==
  LET s == proc[p].sess IN
  /\ At(p, "closing") /\ proc[p].handles = {}
  /\ sess' = [sess EXCEPT ![s].open = FALSE]
  /\ byKey' = [byKey EXCEPT ![sess[s].key] = NoSession]
  /\ byID' = byID \ {s}
  /\ Become(p, [proc[p] EXCEPT !.pc = "pick", !.sess = NoSession,
                               !.todo = @ \ {s},
                               !.conns = @ \cup {ConnOfSession(s)}])
  /\ UNCHANGED <<mu, cur, rec, dsn, cached>>

\* As if the hook were run with m.mu held.
UnlockLate(p) ==
  /\ At(p, "pick") /\ proc[p].todo = {}
  /\ Goto(p, "notify")
  /\ UNCHANGED <<mu, byKey, byID, sess, cur, rec, dsn, cached>>

Unlock(p) ==
  /\ At(p, "pick") /\ proc[p].todo = {}
  /\ mu' = NoProc
  /\ Goto(p, "notify")
  /\ UNCHANGED <<byKey, byID, sess, cur, rec, dsn, cached>>

\* notifyConnectionEmpty reads the sessions again under RLock ...
Notify(p, d) ==
  /\ At(p, "notify") /\ d \in proc[p].conns /\ mu = NoProc
  /\ Become(p, IF LiveOn(d) THEN [proc[p] EXCEPT !.conns = @ \ {d}]
               ELSE [proc[p] EXCEPT !.pc = "hook", !.conn = d])
  /\ UNCHANGED <<mu, byKey, byID, sess, cur, rec, dsn, cached>>

\* ... and runs the hook without it: the schema and completion caches drop
\* what they hold of the connection.
Hook(p) ==
  /\ At(p, "hook")
  /\ cached' = cached \ {proc[p].conn}
  /\ Become(p, [proc[p] EXCEPT !.pc = "notify", !.conns = @ \ {proc[p].conn}])
  /\ UNCHANGED <<mu, byKey, byID, sess, cur, rec, dsn>>

\* The removal returns to its caller.
Removed(p) ==
  /\ At(p, "notify") /\ proc[p].conns = {}
  /\ CASE proc[p].kind = "rotate" -> Goto(p, "update")
       [] proc[p].kind = "disconnect" -> Goto(p, "recheck")
       [] OTHER -> Become(p, Rest)
  /\ UNCHANGED <<mu, byKey, byID, sess, cur, rec, dsn, cached>>

\* disconnectFromDatabase refreshes the schema cache of an unused connection.
Recheck(p) ==
  /\ At(p, "recheck") /\ mu = NoProc
  /\ cached' = IF LiveOn(proc[p].conn) THEN cached
               ELSE cached \ {proc[p].conn}
  /\ Become(p, Rest)
  /\ UNCHANGED <<mu, byKey, byID, sess, cur, rec, dsn>>

-----------------------------------------------------------------------------
(* Rotating a connection's DSN (updateConnection).                         *)

Rotate(p, d) ==
  /\ At(p, "idle") /\ "rotate" \in Kinds /\ dsn[d] < MaxDsn
  /\ Become(p, [Rest EXCEPT !.pc = "count", !.kind = "rotate", !.conn = d])
  /\ UNCHANGED <<mu, byKey, byID, sess, cur, rec, dsn, cached>>

\* 409 unless nothing is connected or force is set, which drops the sessions.
Count(p) ==
  LET d == proc[p].conn IN
  /\ At(p, "count") /\ mu = NoProc
  /\ \/ /\ ~LiveOn(d) /\ Goto(p, "update")
     \/ /\ LiveOn(d) /\ Become(p, Rest)
     \/ /\ LiveOn(d)
        /\ Become(p, [RemoveKeys(KeysOf(d)) EXCEPT !.kind = "rotate",
                                                   !.conn = d])
  /\ UNCHANGED <<mu, byKey, byID, sess, cur, rec, dsn, cached>>

Update(p) ==
  /\ At(p, "update")
  /\ dsn' = [dsn EXCEPT ![proc[p].conn] = @ + 1]
  /\ Become(p, Rest)
  /\ UNCHANGED <<mu, byKey, byID, sess, cur, rec, cached>>

-----------------------------------------------------------------------------
(* Query cursors.                                                          *)

\* StartQueryCursor runs the query without the session's mu.
StartQuery(p) ==
  /\ At(p, "start")
  /\ \/ sess[proc[p].sess].open /\ Goto(p, "starting")
     \/ ~sess[proc[p].sess].open /\ Become(p, Rest)
  /\ UNCHANGED <<mu, byKey, byID, sess, cur, rec, dsn, cached>>

StartReturns(p, c) ==
  /\ At(p, "starting") /\ cur[c].sess = NoSession
  /\ cur' = [cur EXCEPT ![c].sess = proc[p].sess, ![c].open = TRUE]
  /\ Become(p, [proc[p] EXCEPT !.pc = "register", !.cur = c])
  /\ UNCHANGED <<mu, byKey, byID, sess, rec, dsn, cached>>

\* An error of the query, or of a request that was cancelled meanwhile.
StartFails(p) ==
  /\ At(p, "starting")
  /\ \E r \in {Rest, RemoveSession(proc[p].sess)} : Become(p, r)
  /\ UNCHANGED <<mu, byKey, byID, sess, cur, rec, dsn, cached>>

Register(p) ==
  LET s == proc[p].sess IN
  /\ At(p, "register") /\ Free(s)
  /\ sess' = [Used(s) EXCEPT ![s].cursors = @ \cup {proc[p].cur}]
  /\ Goto(p, "record")
  /\ UNCHANGED <<mu, byKey, byID, cur, rec, dsn, cached>>

\* QueryCursorManager.Create
Record(p) ==
  /\ At(p, "record")
  /\ rec' = [rec EXCEPT ![proc[p].cur] = "listed"]
  /\ Goto(p, "fetch")
  /\ UNCHANGED <<mu, byKey, byID, sess, cur, dsn, cached>>

\* fetchQueryCursor has looked up the record.
FetchCursor(p, c) ==
  /\ At(p, "idle") /\ "fetch" \in Kinds /\ rec[c] \in {"listed", "idle"}
  /\ Become(p, [Rest EXCEPT !.pc = "parent", !.kind = "fetch", !.cur = c,
                            !.sess = cur[c].sess])
  /\ UNCHANGED <<mu, byKey, byID, sess, cur, rec, dsn, cached>>

\* Manager.Get of the parent session, which may be gone.
Parent(p) ==
  LET s == proc[p].sess IN
  /\ At(p, "parent") /\ mu = NoProc
  /\ IF s \in byID THEN sess' = Used(s) /\ Goto(p, "touch")
                   ELSE sess' = sess /\ Goto(p, "take")
  /\ UNCHANGED <<mu, byKey, byID, cur, rec, dsn, cached>>

\* QueryCursorRecord.Touch
Touch(p) ==
  LET c == proc[p].cur IN
  /\ At(p, "touch")
  /\ IF rec[c] = "closed" THEN rec' = rec /\ Goto(p, "take")
     ELSE rec' = [rec EXCEPT ![c] = "listed"] /\ Goto(p, "fetch")
  /\ UNCHANGED <<mu, byKey, byID, sess, cur, dsn, cached>>

\* QueryCursorHandle.Fetch holds the handle's mu throughout.
Fetch(p) ==
  LET c == proc[p].cur IN
  /\ At(p, "fetch") /\ cur[c].lock = NoProc
  /\ cur' = [cur EXCEPT ![c].lock = p]
  /\ Goto(p, "fetching")
  /\ UNCHANGED <<mu, byKey, byID, sess, rec, dsn, cached>>

\* A page, the last page, an error of the rows, ErrCursorClosed, or a context
\* cancelled before the first row. The first fetch answers every error by
\* closing the cursor, and a cancelled request by removing the session; a
\* later fetch that is cancelled leaves the cursor as it is.
FetchReturns(p, open, ok, gone) ==
  LET c == proc[p].cur
      first == proc[p].kind = "cursor" IN
  /\ At(p, "fetching")
  /\ open => cur[c].open
  /\ (open /\ ~ok) => gone
  /\ ok => cur[c].open /\ ~gone
  /\ cur' = [cur EXCEPT ![c].open = open, ![c].lock = NoProc]
  /\ Become(p, IF (ok /\ open) \/ (gone /\ ~first) THEN Rest
               ELSE [proc[p] EXCEPT !.pc = "take", !.gone = gone])
  /\ UNCHANGED <<mu, byKey, byID, sess, rec, dsn, cached>>

\* closeQueryCursor
CloseQueryCursor(p, c) ==
  /\ At(p, "idle") /\ "close" \in Kinds /\ rec[c] \in {"listed", "idle"}
  /\ Become(p, [Rest EXCEPT !.pc = "take", !.kind = "close", !.cur = c,
                            !.sess = cur[c].sess])
  /\ UNCHANGED <<mu, byKey, byID, sess, cur, rec, dsn, cached>>

\* Where QueryCursorManager.Remove and ReapIdle return to.
Done(p) == IF proc[p].gone THEN RemoveSession(proc[p].sess) ELSE Rest

\* QueryCursorManager.Remove: one caller gets the record.
Take(p) ==
  LET c == proc[p].cur IN
  /\ At(p, "take")
  /\ IF rec[c] \in {"listed", "idle"}
     THEN /\ rec' = [rec EXCEPT ![c] = "closed"]
          /\ Become(p, [proc[p] EXCEPT !.pc = "untrack", !.handles = {c}])
     ELSE rec' = rec /\ Become(p, Done(p))
  /\ UNCHANGED <<mu, byKey, byID, sess, cur, dsn, cached>>

\* QueryCursorManager.ReapIdle takes every expired record at once.
ReapCursors ==
  LET C == {c \in Cursor : rec[c] = "idle"} IN
  /\ At(CursorReaper, "idle") /\ C # {}
  /\ rec' = [c \in Cursor |-> IF c \in C THEN "closed" ELSE rec[c]]
  /\ Become(CursorReaper, [Rest EXCEPT !.pc = "untrack", !.handles = C])
  /\ UNCHANGED <<mu, byKey, byID, sess, cur, dsn, cached>>

\* As if CloseCursor only forgot the handle.
UntrackOnly(p, c) ==
  LET s == cur[c].sess IN
  /\ At(p, "untrack") /\ c \in proc[p].handles /\ Free(s)
  /\ sess' = [Used(s) EXCEPT ![s].cursors = @ \ {c}]
  /\ Become(p, [proc[p] EXCEPT !.handles = @ \ {c}])
  /\ UNCHANGED <<mu, byKey, byID, cur, rec, dsn, cached>>

\* Session.CloseCursor: the handle is closed by whoever finds it tracked.
Untrack(p, c) ==
  LET s == cur[c].sess IN
  /\ At(p, "untrack") /\ c \in proc[p].handles /\ Free(s)
  /\ sess' = [Used(s) EXCEPT ![s].cursors = @ \ {c}]
  /\ Become(p, IF c \in sess[s].cursors
               THEN [proc[p] EXCEPT !.pc = "closeone", !.cur = c]
               ELSE [proc[p] EXCEPT !.handles = @ \ {c}])
  /\ UNCHANGED <<mu, byKey, byID, cur, rec, dsn, cached>>

CloseOne(p) ==
  LET c == proc[p].cur IN
  /\ At(p, "closeone") /\ cur[c].lock = NoProc
  /\ cur' = [cur EXCEPT ![c].open = FALSE]
  /\ Become(p, [proc[p] EXCEPT !.pc = "untrack", !.handles = @ \ {c}])
  /\ UNCHANGED <<mu, byKey, byID, sess, rec, dsn, cached>>

CursorsClosed(p) ==
  /\ At(p, "untrack") /\ proc[p].handles = {}
  /\ Become(p, Done(p))
  /\ UNCHANGED <<mu, byKey, byID, sess, cur, rec, dsn, cached>>

-----------------------------------------------------------------------------
(* Time.                                                                   *)

\* A session has not been used for the idle timeout.
SessionIdles(s) ==
  /\ s \in byID /\ ~sess[s].idle
  /\ sess' = [sess EXCEPT ![s].idle = TRUE]
  /\ UNCHANGED <<mu, byKey, byID, cur, rec, dsn, cached, proc>>

CursorIdles(c) ==
  /\ rec[c] = "listed"
  /\ rec' = [rec EXCEPT ![c] = "idle"]
  /\ UNCHANGED <<mu, byKey, byID, sess, cur, dsn, cached, proc>>

\* A cache entry reaches its TTL.
CacheExpires(d) ==
  /\ d \in cached
  /\ cached' = cached \ {d}
  /\ UNCHANGED <<mu, byKey, byID, sess, cur, rec, dsn, proc>>

-----------------------------------------------------------------------------

\* A client's next request.
Ask(p) ==
  \/ \E k \in Key : Connect(p, k)
  \/ \E s \in Session, kind \in {"query", "cursor", "inspect", "disconnect"} :
       GetSession(p, s, kind)
  \/ \E K \in Scope : Revoke(p, K)
  \/ \E d \in Conn : Rotate(p, d)
  \/ \E c \in Cursor : FetchCursor(p, c) \/ CloseQueryCursor(p, c)

\* The next step of a goroutine that is under way.
Step(p) ==
  \/ Create(p) \/ OpenFails(p) \/ Query(p) \/ QueryReturns(p)
  \/ Inspect(p) \/ InspectReturns(p)
  \/ LockManager(p) \/ Drain(p) \/ CloseSession(p) \/ Unlock(p)
  \/ Hook(p) \/ Removed(p) \/ Recheck(p)
  \/ Count(p) \/ Update(p)
  \/ StartQuery(p) \/ StartFails(p) \/ Register(p) \/ Record(p)
  \/ Parent(p) \/ Touch(p) \/ Fetch(p)
  \/ Take(p) \/ CloseOne(p) \/ CursorsClosed(p)
  \/ \E s \in Session : Opened(p, s) \/ PickSession(p, s)
  \/ \E c \in Cursor : \/ StartReturns(p, c) \/ CloseHandle(p, c)
                       \/ Untrack(p, c)
  \/ \E d \in Conn : Notify(p, d)
  \/ \E open, ok, gone \in BOOLEAN : FetchReturns(p, open, ok, gone)

Next ==
  \/ \E p \in Request : Ask(p)
  \/ \E p \in Proc : Step(p)
  \/ ReapTick \/ ReapCursors
  \/ \E s \in Session : SessionIdles(s)
  \/ \E c \in Cursor : CursorIdles(c)
  \/ \E d \in Conn : CacheExpires(d)

Spec == Init /\ [][Next]_vars

\* Target databases answer or the client goes away; a goroutine waiting for
\* one of Go's mutexes is handed it in the end (their starvation mode), hence
\* strong fairness; tickers tick, and a record nobody can touch any more gets
\* older.
Fairness ==
  /\ \A p \in Proc : SF_vars(Step(p))
  /\ WF_vars(ReapCursors)
  /\ \A c \in Cursor : WF_vars(CursorIdles(c) /\ cur[c].sess \notin byID)

FairSpec == Spec /\ Fairness

-----------------------------------------------------------------------------
(* Safety.                                                                 *)

\* The variables keep their types, and Manager.mu is held exactly by the one
\* goroutine that is between its Lock and Unlock.
TypeOK ==
  /\ mu \in Proc \cup {NoProc}
  /\ byKey \in [Key -> Session \cup {NoSession}]
  /\ byID \subseteq Session
  /\ sess \in [Session -> SessRow]
  /\ cur \in [Cursor -> CurRow]
  /\ rec \in [Cursor -> {"none", "listed", "idle", "closed"}]
  /\ dsn \in [Conn -> Nat]
  /\ cached \subseteq Conn
  /\ proc \in [Proc -> ProcRow]
  /\ \A p \in Proc : mu = p <=> proc[p].pc \in HoldsManager

\* The two indexes agree, and every open driver is registered: however opens,
\* removals and the reaper interleave, no session is replaced in byKey while
\* it stays open (a connection to the target nobody would ever close), and no
\* registered session has a closed driver.
RegistryCoherent ==
  /\ \A k \in Key : byKey[k] # NoSession =>
       byKey[k] \in byID /\ sess[byKey[k]].key = k
  /\ \A s \in byID : sess[s].key \in Key /\ byKey[sess[s].key] = s
  /\ \A s \in Session : sess[s].open <=> s \in byID

\* A goroutine has cursor c in its hands and will list or close it.
InHands(c) ==
  \E p \in Proc : \/ proc[p].pc \in {"register", "record"} /\ proc[p].cur = c
                  \/ c \in proc[p].handles

\* Every open cursor has somebody who will close it: the cursor manager that
\* lists it, or a goroutine that is about to list or to close it. Fetches,
\* closes, the removal of the session and both reapers race to take it out of
\* the record and out of the session's map, in either order.
CursorsAccounted ==
  \A c \in Cursor :
    cur[c].open => rec[c] \in {"listed", "idle"} \/ InHands(c)

\* What goroutine p waits for is free: Manager.mu, the mu of its session, or
\* the mu of a cursor handle.
Unhindered(p) ==
  LET r == proc[p] IN
  /\ r.pc \in {"create", "lock", "recheck", "count", "parent"} => mu = NoProc
  /\ r.pc = "notify" => mu = NoProc \/ r.conns = {}
  /\ r.pc \in {"query", "register", "drain"} => Free(r.sess)
  /\ r.pc \in {"fetch", "closeone"} => cur[r.cur].lock = NoProc
  /\ r.pc = "closing" =>
       r.handles = {} \/ \E c \in r.handles : cur[c].lock = NoProc
  /\ r.pc = "untrack" =>
       r.handles = {} \/ \E c \in r.handles : Free(cur[c].sess)

Busy == {p \in Proc : ~At(p, "idle")}

\* Goroutines that are under way never all wait for one another, although
\* sessions are closed, and cursor handles waited for, with Manager.mu held.
NoCircle == Busy # {} => \E p \in Busy : Unhindered(p)

\* And whoever finds its locks free has a step to take.
SomebodyMoves ==
  /\ NoCircle
  /\ \A p \in Busy : Unhindered(p) => ENABLED Step(p)

-----------------------------------------------------------------------------
(* Liveness.                                                               *)

\* Every request, and every round of a reaper, comes to its end, behind
\* however many others at the three locks.
RequestsFinish == \A p \in Proc : ~At(p, "idle") ~> At(p, "idle")

\* When a session is removed its cursors get closed, those too whose query
\* was still starting, or being fetched, while the session was closed.
RemovedCursorsClose ==
  \A c \in Cursor :
    (cur[c].open /\ cur[c].sess \notin byID) ~> ~cur[c].open

-----------------------------------------------------------------------------
(* What the documentation, a test and an error message say and the code    *)
(* does not keep (see the README).                                         *)

\* "TestRemoveClosesActiveCursorsBeforeDriver"
CursorsBeforeDriver ==
  \A s \in Session, c \in Cursor :
    (c \in sess[s].cursors /\ cur[c].open) => sess[s].open

\* "Retry with force=true to rotate the DSN and drop them."
SessionsUseCurrentDsn ==
  \A s \in byID : sess[s].dsn = dsn[ConnOfSession(s)]

\* "stores metadata only in the bounded process-local cache while a live
\* session exists": what is cached of a connection without sessions is about
\* to be dropped.
MetadataNeedsSession ==
  \A d \in cached : LiveOn(d) \/ \E p \in Proc :
    \/ d \in proc[p].conns
    \/ proc[p].pc \in {"hook", "recheck"} /\ proc[p].conn = d
=============================================================================
