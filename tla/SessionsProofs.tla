--------------------------- MODULE SessionsProofs ---------------------------
(***************************************************************************)
(* Theorems about Sessions, for every set of keys, sessions, cursors and   *)
(* concurrent requests.                                                    *)
(***************************************************************************)
EXTENDS Sessions, TLAPS

-----------------------------------------------------------------------------
(* What a goroutine becomes keeps its type.                                *)

LEMMA GotoRow ==
  ASSUME NEW r \in ProcRow, NEW pc \in PC
  PROVE  [r EXCEPT !.pc = pc] \in ProcRow
BY DEF ProcRow

LEMMA HandlesRow ==
  ASSUME NEW r \in ProcRow, NEW pc \in PC, NEW C \in SUBSET Cursor
  PROVE  [r EXCEPT !.pc = pc, !.handles = C] \in ProcRow
BY DEF ProcRow

LEMMA RestRow == Rest \in ProcRow
BY DEF Rest, ProcRow, PC

LEMMA RemoveRows ==
  /\ \A s \in Session \cup {NoSession} : RemoveSession(s) \in ProcRow
  /\ \A K \in SUBSET Key : RemoveKeys(K) \in ProcRow
BY DEF RemoveSession, RemoveKeys, Rest, ProcRow, PC, AllKinds

LEMMA Becoming ==
  ASSUME proc \in [Proc -> ProcRow], NEW p \in Proc, NEW r \in ProcRow,
         Become(p, r)
  PROVE  /\ proc' \in [Proc -> ProcRow]
         /\ proc'[p] = r
         /\ \A q \in Proc : q # p => proc'[q] = proc[q]
BY DEF Become

LEMMA Becomes ==
  ASSUME proc \in [Proc -> ProcRow], NEW p \in Proc, NEW r, Become(p, r)
  PROVE  proc'[p] = r /\ \A q \in Proc : q # p => proc'[q] = proc[q]
BY DEF Become

LEMMA Going ==
  ASSUME proc \in [Proc -> ProcRow], NEW p \in Proc, NEW pc \in PC,
         Goto(p, pc)
  PROVE  /\ proc' \in [Proc -> ProcRow]
         /\ proc'[p] = [proc[p] EXCEPT !.pc = pc]
         /\ \A q \in Proc : q # p => proc'[q] = proc[q]
BY GotoRow, Becoming DEF Goto

-----------------------------------------------------------------------------
(* Types, Manager.mu and the two indexes need one another: a removal that  *)
(* has listed its sessions finds them registered because it holds mu, and  *)
(* an opening key is still free for the same reason.                       *)

Known(r) ==
  /\ r.pc \in {"create", "opening"} => r.key \in Key
  /\ r.pc = "opening" => byKey[r.key] = NoSession
  /\ r.pc \in {"register", "record", "parent", "touch", "fetch", "fetching",
               "take"} => r.cur \in Cursor
  /\ r.pc \in {"inspect", "inspecting", "start", "starting", "register"} =>
       r.sess \in Session
  /\ r.pc = "inspecting" => sess[r.sess].key \in Key
  /\ r.pc \in {"pick", "drain", "closing"} => r.todo \subseteq byID
  /\ r.pc \in {"drain", "closing"} => r.sess \in r.todo

RowKnown(p) == Known(proc[p])

RegistryInv ==
  /\ TypeOK
  /\ RegistryCoherent
  /\ \A p \in Proc : RowKnown(p)

LEMMA RegistryInit == Init => RegistryInv
<1> SUFFICES ASSUME Init PROVE RegistryInv
  OBVIOUS
<1> USE SessionsAssumption
<1>1. TypeOK
  <2>1. proc \in [Proc -> ProcRow]
    BY RestRow DEF Init
  <2>2. sess \in [Session -> SessRow]
    BY DEF Init, SessRow
  <2>3. cur \in [Cursor -> CurRow]
    BY DEF Init, CurRow
  <2>4. \A p \in Proc : mu = p <=> proc[p].pc \in HoldsManager
    BY DEF Init, Rest, HoldsManager, Proc
  <2> QED BY <2>1, <2>2, <2>3, <2>4 DEF Init, TypeOK
<1>2. RegistryCoherent
  BY DEF Init, RegistryCoherent
<1>3. \A p \in Proc : RowKnown(p)
  BY DEF Init, RowKnown, Known, Rest
<1> QED BY <1>1, <1>2, <1>3 DEF RegistryInv

\* The steps of requests and reapers that only move the goroutine itself on.
LEMMA RemovalTypes ==
  ASSUME RegistryInv, NEW p \in Proc
  PROVE  /\ LockManager(p) => proc' \in [Proc -> ProcRow]
         /\ \A s \in Session : PickSession(p, s) => proc' \in [Proc -> ProcRow]
         /\ Drain(p) => proc' \in [Proc -> ProcRow]
         /\ \A c \in Cursor : CloseHandle(p, c) => proc' \in [Proc -> ProcRow]
         /\ CloseSession(p) => proc' \in [Proc -> ProcRow]
         /\ \A d \in Conn : Notify(p, d) => proc' \in [Proc -> ProcRow]
         /\ Hook(p) => proc' \in [Proc -> ProcRow]
<1> USE DEF RegistryInv, TypeOK
<1>0. proc[p] \in ProcRow
  OBVIOUS
<1>1. ASSUME LockManager(p) PROVE proc' \in [Proc -> ProcRow]
  <2> DEFINE r == [proc[p] EXCEPT !.pc = "pick", !.keys = {}, !.sess = NoSession,
       !.todo = {s \in byID : /\ sess[s].key \in proc[p].keys
                              /\ proc[p].sess \in {NoSession, s}}]
  <2>1. r \in ProcRow
    BY <1>0 DEF ProcRow, PC
  <2> QED BY <2>1, <1>1, Becoming DEF LockManager
<1>2. ASSUME NEW s \in Session, PickSession(p, s)
      PROVE  proc' \in [Proc -> ProcRow]
  <2>1. /\ [proc[p] EXCEPT !.todo = @ \ {s}] \in ProcRow
        /\ [proc[p] EXCEPT !.pc = "drain", !.sess = s] \in ProcRow
    BY <1>0 DEF ProcRow, PC
  <2> QED BY <2>1, <1>2, Becoming DEF PickSession
<1>3. ASSUME Drain(p) PROVE proc' \in [Proc -> ProcRow]
  <2>1. proc[p].sess \in Session
    BY <1>3 DEF Drain, At, RowKnown, Known
  <2>2. [proc[p] EXCEPT !.pc = "closing", !.handles = sess[proc[p].sess].cursors]
          \in ProcRow
    BY <1>0, <2>1 DEF ProcRow, PC, SessRow
  <2> QED BY <2>2, <1>3, Becoming DEF Drain
<1>4. ASSUME NEW c \in Cursor, CloseHandle(p, c)
      PROVE  proc' \in [Proc -> ProcRow]
  <2>1. [proc[p] EXCEPT !.handles = @ \ {c}] \in ProcRow
    BY <1>0 DEF ProcRow
  <2> QED BY <2>1, <1>4, Becoming DEF CloseHandle
<1>5. ASSUME CloseSession(p) PROVE proc' \in [Proc -> ProcRow]
  <2> DEFINE s == proc[p].sess
  <2>1. s \in byID
    BY <1>5 DEF CloseSession, At, RowKnown, Known
  <2>2. ConnOfSession(s) \in Conn
    BY <2>1, SessionsAssumption DEF RegistryCoherent, ConnOfSession
  <2>3. [proc[p] EXCEPT !.pc = "pick", !.sess = NoSession, !.todo = @ \ {s},
                        !.conns = @ \cup {ConnOfSession(s)}] \in ProcRow
    BY <1>0, <2>2 DEF ProcRow, PC
  <2> QED BY <2>3, <1>5, Becoming DEF CloseSession
<1>6. ASSUME NEW d \in Conn, Notify(p, d) PROVE proc' \in [Proc -> ProcRow]
  <2>1. /\ [proc[p] EXCEPT !.conns = @ \ {d}] \in ProcRow
        /\ [proc[p] EXCEPT !.pc = "hook", !.conn = d] \in ProcRow
    BY <1>0 DEF ProcRow, PC
  <2> QED BY <2>1, <1>6, Becoming DEF Notify
<1>7. ASSUME Hook(p) PROVE proc' \in [Proc -> ProcRow]
  <2>1. [proc[p] EXCEPT !.pc = "notify", !.conns = @ \ {proc[p].conn}] \in ProcRow
    BY <1>0 DEF ProcRow, PC
  <2> QED BY <2>1, <1>7, Becoming DEF Hook
<1> QED BY <1>1, <1>2, <1>3, <1>4, <1>5, <1>6, <1>7

LEMMA CursorTypes ==
  ASSUME RegistryInv, NEW p \in Proc
  PROVE  /\ \A c \in Cursor : StartReturns(p, c) => proc' \in [Proc -> ProcRow]
         /\ \A c \in Cursor : FetchCursor(p, c) => proc' \in [Proc -> ProcRow]
         /\ \A open, ok, gone \in BOOLEAN :
              FetchReturns(p, open, ok, gone) => proc' \in [Proc -> ProcRow]
         /\ \A c \in Cursor : CloseQueryCursor(p, c) => proc' \in [Proc -> ProcRow]
         /\ Take(p) => proc' \in [Proc -> ProcRow]
         /\ ReapCursors => proc' \in [Proc -> ProcRow]
         /\ \A c \in Cursor : Untrack(p, c) => proc' \in [Proc -> ProcRow]
         /\ CloseOne(p) => proc' \in [Proc -> ProcRow]
         /\ CursorsClosed(p) => proc' \in [Proc -> ProcRow]
<1> USE DEF RegistryInv, TypeOK
<1>0. proc[p] \in ProcRow /\ proc[p].sess \in Session \cup {NoSession}
  BY DEF ProcRow
<1>d. Done(p) \in ProcRow
  BY <1>0, RestRow, RemoveRows DEF Done
<1>1. ASSUME NEW c \in Cursor, StartReturns(p, c) PROVE proc' \in [Proc -> ProcRow]
  <2>1. [proc[p] EXCEPT !.pc = "register", !.cur = c] \in ProcRow
    BY <1>0 DEF ProcRow, PC
  <2> QED BY <2>1, <1>1, Becoming DEF StartReturns
<1>2. ASSUME NEW c \in Cursor, FetchCursor(p, c) PROVE proc' \in [Proc -> ProcRow]
  <2>1. [Rest EXCEPT !.pc = "parent", !.kind = "fetch", !.cur = c,
                     !.sess = cur[c].sess] \in ProcRow
    BY DEF Rest, ProcRow, PC, AllKinds, CurRow
  <2> QED BY <2>1, <1>2, Becoming DEF FetchCursor
<1>3. ASSUME NEW open \in BOOLEAN, NEW ok \in BOOLEAN, NEW gone \in BOOLEAN,
             FetchReturns(p, open, ok, gone)
      PROVE  proc' \in [Proc -> ProcRow]
  <2>1. [proc[p] EXCEPT !.pc = "take", !.gone = gone] \in ProcRow
    BY <1>0 DEF ProcRow, PC
  <2> QED BY <2>1, <1>3, RestRow, Becoming DEF FetchReturns
<1>4. ASSUME NEW c \in Cursor, CloseQueryCursor(p, c) PROVE proc' \in [Proc -> ProcRow]
  <2>1. [Rest EXCEPT !.pc = "take", !.kind = "close", !.cur = c,
                     !.sess = cur[c].sess] \in ProcRow
    BY DEF Rest, ProcRow, PC, AllKinds, CurRow
  <2> QED BY <2>1, <1>4, Becoming DEF CloseQueryCursor
<1>5. ASSUME Take(p) PROVE proc' \in [Proc -> ProcRow]
  <2>1. CASE rec[proc[p].cur] \in {"listed", "idle"}
    <3>1. proc[p].cur \in Cursor
      BY <1>5 DEF Take, At, RowKnown, Known
    <3>2. [proc[p] EXCEPT !.pc = "untrack", !.handles = {proc[p].cur}] \in ProcRow
      BY <1>0, <3>1, HandlesRow DEF PC
    <3> QED BY <3>2, <2>1, <1>5, Becoming DEF Take
  <2>2. CASE rec[proc[p].cur] \notin {"listed", "idle"}
    BY <2>2, <1>5, <1>d, Becoming DEF Take
  <2> QED BY <2>1, <2>2
<1>6. ASSUME ReapCursors PROVE proc' \in [Proc -> ProcRow]
  <2>1. [Rest EXCEPT !.pc = "untrack", !.handles = {c \in Cursor : rec[c] = "idle"}]
          \in ProcRow
    BY DEF Rest, ProcRow, PC
  <2> QED BY <2>1, <1>6, Becoming DEF ReapCursors, Proc
<1>7. ASSUME NEW c \in Cursor, Untrack(p, c) PROVE proc' \in [Proc -> ProcRow]
  <2>1. [proc[p] EXCEPT !.pc = "closeone", !.cur = c] \in ProcRow
    BY <1>0 DEF ProcRow, PC
  <2>2. [proc[p] EXCEPT !.handles = @ \ {c}] \in ProcRow
    BY <1>0 DEF ProcRow
  <2> QED BY <2>1, <2>2, <1>7, Becoming DEF Untrack
<1>8. ASSUME CloseOne(p) PROVE proc' \in [Proc -> ProcRow]
  <2>1. [proc[p] EXCEPT !.pc = "untrack", !.handles = @ \ {proc[p].cur}] \in ProcRow
    BY <1>0 DEF ProcRow, PC
  <2> QED BY <2>1, <1>8, Becoming DEF CloseOne
<1>9. ASSUME CursorsClosed(p) PROVE proc' \in [Proc -> ProcRow]
  BY <1>9, <1>d, Becoming DEF CursorsClosed
<1> QED BY <1>1, <1>2, <1>3, <1>4, <1>5, <1>6, <1>7, <1>8, <1>9

LEMMA RequestTypes ==
  ASSUME RegistryInv, NEW p \in Proc
  PROVE  /\ \A k \in Key : Connect(p, k) => proc' \in [Proc -> ProcRow]
         /\ \A s \in Session, kind \in {"query", "cursor", "inspect", "disconnect"} :
              GetSession(p, s, kind) => proc' \in [Proc -> ProcRow]
         /\ \A K \in Scope : Revoke(p, K) => proc' \in [Proc -> ProcRow]
         /\ ReapTick => proc' \in [Proc -> ProcRow]
         /\ \A d \in Conn : Rotate(p, d) => proc' \in [Proc -> ProcRow]
         /\ Count(p) => proc' \in [Proc -> ProcRow]
         /\ QueryReturns(p) => proc' \in [Proc -> ProcRow]
         /\ StartFails(p) => proc' \in [Proc -> ProcRow]
<1> USE DEF RegistryInv, TypeOK
<1>0. proc[p] \in ProcRow /\ proc[p].sess \in Session \cup {NoSession}
  BY DEF ProcRow
<1>1. ASSUME NEW k \in Key, Connect(p, k) PROVE proc' \in [Proc -> ProcRow]
  <2>1. \A n \in Nat : [Rest EXCEPT !.pc = "create", !.kind = "connect",
                                    !.key = k, !.dsn = n] \in ProcRow
    BY DEF Rest, ProcRow, PC, AllKinds
  <2>2. dsn[ConnOf[k]] \in Nat
    BY SessionsAssumption
  <2> QED BY <2>1, <2>2, <1>1, Becoming DEF Connect
<1>2. ASSUME NEW s \in Session,
             NEW kind \in {"query", "cursor", "inspect", "disconnect"},
             GetSession(p, s, kind)
      PROVE  proc' \in [Proc -> ProcRow]
  <2>1. ConnOfSession(s) \in Conn
    BY <1>2, SessionsAssumption DEF GetSession, RegistryCoherent, ConnOfSession
  <2>2. /\ [Rest EXCEPT !.pc = "query", !.sess = s] \in ProcRow
        /\ [Rest EXCEPT !.pc = "start", !.sess = s, !.kind = "cursor"] \in ProcRow
        /\ [Rest EXCEPT !.pc = "inspect", !.sess = s] \in ProcRow
    BY DEF Rest, ProcRow, PC, AllKinds
  <2>3. \A d \in Conn :
          [RemoveSession(s) EXCEPT !.kind = "disconnect", !.conn = d] \in ProcRow
    BY DEF RemoveSession, Rest, ProcRow, PC, AllKinds
  <2> QED BY <2>1, <2>2, <2>3, <1>2, Becoming DEF GetSession
<1>3. ASSUME NEW K \in Scope, Revoke(p, K) PROVE proc' \in [Proc -> ProcRow]
  BY <1>3, RemoveRows, Becoming, SessionsAssumption DEF Revoke
<1>4. ASSUME ReapTick PROVE proc' \in [Proc -> ProcRow]
  <2>1. [RemoveKeys(Key) EXCEPT !.kind = "reap"] \in ProcRow
    BY RemoveRows DEF ProcRow
  <2> QED BY <2>1, <1>4, Becoming DEF ReapTick, Proc
<1>5. ASSUME NEW d \in Conn, Rotate(p, d) PROVE proc' \in [Proc -> ProcRow]
  <2>1. [Rest EXCEPT !.pc = "count", !.kind = "rotate", !.conn = d] \in ProcRow
    BY DEF Rest, ProcRow, PC, AllKinds
  <2> QED BY <2>1, <1>5, Becoming DEF Rotate
<1>6. ASSUME Count(p) PROVE proc' \in [Proc -> ProcRow]
  <2>1. [RemoveKeys(KeysOf(proc[p].conn)) EXCEPT !.kind = "rotate",
                                                 !.conn = proc[p].conn] \in ProcRow
    <3>1. RemoveKeys(KeysOf(proc[p].conn)) \in ProcRow
      BY RemoveRows DEF KeysOf
    <3> QED BY <3>1, <1>0 DEF ProcRow, AllKinds
  <2> QED BY <2>1, <1>6, RestRow, Becoming, Going DEF Count, PC
<1>7. ASSUME QueryReturns(p) PROVE proc' \in [Proc -> ProcRow]
  BY <1>0, <1>7, RestRow, RemoveRows, Becoming DEF QueryReturns
<1>8. ASSUME StartFails(p) PROVE proc' \in [Proc -> ProcRow]
  BY <1>0, <1>8, RestRow, RemoveRows, Becoming DEF StartFails
<1> QED BY <1>1, <1>2, <1>3, <1>4, <1>5, <1>6, <1>7, <1>8

LEMMA SimpleTypes ==
  ASSUME RegistryInv, NEW p \in Proc,
         \/ Create(p) \/ OpenFails(p) \/ Query(p) \/ Inspect(p)
         \/ InspectReturns(p) \/ Unlock(p) \/ Removed(p) \/ Recheck(p)
         \/ Update(p) \/ StartQuery(p) \/ Register(p) \/ Record(p)
         \/ Parent(p) \/ Touch(p) \/ Fetch(p)
         \/ \E s \in Session : Opened(p, s)
  PROVE  proc' \in [Proc -> ProcRow]
<1>1. Become(p, Rest) \/ \E pc \in PC : Goto(p, pc)
  BY DEF PC, Create, OpenFails, Query, Inspect, InspectReturns, Unlock, Removed,
         Recheck, Update, StartQuery, Register, Record, Parent, Touch, Fetch,
         Opened
<1> QED BY <1>1, RestRow, Becoming, Going DEF RegistryInv, TypeOK

-----------------------------------------------------------------------------
(* What a step does to the sessions.                                       *)

\* The sessions as f has them keep their keys and their drivers.
Keeping(f) ==
  /\ f \in [Session -> SessRow]
  /\ \A s \in Session : f[s].key = sess[s].key /\ f[s].open = sess[s].open

KeepsSessions == Keeping(sess')

LEMMA SessionRows ==
  ASSUME NEW r \in SessRow, NEW b \in BOOLEAN, NEW o \in Proc \cup {NoProc},
         NEW C \in SUBSET Cursor
  PROVE  /\ [r EXCEPT !.idle = b] \in SessRow
         /\ [r EXCEPT !.lock = o] \in SessRow
         /\ [r EXCEPT !.cursors = C] \in SessRow
BY DEF SessRow

LEMMA KeepingRow ==
  ASSUME NEW f, Keeping(f), NEW s, NEW r \in SessRow,
         s \in Session => r.key = f[s].key /\ r.open = f[s].open
  PROVE  Keeping([f EXCEPT ![s] = r])
BY DEF Keeping

\* The fields that a step may change without the manager's lock.
LEMMA KeepingFields ==
  ASSUME NEW f, Keeping(f), NEW s
  PROVE  /\ \A b \in BOOLEAN : Keeping([f EXCEPT ![s].idle = b])
         /\ \A o \in Proc \cup {NoProc} : Keeping([f EXCEPT ![s].lock = o])
         /\ \A C \in SUBSET Cursor : Keeping([f EXCEPT ![s].cursors = C])
         /\ \A c \in Cursor : /\ Keeping([f EXCEPT ![s].cursors = @ \cup {c}])
                             /\ Keeping([f EXCEPT ![s].cursors = @ \ {c}])
<1>1. CASE s \in Session
  <2>1. f[s] \in SessRow
    BY <1>1 DEF Keeping
  <2>2. ASSUME NEW b \in BOOLEAN PROVE Keeping([f EXCEPT ![s].idle = b])
    <3>1. [f[s] EXCEPT !.idle = b] \in SessRow
      BY <2>1, SessionRows
    <3> QED BY <2>1, <3>1, KeepingRow DEF SessRow
  <2>3. ASSUME NEW o \in Proc \cup {NoProc} PROVE Keeping([f EXCEPT ![s].lock = o])
    <3>1. [f[s] EXCEPT !.lock = o] \in SessRow
      BY <2>1, SessionRows
    <3> QED BY <2>1, <3>1, KeepingRow DEF SessRow
  <2>4. ASSUME NEW C \in SUBSET Cursor PROVE Keeping([f EXCEPT ![s].cursors = C])
    <3>1. [f[s] EXCEPT !.cursors = C] \in SessRow
      BY <2>1, SessionRows
    <3> QED BY <2>1, <3>1, KeepingRow DEF SessRow
  <2>5. \A c \in Cursor : /\ f[s].cursors \cup {c} \in SUBSET Cursor
                          /\ f[s].cursors \ {c} \in SUBSET Cursor
    BY <2>1 DEF SessRow
  <2> QED BY <2>2, <2>3, <2>4, <2>5
<1>2. CASE s \notin Session
  BY <1>2 DEF Keeping
<1> QED BY <1>1, <1>2

LEMMA KeepingUsed ==
  ASSUME RegistryInv, NEW s
  PROVE  Keeping(sess) /\ Keeping(Used(s))
<1>1. Keeping(sess)
  BY DEF RegistryInv, TypeOK, Keeping
<1> QED BY <1>1, KeepingFields DEF Used

LEMMA SessionFrame ==
  ASSUME RegistryInv, NEW p \in Proc,
         \/ Create(p) \/ Query(p) \/ QueryReturns(p) \/ Drain(p)
         \/ Register(p) \/ Parent(p)
         \/ \E s \in Session,
               kind \in {"query", "cursor", "inspect", "disconnect"} :
              GetSession(p, s, kind)
         \/ \E c \in Cursor : Untrack(p, c)
         \/ \E s \in Session : SessionIdles(s)
         \/ UNCHANGED sess
  PROVE  KeepsSessions
<1> USE KeepingUsed, KeepingFields DEF KeepsSessions
<1>1. CASE Create(p)
  BY <1>1 DEF Create
<1>2. CASE Query(p)
  BY <1>2 DEF Query
<1>3. CASE QueryReturns(p)
  BY <1>3 DEF QueryReturns
<1>4. CASE Drain(p)
  BY <1>4 DEF Drain
<1>5. CASE Register(p)
  <2>1. proc[p].cur \in Cursor
    BY <1>5 DEF Register, At, RegistryInv, RowKnown, Known
  <2> QED BY <2>1, <1>5 DEF Register
<1>6. CASE Parent(p)
  BY <1>6 DEF Parent
<1>7. CASE \E s \in Session,
              kind \in {"query", "cursor", "inspect", "disconnect"} :
             GetSession(p, s, kind)
  BY <1>7 DEF GetSession
<1>8. ASSUME NEW c \in Cursor, Untrack(p, c) PROVE KeepsSessions
  BY <1>8 DEF Untrack
<1>9. ASSUME NEW s \in Session, SessionIdles(s) PROVE KeepsSessions
  BY <1>9 DEF SessionIdles
<1>10. CASE UNCHANGED sess
  BY <1>10
<1> QED BY <1>1, <1>2, <1>3, <1>4, <1>5, <1>6, <1>7, <1>8, <1>9, <1>10

LEMMA OthersKnown ==
  ASSUME RegistryInv, NEW p \in Proc, NEW q \in Proc, q # p,
         proc'[q] = proc[q],
         mu = p \/ UNCHANGED <<byKey, byID>>,
         \A s \in Session : sess[s].key \in Key => sess'[s].key = sess[s].key
  PROVE  RowKnown(q)'
<1>1. proc[q].pc \in HoldsManager => mu = q
  BY DEF RegistryInv, TypeOK
<1>2. proc[q].pc \in HoldsManager => UNCHANGED <<byKey, byID>>
  BY <1>1
<1> QED BY <1>2 DEF RegistryInv, RowKnown, Known, HoldsManager

\* A step that touches neither Manager.mu nor what it guards.
LEMMA QuietStep ==
  ASSUME RegistryInv, NEW p \in Proc,
         proc' \in [Proc -> ProcRow],
         \A q \in Proc : q # p => proc'[q] = proc[q],
         UNCHANGED <<mu, byKey, byID>>, KeepsSessions,
         cur' \in [Cursor -> CurRow],
         rec' \in [Cursor -> {"none", "listed", "idle", "closed"}],
         dsn' \in [Conn -> Nat], cached' \subseteq Conn,
         proc[p].pc \in HoldsManager <=> proc'[p].pc \in HoldsManager,
         RowKnown(p)'
  PROVE  RegistryInv'
<1>1. TypeOK'
  BY DEF RegistryInv, TypeOK, KeepsSessions, Keeping
<1>2. RegistryCoherent'
  BY DEF RegistryInv, RegistryCoherent, TypeOK, KeepsSessions, Keeping
<1>3. ASSUME NEW q \in Proc PROVE RowKnown(q)'
  <2>1. CASE q = p
    BY <2>1
  <2>2. CASE q # p
    BY <2>2, OthersKnown DEF KeepsSessions, Keeping
  <2> QED BY <2>1, <2>2
<1> QED BY <1>1, <1>2, <1>3 DEF RegistryInv

LEMMA CursorLocks ==
  ASSUME RegistryInv, NEW c, NEW b \in BOOLEAN, NEW o \in Proc \cup {NoProc}
  PROVE  /\ [cur EXCEPT ![c].open = b] \in [Cursor -> CurRow]
         /\ [cur EXCEPT ![c].lock = o] \in [Cursor -> CurRow]
         /\ [cur EXCEPT ![c].open = b, ![c].lock = o] \in [Cursor -> CurRow]
<1>1. cur \in [Cursor -> CurRow]
  BY DEF RegistryInv, TypeOK
<1>2. ASSUME NEW f \in [Cursor -> CurRow]
      PROVE  /\ [f EXCEPT ![c].open = b] \in [Cursor -> CurRow]
             /\ [f EXCEPT ![c].lock = o] \in [Cursor -> CurRow]
  <2>1. ASSUME NEW r \in CurRow
        PROVE  [r EXCEPT !.open = b] \in CurRow /\ [r EXCEPT !.lock = o] \in CurRow
    BY DEF CurRow
  <2> QED BY <2>1
<1> QED BY <1>1, <1>2

LEMMA CursorBegins ==
  ASSUME RegistryInv, NEW c \in Cursor, NEW s \in Session
  PROVE  [cur EXCEPT ![c].sess = s, ![c].open = TRUE] \in [Cursor -> CurRow]
<1>1. cur \in [Cursor -> CurRow]
  BY DEF RegistryInv, TypeOK
<1>2. ASSUME NEW f \in [Cursor -> CurRow]
      PROVE  [f EXCEPT ![c].sess = s] \in [Cursor -> CurRow]
  BY DEF CurRow
<1>3. ASSUME NEW f \in [Cursor -> CurRow]
      PROVE  [f EXCEPT ![c].open = TRUE] \in [Cursor -> CurRow]
  BY DEF CurRow
<1> QED BY <1>1, <1>2, <1>3

\* A step of p that leaves Manager.mu, what it guards and the databases alone.
LEMMA QuietMove ==
  ASSUME RegistryInv, NEW p \in Proc, NEW r,
         proc' \in [Proc -> ProcRow], Become(p, r),
         UNCHANGED <<mu, byKey, byID, dsn>>, KeepsSessions,
         cur' \in [Cursor -> CurRow],
         rec' \in [Cursor -> {"none", "listed", "idle", "closed"}],
         cached' \subseteq Conn,
         proc[p].pc \in HoldsManager <=> r.pc \in HoldsManager,
         Known(r)
  PROVE  RegistryInv'
<1>1. proc'[p] = r /\ \A q \in Proc : q # p => proc'[q] = proc[q]
  BY Becomes DEF RegistryInv, TypeOK
<1>2. RowKnown(p)'
  BY <1>1 DEF RowKnown, Known, KeepsSessions, Keeping
<1> QED BY <1>1, <1>2, QuietStep DEF RegistryInv, TypeOK

LEMMA RestKnown ==
  /\ Known(Rest) /\ Rest.pc \notin HoldsManager
  /\ \A s : Known(RemoveSession(s)) /\ RemoveSession(s).pc \notin HoldsManager
  /\ \A K : Known(RemoveKeys(K)) /\ RemoveKeys(K).pc \notin HoldsManager
BY DEF Known, Rest, RemoveSession, RemoveKeys, HoldsManager

LEMMA RequestSteps ==
  ASSUME RegistryInv, NEW p \in Proc, Ask(p)
  PROVE  RegistryInv'
<1> USE DEF At
<1>t. /\ proc \in [Proc -> ProcRow]
      /\ cur \in [Cursor -> CurRow]
      /\ rec \in [Cursor -> {"none", "listed", "idle", "closed"}]
      /\ cached \subseteq Conn
  BY DEF RegistryInv, TypeOK
<1>1. ASSUME NEW k \in Key, Connect(p, k) PROVE RegistryInv'
  <2> DEFINE r == [Rest EXCEPT !.pc = "create", !.kind = "connect", !.key = k,
                               !.dsn = dsn[ConnOf[k]]]
  <2>1. Known(r) /\ r.pc = "create"
    BY DEF Known, Rest
  <2>2. KeepsSessions
    BY <1>1, SessionFrame DEF Connect
  <2> QED BY <1>1, <1>t, <2>1, <2>2, RequestTypes, QuietMove
          DEF Connect, HoldsManager
<1>2. ASSUME NEW s \in Session,
             NEW kind \in {"query", "cursor", "inspect", "disconnect"},
             GetSession(p, s, kind)
      PROVE  RegistryInv'
  <2> DEFINE r ==
        CASE kind = "query" -> [Rest EXCEPT !.pc = "query", !.sess = s]
          [] kind = "cursor" -> [Rest EXCEPT !.pc = "start", !.sess = s,
                                             !.kind = "cursor"]
          [] kind = "inspect" -> [Rest EXCEPT !.pc = "inspect", !.sess = s]
          [] kind = "disconnect" -> [RemoveSession(s) EXCEPT
                !.kind = "disconnect", !.conn = ConnOfSession(s)]
  <2>1. Known(r) /\ r.pc \notin HoldsManager
    BY DEF Known, Rest, RemoveSession, HoldsManager
  <2>2. KeepsSessions
    BY <1>2, SessionFrame
  <2> QED BY <1>2, <1>t, <2>1, <2>2, RequestTypes, QuietMove
          DEF GetSession, HoldsManager
<1>3. ASSUME NEW K \in Scope, Revoke(p, K) PROVE RegistryInv'
  <2>1. KeepsSessions
    BY <1>3, SessionFrame DEF Revoke
  <2> QED BY <1>3, <1>t, <2>1, RestKnown, RequestTypes, QuietMove
          DEF Revoke, HoldsManager
<1>4. ASSUME NEW d \in Conn, Rotate(p, d) PROVE RegistryInv'
  <2> DEFINE r == [Rest EXCEPT !.pc = "count", !.kind = "rotate", !.conn = d]
  <2>1. Known(r) /\ r.pc \notin HoldsManager
    BY DEF Known, Rest, HoldsManager
  <2>2. KeepsSessions
    BY <1>4, SessionFrame DEF Rotate
  <2> QED BY <1>4, <1>t, <2>1, <2>2, RequestTypes, QuietMove
          DEF Rotate, HoldsManager
<1>5. ASSUME NEW c \in Cursor, FetchCursor(p, c) PROVE RegistryInv'
  <2> DEFINE r == [Rest EXCEPT !.pc = "parent", !.kind = "fetch", !.cur = c,
                               !.sess = cur[c].sess]
  <2>1. Known(r) /\ r.pc \notin HoldsManager
    BY DEF Known, Rest, HoldsManager
  <2>2. KeepsSessions
    BY <1>5, SessionFrame DEF FetchCursor
  <2> QED BY <1>5, <1>t, <2>1, <2>2, CursorTypes, QuietMove
          DEF FetchCursor, HoldsManager
<1>6. ASSUME NEW c \in Cursor, CloseQueryCursor(p, c) PROVE RegistryInv'
  <2> DEFINE r == [Rest EXCEPT !.pc = "take", !.kind = "close", !.cur = c,
                               !.sess = cur[c].sess]
  <2>1. Known(r) /\ r.pc \notin HoldsManager
    BY DEF Known, Rest, HoldsManager
  <2>2. KeepsSessions
    BY <1>6, SessionFrame DEF CloseQueryCursor
  <2> QED BY <1>6, <1>t, <2>1, <2>2, CursorTypes, QuietMove
          DEF CloseQueryCursor, HoldsManager
<1> QED BY <1>1, <1>2, <1>3, <1>4, <1>5, <1>6 DEF Ask

\* A rotation writes the row of the connection.
LEMMA StoreSteps ==
  ASSUME RegistryInv, NEW p \in Proc, Update(p)
  PROVE  RegistryInv'
<1>1. KeepsSessions
  BY SessionFrame DEF Update
<1>2. proc'[p] = Rest /\ \A q \in Proc : q # p => proc'[q] = proc[q]
  BY Becomes DEF Update, RegistryInv, TypeOK
<1>3. RowKnown(p)'
  BY <1>2 DEF RowKnown, Known, Rest
<1>4. dsn' \in [Conn -> Nat]
  <2>1. \A d \in Conn : dsn[d] + 1 \in Nat
    BY DEF RegistryInv, TypeOK
  <2> QED BY <2>1 DEF Update, RegistryInv, TypeOK
<1>5. proc[p].pc \notin HoldsManager /\ proc'[p].pc \notin HoldsManager
  BY <1>2 DEF Update, At, Rest, HoldsManager
<1>6. UNCHANGED <<mu, byKey, byID, cur, rec, cached>>
  BY DEF Update
<1>7. proc' \in [Proc -> ProcRow]
  BY SimpleTypes
<1> QED BY <1>1, <1>2, <1>3, <1>4, <1>5, <1>6, <1>7, QuietStep
        DEF RegistryInv, TypeOK

\* Steps of a goroutine that does not hold Manager.mu and does not take it.
LEMMA SessionSteps ==
  ASSUME RegistryInv, NEW p \in Proc,
         \/ Query(p) \/ QueryReturns(p) \/ Inspect(p) \/ InspectReturns(p)
         \/ Hook(p) \/ Removed(p) \/ Recheck(p) \/ Count(p)
         \/ \E d \in Conn : Notify(p, d)
  PROVE  RegistryInv'
<1> USE DEF At, HoldsManager
<1>t. /\ proc \in [Proc -> ProcRow]
      /\ proc[p] \in ProcRow
      /\ cur \in [Cursor -> CurRow]
      /\ rec \in [Cursor -> {"none", "listed", "idle", "closed"}]
      /\ cached \subseteq Conn
      /\ Known(proc[p])
  BY DEF RegistryInv, TypeOK, RowKnown
<1>g. \A pc \in {"querying", "update", "recheck", "notify", "hook"} :
        LET r == [proc[p] EXCEPT !.pc = pc] IN Known(r) /\ r.pc = pc
  BY <1>t DEF Known, ProcRow
<1>1. CASE Query(p)
  BY <1>1, <1>t, <1>g, SessionFrame, SimpleTypes, QuietMove DEF Query, Goto
<1>2. CASE QueryReturns(p)
  BY <1>2, <1>t, RestKnown, SessionFrame, RequestTypes, QuietMove
     DEF QueryReturns
<1>3. CASE Inspect(p)
  <2> DEFINE r == [proc[p] EXCEPT !.pc = "inspecting"]
  <2>1. KeepsSessions
    BY <1>3, SessionFrame DEF Inspect
  <2>2. CASE Become(p, Rest)
    BY <1>3, <1>t, <2>1, <2>2, RestKnown, SimpleTypes, QuietMove DEF Inspect
  <2>3. CASE sess[proc[p].sess].open /\ Goto(p, "inspecting")
    <3>1. proc[p].sess \in Session
      BY <1>3, <1>t DEF Inspect, Known
    <3>2. sess[proc[p].sess].key \in Key
      BY <3>1, <2>3 DEF RegistryInv, RegistryCoherent
    <3>3. Known(r) /\ r.pc = "inspecting"
      BY <3>1, <3>2, <1>t DEF Known, ProcRow
    <3> QED BY <1>3, <1>t, <2>1, <2>3, <3>3, SimpleTypes, QuietMove
            DEF Inspect, Goto
  <2> QED BY <1>3, <2>2, <2>3 DEF Inspect
<1>4. CASE InspectReturns(p)
  <2>1. KeepsSessions
    BY <1>4, SessionFrame DEF InspectReturns
  <2>2. ConnOfSession(proc[p].sess) \in Conn
    BY <1>4, <1>t, SessionsAssumption DEF InspectReturns, Known, ConnOfSession
  <2> QED BY <1>4, <1>t, <2>1, <2>2, RestKnown, SimpleTypes, QuietMove
          DEF InspectReturns
<1>5. CASE Hook(p)
  <2> DEFINE r == [proc[p] EXCEPT !.pc = "notify", !.conns = @ \ {proc[p].conn}]
  <2>1. Known(r) /\ r.pc = "notify"
    BY <1>t DEF Known, ProcRow
  <2>2. KeepsSessions
    BY <1>5, SessionFrame DEF Hook
  <2> QED BY <1>5, <1>t, <2>1, <2>2, RemovalTypes, QuietMove DEF Hook
<1>6. CASE Removed(p)
  <2>1. KeepsSessions
    BY <1>6, SessionFrame DEF Removed
  <2> QED BY <1>6, <1>t, <1>g, <2>1, RestKnown, SimpleTypes, QuietMove
          DEF Removed, Goto
<1>7. CASE Recheck(p)
  <2>1. KeepsSessions
    BY <1>7, SessionFrame DEF Recheck
  <2> QED BY <1>7, <1>t, <2>1, RestKnown, SimpleTypes, QuietMove DEF Recheck
<1>8. CASE Count(p)
  <2> DEFINE r == [RemoveKeys(KeysOf(proc[p].conn)) EXCEPT
                     !.kind = "rotate", !.conn = proc[p].conn]
  <2>1. Known(r) /\ r.pc = "lock"
    BY DEF Known, RemoveKeys, Rest
  <2>2. KeepsSessions
    BY <1>8, SessionFrame DEF Count
  <2> QED BY <1>8, <1>t, <1>g, <2>1, <2>2, RestKnown, RequestTypes, QuietMove
          DEF Count, Goto
<1>9. ASSUME NEW d \in Conn, Notify(p, d) PROVE RegistryInv'
  <2> DEFINE r1 == [proc[p] EXCEPT !.conns = @ \ {d}]
             r2 == [proc[p] EXCEPT !.pc = "hook", !.conn = d]
  <2>1. /\ Known(r1) /\ r1.pc = proc[p].pc
        /\ Known(r2) /\ r2.pc = "hook"
    BY <1>t DEF Known, ProcRow
  <2>2. KeepsSessions
    BY <1>9, SessionFrame DEF Notify
  <2>3. proc' \in [Proc -> ProcRow]
    BY <1>9, RemovalTypes
  <2>4. Become(p, r1) \/ Become(p, r2)
    BY <1>9 DEF Notify
  <2> QED BY <1>9, <1>t, <2>1, <2>2, <2>3, <2>4, QuietMove DEF Notify
<1> QED BY <1>1, <1>2, <1>3, <1>4, <1>5, <1>6, <1>7, <1>8, <1>9

LEMMA CursorSteps ==
  ASSUME RegistryInv, NEW p \in Proc,
         \/ StartQuery(p) \/ StartFails(p) \/ Register(p) \/ Record(p)
         \/ Parent(p) \/ Touch(p) \/ Fetch(p) \/ Take(p) \/ CloseOne(p)
         \/ CursorsClosed(p) \/ ReapCursors
         \/ \E c \in Cursor : StartReturns(p, c) \/ Untrack(p, c)
         \/ \E open, ok, gone \in BOOLEAN : FetchReturns(p, open, ok, gone)
  PROVE  RegistryInv'
<1> USE DEF At, HoldsManager
<1>t. /\ proc \in [Proc -> ProcRow]
      /\ proc[p] \in ProcRow
      /\ cur \in [Cursor -> CurRow]
      /\ rec \in [Cursor -> {"none", "listed", "idle", "closed"}]
      /\ cached \subseteq Conn
      /\ Known(proc[p])
  BY DEF RegistryInv, TypeOK, RowKnown
<1>d. Known(Done(p)) /\ Done(p).pc \notin HoldsManager
  BY RestKnown DEF Done
<1>1. CASE StartQuery(p)
  <2>1. KeepsSessions
    BY <1>1, SessionFrame DEF StartQuery
  <2>2. LET r == [proc[p] EXCEPT !.pc = "starting"] IN Known(r) /\ r.pc = "starting"
    BY <1>1, <1>t DEF StartQuery, Known, ProcRow
  <2> QED BY <1>1, <1>t, <2>1, <2>2, RestKnown, SimpleTypes, QuietMove
          DEF StartQuery, Goto
<1>2. CASE StartFails(p)
  <2>1. KeepsSessions
    BY <1>2, SessionFrame DEF StartFails
  <2> QED BY <1>2, <1>t, <2>1, RestKnown, RequestTypes, QuietMove
          DEF StartFails
<1>3. CASE Register(p)
  <2>1. LET r == [proc[p] EXCEPT !.pc = "record"] IN Known(r) /\ r.pc = "record"
    BY <1>3, <1>t DEF Register, Known, ProcRow
  <2> QED BY <1>3, <1>t, <2>1, SessionFrame, SimpleTypes, QuietMove
          DEF Register, Goto
<1>4. CASE Record(p)
  <2>1. LET r == [proc[p] EXCEPT !.pc = "fetch"] IN Known(r) /\ r.pc = "fetch"
    BY <1>4, <1>t DEF Record, Known, ProcRow
  <2>2. KeepsSessions
    BY <1>4, SessionFrame DEF Record
  <2> QED BY <1>4, <1>t, <2>1, <2>2, SimpleTypes, QuietMove DEF Record, Goto
<1>5. CASE Parent(p)
  <2>1. \A pc \in {"touch", "take"} :
          LET r == [proc[p] EXCEPT !.pc = pc] IN Known(r) /\ r.pc = pc
    BY <1>5, <1>t DEF Parent, Known, ProcRow
  <2>2. KeepsSessions
    BY <1>5, SessionFrame
  <2> QED BY <1>5, <1>t, <2>1, <2>2, SimpleTypes, QuietMove DEF Parent, Goto
<1>6. CASE Touch(p)
  <2>1. \A pc \in {"fetch", "take"} :
          LET r == [proc[p] EXCEPT !.pc = pc] IN Known(r) /\ r.pc = pc
    BY <1>6, <1>t DEF Touch, Known, ProcRow
  <2>2. KeepsSessions
    BY <1>6, SessionFrame DEF Touch
  <2> QED BY <1>6, <1>t, <2>1, <2>2, SimpleTypes, QuietMove DEF Touch, Goto
<1>7. CASE Fetch(p)
  <2>1. LET r == [proc[p] EXCEPT !.pc = "fetching"] IN Known(r) /\ r.pc = "fetching"
    BY <1>7, <1>t DEF Fetch, Known, ProcRow
  <2>2. KeepsSessions
    BY <1>7, SessionFrame DEF Fetch
  <2>3. cur' \in [Cursor -> CurRow]
    BY <1>7, CursorLocks DEF Fetch
  <2> QED BY <1>7, <1>t, <2>1, <2>2, <2>3, SimpleTypes, QuietMove
          DEF Fetch, Goto
<1>8. CASE Take(p)
  <2> DEFINE r == [proc[p] EXCEPT !.pc = "untrack", !.handles = {proc[p].cur}]
  <2>1. Known(r) /\ r.pc = "untrack"
    BY <1>t DEF Known, ProcRow
  <2>2. KeepsSessions
    BY <1>8, SessionFrame DEF Take
  <2>3. Become(p, r) \/ Become(p, Done(p))
    BY <1>8 DEF Take
  <2>4. UNCHANGED <<mu, byKey, byID, dsn, cur, cached>>
    BY <1>8 DEF Take
  <2>5. rec' \in [Cursor -> {"none", "listed", "idle", "closed"}]
    BY <1>8, <1>t DEF Take
  <2>6. proc[p].pc = "take" /\ proc' \in [Proc -> ProcRow]
    BY <1>8, CursorTypes DEF Take
  <2> QED BY <1>d, <1>t, <2>1, <2>2, <2>3, <2>4, <2>5, <2>6, QuietMove
<1>9. CASE CloseOne(p)
  <2> DEFINE r == [proc[p] EXCEPT !.pc = "untrack", !.handles = @ \ {proc[p].cur}]
  <2>1. Known(r) /\ r.pc = "untrack"
    BY <1>t DEF Known, ProcRow
  <2>2. KeepsSessions
    BY <1>9, SessionFrame DEF CloseOne
  <2>3. cur' \in [Cursor -> CurRow]
    BY <1>9, CursorLocks DEF CloseOne
  <2> QED BY <1>9, <1>t, <2>1, <2>2, <2>3, CursorTypes, QuietMove DEF CloseOne
<1>10. CASE CursorsClosed(p)
  <2>1. KeepsSessions
    BY <1>10, SessionFrame DEF CursorsClosed
  <2> QED BY <1>10, <1>t, <1>d, <2>1, CursorTypes, QuietMove DEF CursorsClosed
<1>11. CASE ReapCursors
  <2> DEFINE r == [Rest EXCEPT !.pc = "untrack",
                               !.handles = {c \in Cursor : rec[c] = "idle"}]
  <2>1. Known(r) /\ r.pc = "untrack"
    BY DEF Known, Rest
  <2>2. KeepsSessions
    BY <1>11, SessionFrame DEF ReapCursors
  <2>3. rec' \in [Cursor -> {"none", "listed", "idle", "closed"}]
    BY <1>11, <1>t DEF ReapCursors
  <2>4. CursorReaper \in Proc
    BY DEF Proc
  <2> QED BY <1>11, <1>t, <2>1, <2>2, <2>3, <2>4, CursorTypes, QuietMove
          DEF ReapCursors
<1>12. ASSUME NEW c \in Cursor, StartReturns(p, c) PROVE RegistryInv'
  <2> DEFINE r == [proc[p] EXCEPT !.pc = "register", !.cur = c]
  <2>1. Known(r) /\ r.pc = "register"
    BY <1>12, <1>t DEF StartReturns, Known, ProcRow
  <2>2. KeepsSessions
    BY <1>12, SessionFrame DEF StartReturns
  <2>3. proc[p].sess \in Session
    BY <1>12, <1>t DEF StartReturns, Known
  <2>4. cur' \in [Cursor -> CurRow]
    BY <1>12, <2>3, CursorBegins DEF StartReturns
  <2> QED BY <1>12, <1>t, <2>1, <2>2, <2>4, CursorTypes, QuietMove
          DEF StartReturns
<1>13. ASSUME NEW c \in Cursor, Untrack(p, c) PROVE RegistryInv'
  <2> DEFINE r1 == [proc[p] EXCEPT !.pc = "closeone", !.cur = c]
             r2 == [proc[p] EXCEPT !.handles = @ \ {c}]
  <2>1. /\ Known(r1) /\ r1.pc = "closeone"
        /\ Known(r2) /\ r2.pc = proc[p].pc
    BY <1>t DEF Known, ProcRow
  <2>2. KeepsSessions
    BY <1>13, SessionFrame
  <2>3. Become(p, r1) \/ Become(p, r2)
    BY <1>13 DEF Untrack
  <2>4. proc' \in [Proc -> ProcRow]
    BY <1>13, CursorTypes
  <2> QED BY <1>13, <1>t, <2>1, <2>2, <2>3, <2>4, QuietMove DEF Untrack
<1>14. ASSUME NEW open \in BOOLEAN, NEW ok \in BOOLEAN, NEW gone \in BOOLEAN,
              FetchReturns(p, open, ok, gone)
       PROVE  RegistryInv'
  <2> DEFINE r == [proc[p] EXCEPT !.pc = "take", !.gone = gone]
  <2>1. Known(r) /\ r.pc = "take"
    BY <1>14, <1>t DEF FetchReturns, Known, ProcRow
  <2>2. KeepsSessions
    BY <1>14, SessionFrame DEF FetchReturns
  <2>3. Become(p, Rest) \/ Become(p, r)
    BY <1>14 DEF FetchReturns
  <2>4. cur' \in [Cursor -> CurRow]
    BY <1>14, CursorLocks DEF FetchReturns
  <2>5. proc' \in [Proc -> ProcRow]
    BY <1>14, CursorTypes
  <2> QED BY <1>14, <1>t, <2>1, <2>2, <2>3, <2>4, <2>5, RestKnown, QuietMove
          DEF FetchReturns
<1> QED BY <1>1, <1>2, <1>3, <1>4, <1>5, <1>6, <1>7, <1>8, <1>9, <1>10, <1>11,
           <1>12, <1>13, <1>14

\* A step that takes Manager.mu or gives it back, and one made under it.
LEMMA MuStep ==
  ASSUME RegistryInv, NEW p \in Proc, NEW r, Become(p, r),
         proc' \in [Proc -> ProcRow],
         \/ mu = NoProc /\ mu' = p /\ r.pc \in HoldsManager
         \/ mu = p /\ mu' = NoProc /\ r.pc \notin HoldsManager
         \/ mu = p /\ mu' = p /\ r.pc \in HoldsManager
  PROVE  \A q \in Proc : mu' = q <=> proc'[q].pc \in HoldsManager
<1>1. proc'[p] = r /\ \A q \in Proc : q # p => proc'[q] = proc[q]
  BY Becomes DEF RegistryInv, TypeOK
<1>2. ASSUME NEW q \in Proc
      PROVE  mu' = q <=> proc'[q].pc \in HoldsManager
  <2>1. q # NoProc /\ p # NoProc
    BY SessionsAssumption DEF Proc
  <2>2. mu = q <=> proc[q].pc \in HoldsManager
    BY DEF RegistryInv, TypeOK
  <2>3. CASE q = p
    BY <1>1, <2>1, <2>3
  <2>4. CASE q # p
    <3>1. proc'[q] = proc[q] /\ mu # q /\ mu' # q
      BY <1>1, <2>1, <2>4
    <3> QED BY <2>2, <3>1
  <2> QED BY <2>3, <2>4
<1> QED BY <1>2

\* Such a step that leaves the indexes alone.
LEMMA MuMove ==
  ASSUME RegistryInv, NEW p \in Proc, NEW r, Become(p, r),
         proc' \in [Proc -> ProcRow],
         \/ mu = NoProc /\ mu' = p /\ r.pc \in HoldsManager
         \/ mu = p /\ mu' = NoProc /\ r.pc \notin HoldsManager
         \/ mu = p /\ mu' = p /\ r.pc \in HoldsManager,
         UNCHANGED <<byKey, byID, rec, dsn, cached>>, KeepsSessions,
         cur' \in [Cursor -> CurRow],
         Known(r)
  PROVE  RegistryInv'
<1>1. proc'[p] = r /\ \A q \in Proc : q # p => proc'[q] = proc[q]
  BY Becomes DEF RegistryInv, TypeOK
<1>2. TypeOK'
  <2>1. \A q \in Proc : mu' = q <=> proc'[q].pc \in HoldsManager
    BY MuStep
  <2> QED BY <2>1 DEF RegistryInv, TypeOK, KeepsSessions, Keeping
<1>3. RegistryCoherent'
  BY DEF RegistryInv, RegistryCoherent, TypeOK, KeepsSessions, Keeping
<1>4. ASSUME NEW q \in Proc PROVE RowKnown(q)'
  <2>1. CASE q = p
    BY <1>1, <2>1 DEF RowKnown, Known, KeepsSessions, Keeping
  <2>2. CASE q # p
    BY <1>1, <2>2, OthersKnown DEF KeepsSessions, Keeping
  <2> QED BY <2>1, <2>2
<1> QED BY <1>2, <1>3, <1>4 DEF RegistryInv

LEMMA LockSteps ==
  ASSUME RegistryInv, NEW p \in Proc,
         \/ Create(p) \/ OpenFails(p) \/ LockManager(p) \/ Drain(p) \/ Unlock(p)
         \/ \E s \in Session : PickSession(p, s)
         \/ \E c \in Cursor : CloseHandle(p, c)
  PROVE  RegistryInv'
<1> USE DEF At, HoldsManager
<1>t. /\ proc \in [Proc -> ProcRow]
      /\ proc[p] \in ProcRow
      /\ cur \in [Cursor -> CurRow]
      /\ rec \in [Cursor -> {"none", "listed", "idle", "closed"}]
      /\ cached \subseteq Conn
      /\ Known(proc[p])
      /\ mu = p <=> proc[p].pc \in HoldsManager
  BY DEF RegistryInv, TypeOK, RowKnown
<1>1. CASE Create(p)
  <2>1. KeepsSessions
    BY <1>1, SessionFrame
  <2>2. proc' \in [Proc -> ProcRow]
    BY <1>1, SimpleTypes
  <2>3. CASE Become(p, Rest) /\ mu' = mu
    BY <1>1, <1>t, <2>1, <2>2, <2>3, RestKnown, QuietMove DEF Create
  <2>4. CASE /\ byKey[proc[p].key] = NoSession
             /\ Goto(p, "opening") /\ mu' = p
    <3>1. LET r == [proc[p] EXCEPT !.pc = "opening"]
          IN  Known(r) /\ r.pc = "opening"
      BY <1>1, <2>4, <1>t DEF Create, Known, ProcRow
    <3> QED BY <1>1, <1>t, <2>1, <2>2, <2>4, <3>1, MuMove DEF Create, Goto
  <2> QED BY <1>1, <2>3, <2>4 DEF Create
<1>2. CASE OpenFails(p)
  <2>1. KeepsSessions
    BY <1>2, SessionFrame DEF OpenFails
  <2> QED BY <1>2, <1>t, <2>1, RestKnown, SimpleTypes, MuMove DEF OpenFails
<1>3. CASE LockManager(p)
  <2> DEFINE r == [proc[p] EXCEPT !.pc = "pick", !.keys = {}, !.sess = NoSession,
       !.todo = {s \in byID : /\ sess[s].key \in proc[p].keys
                              /\ proc[p].sess \in {NoSession, s}}]
  <2>1. Known(r) /\ r.pc = "pick"
    BY <1>t DEF Known, ProcRow
  <2>2. KeepsSessions
    BY <1>3, SessionFrame DEF LockManager
  <2> QED BY <1>3, <1>t, <2>1, <2>2, RemovalTypes, MuMove DEF LockManager
<1>4. CASE Drain(p)
  <2> DEFINE r == [proc[p] EXCEPT !.pc = "closing",
                                  !.handles = sess[proc[p].sess].cursors]
  <2>1. Known(r) /\ r.pc = "closing"
    BY <1>4, <1>t DEF Drain, Known, ProcRow
  <2>2. KeepsSessions
    BY <1>4, SessionFrame
  <2> QED BY <1>4, <1>t, <2>1, <2>2, RemovalTypes, MuMove DEF Drain
<1>5. CASE Unlock(p)
  <2>1. LET r == [proc[p] EXCEPT !.pc = "notify"] IN Known(r) /\ r.pc = "notify"
    BY <1>t DEF Known, ProcRow
  <2>2. KeepsSessions
    BY <1>5, SessionFrame DEF Unlock
  <2> QED BY <1>5, <1>t, <2>1, <2>2, SimpleTypes, MuMove DEF Unlock, Goto
<1>6. ASSUME NEW s \in Session, PickSession(p, s) PROVE RegistryInv'
  <2> DEFINE r1 == [proc[p] EXCEPT !.todo = @ \ {s}]
             r2 == [proc[p] EXCEPT !.pc = "drain", !.sess = s]
  <2>1. Known(r1) /\ r1.pc = "pick"
    BY <1>6, <1>t DEF PickSession, Known, ProcRow
  <2>2. Known(r2) /\ r2.pc = "drain"
    BY <1>6, <1>t DEF PickSession, Known, ProcRow
  <2>3. KeepsSessions
    BY <1>6, SessionFrame DEF PickSession
  <2>4. Become(p, r1) \/ Become(p, r2)
    BY <1>6 DEF PickSession
  <2>5. proc' \in [Proc -> ProcRow]
    BY <1>6, RemovalTypes
  <2> QED BY <1>6, <1>t, <2>1, <2>2, <2>3, <2>4, <2>5, MuMove DEF PickSession
<1>7. ASSUME NEW c \in Cursor, CloseHandle(p, c) PROVE RegistryInv'
  <2> DEFINE r == [proc[p] EXCEPT !.handles = @ \ {c}]
  <2>1. Known(r) /\ r.pc = "closing"
    BY <1>7, <1>t DEF CloseHandle, Known, ProcRow
  <2>2. KeepsSessions
    BY <1>7, SessionFrame DEF CloseHandle
  <2>3. cur' \in [Cursor -> CurRow]
    BY <1>7, CursorLocks DEF CloseHandle
  <2> QED BY <1>7, <1>t, <2>1, <2>2, <2>3, RemovalTypes, MuMove DEF CloseHandle
<1> QED BY <1>1, <1>2, <1>3, <1>4, <1>5, <1>6, <1>7

\* A driver was opened for a key that is still free.
LEMMA OpenedStep ==
  ASSUME RegistryInv, NEW p \in Proc, NEW s \in Session, Opened(p, s)
  PROVE  RegistryInv'
<1> DEFINE k == proc[p].key
<1>1. /\ proc[p] \in ProcRow /\ k \in Key /\ byKey[k] = NoSession
      /\ mu = p /\ s \notin byID /\ sess[s].key = NoKey
  <2>1. k \in Key /\ byKey[k] = NoSession /\ mu = p
    BY DEF Opened, At, RegistryInv, TypeOK, RowKnown, Known, HoldsManager
  <2>2. s \notin byID
    BY SessionsAssumption DEF Opened, RegistryInv, RegistryCoherent
  <2> QED BY <2>1, <2>2 DEF Opened, RegistryInv, TypeOK
<1>2. proc'[p] = Rest /\ \A q \in Proc : q # p => proc'[q] = proc[q]
  BY Becomes DEF Opened, RegistryInv, TypeOK
<1>3. /\ sess' \in [Session -> SessRow]
      /\ sess'[s].key = k /\ sess'[s].open = TRUE
      /\ \A t \in Session : t # s => sess'[t] = sess[t]
  <2>1. ASSUME NEW r \in SessRow, NEW n \in Nat
        PROVE  [r EXCEPT !.key = k, !.dsn = n, !.open = TRUE] \in SessRow
    BY <1>1 DEF SessRow
  <2>2. sess' = [sess EXCEPT ![s] =
                   [sess[s] EXCEPT !.key = k, !.dsn = proc[p].dsn, !.open = TRUE]]
    BY DEF Opened, RegistryInv, TypeOK, SessRow
  <2>3. sess[s] \in SessRow /\ proc[p].dsn \in Nat
    BY <1>1 DEF RegistryInv, TypeOK, ProcRow
  <2>4. [sess[s] EXCEPT !.key = k, !.dsn = proc[p].dsn, !.open = TRUE] \in SessRow
    BY <2>1, <2>3
  <2>5. sess'[s] = [sess[s] EXCEPT !.key = k, !.dsn = proc[p].dsn, !.open = TRUE]
    BY <2>2 DEF RegistryInv, TypeOK
  <2>6. sess'[s].key = k /\ sess'[s].open = TRUE
    BY <2>3, <2>5 DEF SessRow
  <2> QED BY <2>2, <2>4, <2>6 DEF RegistryInv, TypeOK
<1>4. TypeOK'
  <2>1. \A q \in Proc : mu' = q <=> proc'[q].pc \in HoldsManager
    BY <1>1, MuStep, RestKnown, SimpleTypes DEF Opened
  <2>2. proc' \in [Proc -> ProcRow]
    BY SimpleTypes
  <2>3. byKey' \in [Key -> Session \cup {NoSession}] /\ byID' \subseteq Session
    BY DEF Opened, RegistryInv, TypeOK
  <2>4. mu' \in Proc \cup {NoProc} /\ UNCHANGED <<cur, rec, dsn, cached>>
    BY DEF Opened
  <2> QED BY <1>3, <2>1, <2>2, <2>3, <2>4 DEF RegistryInv, TypeOK
<1>5. RegistryCoherent'
  <2>1. /\ byKey'[k] = s /\ byID' = byID \cup {s}
        /\ \A l \in Key : l # k => byKey'[l] = byKey[l]
    BY <1>1 DEF Opened, RegistryInv, TypeOK
  <2> QED BY <1>1, <1>3, <2>1, SessionsAssumption
          DEF RegistryInv, RegistryCoherent, TypeOK
<1>6. ASSUME NEW q \in Proc PROVE RowKnown(q)'
  <2>1. CASE q = p
    BY <1>2, <2>1 DEF RowKnown, Known, Rest
  <2>2. CASE q # p
    BY <1>1, <1>2, <1>3, <2>2, OthersKnown, SessionsAssumption
  <2> QED BY <2>1, <2>2
<1> QED BY <1>4, <1>5, <1>6 DEF RegistryInv

\* A session leaves both indexes with its driver.
LEMMA CloseSessionStep ==
  ASSUME RegistryInv, NEW p \in Proc, CloseSession(p)
  PROVE  RegistryInv'
<1> DEFINE s == proc[p].sess
           r == [proc[p] EXCEPT !.pc = "pick", !.sess = NoSession,
                   !.todo = @ \ {s}, !.conns = @ \cup {ConnOfSession(s)}]
<1>1. /\ proc[p] \in ProcRow /\ mu = p
      /\ proc[p].todo \subseteq byID /\ s \in byID
  BY DEF CloseSession, At, RegistryInv, TypeOK, RowKnown, Known, HoldsManager
<1>2. proc'[p] = r /\ \A q \in Proc : q # p => proc'[q] = proc[q]
  BY Becomes DEF CloseSession, RegistryInv, TypeOK
<1>3. r.pc = "pick" /\ r.todo = proc[p].todo \ {s}
  BY <1>1 DEF ProcRow
<1>4. /\ sess' \in [Session -> SessRow]
      /\ sess'[s].open = FALSE
      /\ \A t \in Session : sess'[t].key = sess[t].key
      /\ \A t \in Session : t # s => sess'[t] = sess[t]
  <2>1. ASSUME NEW x \in SessRow
        PROVE  [x EXCEPT !.open = FALSE] \in SessRow
    BY DEF SessRow
  <2>2. s \in Session /\ sess[s] \in SessRow
    BY <1>1 DEF RegistryInv, TypeOK
  <2>3. sess'[s] = [sess[s] EXCEPT !.open = FALSE]
    BY <2>2 DEF CloseSession, RegistryInv, TypeOK
  <2>4. sess'[s].open = FALSE /\ sess'[s].key = sess[s].key
    BY <2>2, <2>3 DEF SessRow
  <2>5. \A t \in Session : t # s => sess'[t] = sess[t]
    BY DEF CloseSession, RegistryInv, TypeOK
  <2>6. sess' \in [Session -> SessRow]
    BY <2>1 DEF CloseSession, RegistryInv, TypeOK
  <2> QED BY <2>4, <2>5, <2>6
<1>5. byID' = byID \ {s}
  BY DEF CloseSession
<1>6. TypeOK'
  <2>1. \A q \in Proc : mu' = q <=> proc'[q].pc \in HoldsManager
    <3>1. proc' \in [Proc -> ProcRow]
      BY RemovalTypes
    <3> QED BY <1>1, <1>3, <3>1, MuStep DEF CloseSession, HoldsManager
  <2>2. proc' \in [Proc -> ProcRow]
    BY RemovalTypes
  <2>3. byKey' \in [Key -> Session \cup {NoSession}] /\ byID' \subseteq Session
    BY DEF CloseSession, RegistryInv, TypeOK
  <2>4. UNCHANGED <<mu, cur, rec, dsn, cached>>
    BY DEF CloseSession
  <2> QED BY <1>4, <2>1, <2>2, <2>3, <2>4 DEF RegistryInv, TypeOK
<1>7. RegistryCoherent'
  <2>1. sess[s].key \in Key /\ byKey[sess[s].key] = s
    BY <1>1 DEF RegistryInv, RegistryCoherent
  <2>2. /\ byKey'[sess[s].key] = NoSession
        /\ \A l \in Key : l # sess[s].key => byKey'[l] = byKey[l]
    BY <2>1 DEF CloseSession, RegistryInv, TypeOK
  <2> QED BY <1>4, <1>5, <2>1, <2>2, SessionsAssumption
          DEF RegistryInv, RegistryCoherent, TypeOK
<1>8. ASSUME NEW q \in Proc PROVE RowKnown(q)'
  <2>1. CASE q = p
    BY <1>1, <1>2, <1>3, <1>5, <2>1 DEF RowKnown, Known
  <2>2. CASE q # p
    BY <1>1, <1>2, <1>4, <2>2, OthersKnown
  <2> QED BY <2>1, <2>2
<1> QED BY <1>6, <1>7, <1>8 DEF RegistryInv

\* The reaper's ticker and the passing of time.
LEMMA TimeSteps ==
  ASSUME RegistryInv,
         \/ ReapTick
         \/ \E s \in Session : SessionIdles(s)
         \/ \E c \in Cursor : CursorIdles(c)
         \/ \E d \in Conn : CacheExpires(d)
  PROVE  RegistryInv'
<1>p. Reaper \in Proc
  BY DEF Proc
<1>t. /\ proc \in [Proc -> ProcRow]
      /\ cur \in [Cursor -> CurRow]
      /\ rec \in [Cursor -> {"none", "listed", "idle", "closed"}]
      /\ cached \subseteq Conn
      /\ dsn \in [Conn -> Nat]
      /\ RowKnown(Reaper)
  BY <1>p DEF RegistryInv, TypeOK
<1>1. CASE ReapTick
  <2> DEFINE r == [RemoveKeys(Key) EXCEPT !.kind = "reap"]
  <2>1. Known(r) /\ r.pc = "lock"
    BY DEF Known, RemoveKeys, Rest
  <2>2. KeepsSessions
    BY <1>1, <1>p, SessionFrame DEF ReapTick
  <2> QED BY <1>1, <1>p, <1>t, <2>1, <2>2, RequestTypes, QuietMove
          DEF ReapTick, At, HoldsManager
<1>2. CASE \E s \in Session : SessionIdles(s)
  <2>1. KeepsSessions
    BY <1>2, <1>p, SessionFrame
  <2>2. UNCHANGED <<mu, byKey, byID, cur, rec, dsn, cached, proc>>
    BY <1>2 DEF SessionIdles
  <2>3. RowKnown(Reaper)'
    BY <1>t, <2>1, <2>2 DEF RowKnown, Known, KeepsSessions, Keeping
  <2> QED BY <1>p, <1>t, <2>1, <2>2, <2>3, QuietStep
<1>3. CASE \/ \E c \in Cursor : CursorIdles(c)
           \/ \E d \in Conn : CacheExpires(d)
  <2>1. UNCHANGED <<mu, byKey, byID, sess, cur, dsn, proc>>
    BY <1>3 DEF CursorIdles, CacheExpires
  <2>2. rec' \in [Cursor -> {"none", "listed", "idle", "closed"}]
    BY <1>3, <1>t DEF CursorIdles, CacheExpires
  <2>3. cached' \subseteq Conn
    BY <1>3, <1>t DEF CursorIdles, CacheExpires
  <2>4. KeepsSessions
    BY <1>p, <2>1, SessionFrame
  <2>5. RowKnown(Reaper)'
    BY <1>t, <2>1 DEF RowKnown, Known
  <2> QED BY <1>p, <1>t, <2>1, <2>2, <2>3, <2>4, <2>5, QuietStep
<1> QED BY <1>1, <1>2, <1>3

LEMMA RegistryStep == RegistryInv /\ [Next]_vars => RegistryInv'
<1> SUFFICES ASSUME RegistryInv, [Next]_vars PROVE RegistryInv'
  OBVIOUS
<1>1. ASSUME NEW p \in Request, Ask(p) PROVE RegistryInv'
  BY <1>1, RequestSteps DEF Proc
<1>2. ASSUME NEW p \in Proc, Step(p) PROVE RegistryInv'
  BY <1>2, StoreSteps, SessionSteps, CursorSteps, LockSteps, OpenedStep,
     CloseSessionStep DEF Step
<1>3. CASE ReapCursors
  BY <1>3, CursorSteps DEF Proc
<1>4. CASE \/ ReapTick
           \/ \E s \in Session : SessionIdles(s)
           \/ \E c \in Cursor : CursorIdles(c)
           \/ \E d \in Conn : CacheExpires(d)
  BY <1>4, TimeSteps
<1>5. CASE UNCHANGED vars
  BY <1>5 DEF vars, RegistryInv, TypeOK, RegistryCoherent, RowKnown, Known
<1> QED BY <1>1, <1>2, <1>3, <1>4, <1>5 DEF Next

\* The variables keep their types, and Manager.mu is held exactly by the
\* goroutine between its Lock and Unlock, for any number of requests.
THEOREM TypeCorrect == Spec => []TypeOK
<1>1. Init => RegistryInv
  BY RegistryInit
<1>2. RegistryInv /\ [Next]_vars => RegistryInv'
  BY RegistryStep
<1>3. RegistryInv => TypeOK
  BY DEF RegistryInv
<1> QED BY <1>1, <1>2, <1>3, PTL DEF Spec

\* Manager.byKey and Manager.byID agree and hold exactly the sessions whose
\* driver is open, however opens, removals and the reaper interleave.
THEOREM RegistrySafe == Spec => []RegistryCoherent
<1>1. Init => RegistryInv
  BY RegistryInit
<1>2. RegistryInv /\ [Next]_vars => RegistryInv'
  BY RegistryStep
<1>3. RegistryInv => RegistryCoherent
  BY DEF RegistryInv
<1> QED BY <1>1, <1>2, <1>3, PTL DEF Spec

-----------------------------------------------------------------------------
(* Open cursors.  An open cursor is about to be tracked by its session, or *)
(* it is being closed, or its session tracks it: and then it is listed or  *)
(* about to be, or somebody who took it off the list is about to untrack   *)
(* it.  CursorsAccounted alone is not inductive: it allows an open cursor  *)
(* which only the session tracks, or which a goroutine that is about to    *)
(* untrack it would not find there and so would never close.               *)

Tending == {"register", "record", "closing", "untrack", "closeone"}

Starting(c) ==
  \E p \in Proc : proc[p].pc = "register" /\ proc[p].cur = c
Closing(c) ==
  \E p \in Proc : /\ c \in proc[p].handles
                  /\ \/ proc[p].pc = "closing"
                     \/ proc[p].pc = "closeone" /\ proc[p].cur = c
Recording(c) ==
  \E p \in Proc : proc[p].pc = "record" /\ proc[p].cur = c
Untracking(c) ==
  \E p \in Proc : /\ c \in proc[p].handles
                  /\ proc[p].pc \in {"untrack", "closeone"}
Tracked(c) == c \in sess[cur[c].sess].cursors

Tended(c) ==
  /\ cur[c].sess \in Session
  /\ \/ Starting(c)
     \/ Closing(c)
     \/ Tracked(c) /\ (Recording(c) \/ rec[c] \in {"listed", "idle"} \/ Untracking(c))

Parented(r) == r.pc = "register" => cur[r.cur].sess = r.sess

CursorInv ==
  /\ RegistryInv
  /\ \A p \in Proc : Parented(proc[p])
  /\ \A c \in Cursor : cur[c].open => Tended(c)

LEMMA TendedAccounted == CursorInv => CursorsAccounted
BY DEF CursorInv, CursorsAccounted, Tended, Starting, Closing, Recording,
       Untracking, InHands

\* What a step leaves alone when it is not one of those that hand cursors on.
KeepsCursors == \A s \in Session : sess'[s].cursors = sess[s].cursors

Steady(p) ==
  /\ \/ proc'[p] = proc[p]
     \/ proc[p].pc \notin Tending /\ proc'[p].pc # "register"
  /\ \A q \in Proc : q # p => proc'[q] = proc[q]
  /\ \A c \in Cursor : /\ cur'[c].open => cur[c].open
                       /\ cur'[c].sess = cur[c].sess
                       /\ rec[c] \in {"listed", "idle"} => rec'[c] \in {"listed", "idle"}
  /\ KeepsCursors

LEMMA SteadyStep ==
  ASSUME CursorInv, RegistryInv', NEW p \in Proc, Steady(p)
  PROVE  CursorInv'
<1>1. ASSUME NEW q \in Proc PROVE Parented(proc[q])'
  <2>1. CASE proc'[q].pc # "register"
    BY <2>1 DEF Parented
  <2>2. CASE proc'[q].pc = "register"
    <3>1. proc'[q] = proc[q] /\ Parented(proc[q])
      BY <2>2 DEF Steady, CursorInv
    <3>2. proc[q].pc = "register" => proc[q].cur \in Cursor
      BY DEF CursorInv, RegistryInv, RowKnown, Known
    <3> QED BY <3>1, <3>2 DEF Steady, Parented
  <2> QED BY <2>1, <2>2
<1>2. ASSUME NEW c \in Cursor, cur'[c].open PROVE Tended(c)'
  <2>1. Tended(c) /\ cur'[c].sess = cur[c].sess
    BY <1>2 DEF Steady, CursorInv
  <2>2. \A q \in Proc : proc[q].pc \in Tending => proc'[q] = proc[q]
    BY DEF Steady
  <2>3. CASE Starting(c)
    BY <2>1, <2>2, <2>3 DEF Tended, Starting, Tending
  <2>4. CASE Closing(c)
    BY <2>1, <2>2, <2>4 DEF Tended, Closing, Tending
  <2>5. CASE /\ Tracked(c)
             /\ Recording(c) \/ rec[c] \in {"listed", "idle"} \/ Untracking(c)
    <3>1. Tracked(c)'
      BY <2>1, <2>5 DEF Tended, Tracked, Steady, KeepsCursors
    <3>2. Recording(c) => Recording(c)'
      BY <2>2 DEF Recording, Tending
    <3>3. Untracking(c) => Untracking(c)'
      BY <2>2 DEF Untracking, Tending
    <3>4. rec[c] \in {"listed", "idle"} => rec'[c] \in {"listed", "idle"}
      BY DEF Steady
    <3> QED BY <2>1, <2>5, <3>1, <3>2, <3>3, <3>4 DEF Tended
  <2> QED BY <2>1, <2>3, <2>4, <2>5 DEF Tended
<1> QED BY <1>1, <1>2 DEF CursorInv

LEMMA CursorInit == Init => CursorInv
BY RegistryInit DEF Init, CursorInv, Parented, Rest

LEMMA CursorsKept ==
  ASSUME RegistryInv, NEW p \in Proc,
         \/ Create(p) \/ Query(p) \/ QueryReturns(p) \/ Parent(p)
         \/ CloseSession(p)
         \/ \E s \in Session : Opened(p, s)
         \/ \E s \in Session,
               kind \in {"query", "cursor", "inspect", "disconnect"} :
              GetSession(p, s, kind)
         \/ \E s \in Session : SessionIdles(s)
         \/ UNCHANGED sess
  PROVE  KeepsCursors
<1>t. sess \in [Session -> SessRow]
  BY DEF RegistryInv, TypeOK
<1>f. ASSUME NEW f \in [Session -> SessRow], NEW s, NEW t \in Session
      PROVE  /\ \A b : [f EXCEPT ![s].idle = b][t].cursors = f[t].cursors
             /\ \A b : [f EXCEPT ![s].open = b][t].cursors = f[t].cursors
             /\ \A o : [f EXCEPT ![s].lock = o][t].cursors = f[t].cursors
  BY DEF SessRow
<1>u. \A s : Used(s) \in [Session -> SessRow]
  BY KeepingUsed DEF Keeping
<1>v. ASSUME NEW s, NEW t \in Session
      PROVE  Used(s)[t].cursors = sess[t].cursors
  BY <1>t, <1>f DEF Used
<1> USE <1>t, <1>f, <1>u, <1>v DEF KeepsCursors
<1>1. CASE Create(p)
  BY <1>1 DEF Create
<1>2. CASE Query(p)
  BY <1>2 DEF Query
<1>3. CASE QueryReturns(p)
  BY <1>3 DEF QueryReturns
<1>4. CASE Parent(p)
  BY <1>4 DEF Parent
<1>5. CASE CloseSession(p)
  BY <1>5 DEF CloseSession
<1>6. ASSUME NEW s \in Session, Opened(p, s) PROVE KeepsCursors
  <2>1. \A t \in Session : t # s => sess'[t] = sess[t]
    BY <1>6 DEF Opened
  <2>2. ASSUME NEW r \in SessRow, NEW k, NEW n
        PROVE  [r EXCEPT !.key = k, !.dsn = n, !.open = TRUE].cursors = r.cursors
    BY DEF SessRow
  <2>3. sess'[s] = [sess[s] EXCEPT !.key = proc[p].key, !.dsn = proc[p].dsn,
                                   !.open = TRUE]
    BY <1>6 DEF Opened, SessRow
  <2>4. sess[s] \in SessRow
    OBVIOUS
  <2>5. sess'[s].cursors = sess[s].cursors
    BY <2>2, <2>3, <2>4
  <2> QED BY <2>1, <2>5
<1>7. ASSUME NEW s \in Session,
             NEW kind \in {"query", "cursor", "inspect", "disconnect"},
             GetSession(p, s, kind)
      PROVE  KeepsCursors
  <2>1. sess' = Used(s)
    BY <1>7 DEF GetSession
  <2> QED BY <2>1
<1>8. CASE \E s \in Session : SessionIdles(s)
  BY <1>8 DEF SessionIdles
<1>9. CASE UNCHANGED sess
  BY <1>9
<1> QED BY <1>1, <1>2, <1>3, <1>4, <1>5, <1>6, <1>7, <1>8, <1>9

LEMMA SteadyMove ==
  ASSUME CursorInv, RegistryInv', NEW p \in Proc, NEW r, Become(p, r),
         proc[p].pc \notin Tending, r.pc # "register",
         UNCHANGED <<cur, rec>>, KeepsCursors
  PROVE  CursorInv'
<1>1. proc'[p] = r /\ \A q \in Proc : q # p => proc'[q] = proc[q]
  BY Becomes DEF CursorInv, RegistryInv, TypeOK
<1> QED BY <1>1, SteadyStep DEF Steady

LEMMA RowPcs ==
  /\ Rest.pc = "idle"
  /\ \A s : RemoveSession(s).pc = "lock"
  /\ \A K : RemoveKeys(K).pc = "lock"
BY DEF Rest, RemoveSession, RemoveKeys

\* Requests and removals that do not touch a cursor.
LEMMA PlainCursorSteps ==
  ASSUME CursorInv, RegistryInv', NEW p \in Proc,
         \/ Ask(p)
         \/ Create(p) \/ OpenFails(p) \/ Query(p) \/ QueryReturns(p)
         \/ Inspect(p) \/ InspectReturns(p) \/ LockManager(p) \/ Unlock(p)
         \/ Hook(p) \/ Removed(p) \/ Recheck(p) \/ Count(p) \/ Update(p)
         \/ StartQuery(p) \/ StartFails(p) \/ Parent(p)
         \/ \E s \in Session : Opened(p, s) \/ PickSession(p, s)
         \/ \E d \in Conn : Notify(p, d)
         \/ p = Reaper /\ ReapTick
  PROVE  CursorInv'
<1>t. proc[p] \in ProcRow /\ RegistryInv
  BY DEF CursorInv, RegistryInv, TypeOK
<1>g. \A pc : [proc[p] EXCEPT !.pc = pc].pc = pc
  BY <1>t DEF ProcRow
<1> USE DEF At, Tending
<1>1. CASE Ask(p)
  <2>1. /\ KeepsCursors /\ UNCHANGED <<cur, rec>> /\ proc[p].pc = "idle"
    BY <1>1, <1>t, CursorsKept DEF Ask, Connect, GetSession, Revoke, Rotate,
       FetchCursor, CloseQueryCursor
  <2>2. \E r : Become(p, r) /\ r.pc # "register"
    <3>1. ASSUME NEW s \in Session,
                 NEW kind \in {"query", "cursor", "inspect", "disconnect"},
                 GetSession(p, s, kind)
          PROVE  \E r : Become(p, r) /\ r.pc # "register"
      <4> DEFINE q == [Rest EXCEPT !.pc = "query", !.sess = s]
                 c == [Rest EXCEPT !.pc = "start", !.sess = s, !.kind = "cursor"]
                 i == [Rest EXCEPT !.pc = "inspect", !.sess = s]
                 d == [RemoveSession(s) EXCEPT !.kind = "disconnect",
                                               !.conn = ConnOfSession(s)]
      <4>1. /\ q.pc # "register" /\ c.pc # "register"
            /\ i.pc # "register" /\ d.pc # "register"
        BY DEF Rest, RemoveSession
      <4>2. Become(p, q) \/ Become(p, c) \/ Become(p, i) \/ Become(p, d)
        BY <3>1 DEF GetSession
      <4> QED BY <4>1, <4>2
    <3>2. ASSUME NEW k \in Key, Connect(p, k)
          PROVE  \E r : Become(p, r) /\ r.pc # "register"
      <4>1. [Rest EXCEPT !.pc = "create", !.kind = "connect", !.key = k,
                         !.dsn = dsn[ConnOf[k]]].pc = "create"
        BY DEF Rest
      <4> QED BY <3>2, <4>1 DEF Connect
    <3>3. ASSUME NEW K \in Scope, Revoke(p, K)
          PROVE  \E r : Become(p, r) /\ r.pc # "register"
      BY <3>3, RowPcs DEF Revoke
    <3>4. ASSUME NEW d \in Conn, Rotate(p, d)
          PROVE  \E r : Become(p, r) /\ r.pc # "register"
      <4>1. [Rest EXCEPT !.pc = "count", !.kind = "rotate", !.conn = d].pc = "count"
        BY DEF Rest
      <4> QED BY <3>4, <4>1 DEF Rotate
    <3>5. ASSUME NEW c \in Cursor, FetchCursor(p, c) \/ CloseQueryCursor(p, c)
          PROVE  \E r : Become(p, r) /\ r.pc # "register"
      <4>1. /\ [Rest EXCEPT !.pc = "parent", !.kind = "fetch", !.cur = c,
                            !.sess = cur[c].sess].pc = "parent"
            /\ [Rest EXCEPT !.pc = "take", !.kind = "close", !.cur = c,
                            !.sess = cur[c].sess].pc = "take"
        BY DEF Rest
      <4> QED BY <3>5, <4>1 DEF FetchCursor, CloseQueryCursor
    <3> QED BY <1>1, <3>1, <3>2, <3>3, <3>4, <3>5 DEF Ask
  <2> QED BY <2>1, <2>2, SteadyMove
<1>2. CASE Create(p) \/ OpenFails(p) \/ Query(p) \/ QueryReturns(p)
  <2>1. KeepsCursors
    BY <1>2, <1>t, CursorsKept DEF OpenFails
  <2> QED BY <1>2, <1>g, <2>1, RowPcs, SteadyMove
          DEF Create, OpenFails, Query, QueryReturns, Goto
<1>3. CASE Inspect(p) \/ InspectReturns(p) \/ Recheck(p) \/ Update(p)
  <2>1. KeepsCursors
    BY <1>3, <1>t, CursorsKept DEF Inspect, InspectReturns, Recheck, Update
  <2> QED BY <1>3, <1>g, <2>1, RowPcs, SteadyMove
          DEF Inspect, InspectReturns, Recheck, Update, Goto
<1>4. CASE Unlock(p) \/ Removed(p)
  <2>1. KeepsCursors
    BY <1>4, <1>t, CursorsKept DEF Unlock, Removed
  <2> QED BY <1>4, <1>g, <2>1, RowPcs, SteadyMove DEF Unlock, Removed, Goto
<1>5. CASE StartQuery(p) \/ StartFails(p)
  <2>1. KeepsCursors
    BY <1>5, <1>t, CursorsKept DEF StartQuery, StartFails
  <2> QED BY <1>5, <1>g, <2>1, RowPcs, SteadyMove DEF StartQuery, StartFails, Goto
<1>6. CASE Parent(p)
  <2>1. KeepsCursors
    BY <1>6, <1>t, CursorsKept
  <2> QED BY <1>6, <1>g, <2>1, SteadyMove DEF Parent, Goto
<1>7. CASE LockManager(p)
  <2> DEFINE r == [proc[p] EXCEPT !.pc = "pick", !.keys = {}, !.sess = NoSession,
       !.todo = {s \in byID : /\ sess[s].key \in proc[p].keys
                              /\ proc[p].sess \in {NoSession, s}}]
  <2>1. KeepsCursors
    BY <1>7, <1>t, CursorsKept DEF LockManager
  <2>2. r.pc = "pick"
    BY <1>t DEF ProcRow
  <2> QED BY <1>7, <2>1, <2>2, SteadyMove DEF LockManager
<1>8. CASE Hook(p)
  <2> DEFINE r == [proc[p] EXCEPT !.pc = "notify", !.conns = @ \ {proc[p].conn}]
  <2>1. KeepsCursors
    BY <1>8, <1>t, CursorsKept DEF Hook
  <2>2. r.pc = "notify"
    BY <1>t DEF ProcRow
  <2> QED BY <1>8, <2>1, <2>2, SteadyMove DEF Hook
<1>9. CASE Count(p)
  <2> DEFINE r == [RemoveKeys(KeysOf(proc[p].conn)) EXCEPT
                     !.kind = "rotate", !.conn = proc[p].conn]
  <2>1. KeepsCursors
    BY <1>9, <1>t, CursorsKept DEF Count
  <2>2. r.pc = "lock"
    BY DEF RemoveKeys, Rest
  <2> QED BY <1>9, <1>g, <2>1, <2>2, RowPcs, SteadyMove DEF Count, Goto
<1>10. ASSUME NEW s \in Session, Opened(p, s) PROVE CursorInv'
  <2>1. KeepsCursors
    BY <1>10, <1>t, CursorsKept
  <2> QED BY <1>10, <2>1, RowPcs, SteadyMove DEF Opened
<1>11. ASSUME NEW s \in Session, PickSession(p, s) PROVE CursorInv'
  <2>1. KeepsCursors
    BY <1>11, <1>t, CursorsKept DEF PickSession
  <2>2. /\ [proc[p] EXCEPT !.todo = @ \ {s}].pc = proc[p].pc
        /\ [proc[p] EXCEPT !.pc = "drain", !.sess = s].pc = "drain"
    BY <1>t DEF ProcRow
  <2> QED BY <1>11, <2>1, <2>2, SteadyMove DEF PickSession
<1>12. ASSUME NEW d \in Conn, Notify(p, d) PROVE CursorInv'
  <2>1. KeepsCursors
    BY <1>12, <1>t, CursorsKept DEF Notify
  <2>2. /\ [proc[p] EXCEPT !.conns = @ \ {d}].pc = proc[p].pc
        /\ [proc[p] EXCEPT !.pc = "hook", !.conn = d].pc = "hook"
    BY <1>t DEF ProcRow
  <2> QED BY <1>12, <2>1, <2>2, SteadyMove DEF Notify
<1>13. CASE p = Reaper /\ ReapTick
  <2>1. KeepsCursors
    BY <1>13, <1>t, CursorsKept DEF ReapTick
  <2>2. [RemoveKeys(Key) EXCEPT !.kind = "reap"].pc = "lock"
    BY DEF RemoveKeys, Rest
  <2> QED BY <1>13, <2>1, <2>2, SteadyMove DEF ReapTick
<1> QED BY <1>1, <1>2, <1>3, <1>4, <1>5, <1>6, <1>7, <1>8, <1>9, <1>10, <1>11,
           <1>12, <1>13

\* Fetches, and the passing of time: a cursor may be closed, never opened.
LEMMA FetchCursorSteps ==
  ASSUME CursorInv, RegistryInv', NEW p \in Proc,
         \/ Touch(p) \/ Fetch(p)
         \/ \E open, ok, gone \in BOOLEAN : FetchReturns(p, open, ok, gone)
         \/ \E s \in Session : SessionIdles(s)
         \/ \E c \in Cursor : CursorIdles(c)
         \/ \E d \in Conn : CacheExpires(d)
  PROVE  CursorInv'
<1>t. /\ proc \in [Proc -> ProcRow] /\ proc[p] \in ProcRow /\ RegistryInv
      /\ cur \in [Cursor -> CurRow]
      /\ rec \in [Cursor -> {"none", "listed", "idle", "closed"}]
  BY DEF CursorInv, RegistryInv, TypeOK
<1>g. \A pc : [proc[p] EXCEPT !.pc = pc].pc = pc
  BY <1>t DEF ProcRow
<1> USE DEF At, Tending
<1>1. CASE Touch(p)
  <2>1. KeepsCursors
    BY <1>1, <1>t, CursorsKept DEF Touch
  <2>2. \A c \in Cursor : rec[c] \in {"listed", "idle"} => rec'[c] \in {"listed", "idle"}
    BY <1>1, <1>t DEF Touch
  <2>3. \E r : Become(p, r) /\ r.pc # "register"
    BY <1>1, <1>g DEF Touch, Goto
  <2> QED BY <1>1, <1>t, <2>1, <2>2, <2>3, Becomes, SteadyStep DEF Touch, Steady
<1>2. CASE Fetch(p)
  <2>1. KeepsCursors
    BY <1>2, <1>t, CursorsKept DEF Fetch
  <2>2. \A c \in Cursor : cur'[c].open = cur[c].open /\ cur'[c].sess = cur[c].sess
    BY <1>2, <1>t DEF Fetch, CurRow
  <2>3. \E r : Become(p, r) /\ r.pc # "register"
    BY <1>2, <1>g DEF Fetch, Goto
  <2> QED BY <1>2, <1>t, <2>1, <2>2, <2>3, Becomes, SteadyStep DEF Fetch, Steady
<1>3. ASSUME NEW open \in BOOLEAN, NEW ok \in BOOLEAN, NEW gone \in BOOLEAN,
             FetchReturns(p, open, ok, gone)
      PROVE  CursorInv'
  <2> DEFINE r == [proc[p] EXCEPT !.pc = "take", !.gone = gone]
  <2>1. KeepsCursors
    BY <1>3, <1>t, CursorsKept DEF FetchReturns
  <2>2. \A c \in Cursor : /\ cur'[c].open => cur[c].open
                         /\ cur'[c].sess = cur[c].sess
    <3>1. /\ cur' = [cur EXCEPT ![proc[p].cur].open = open,
                                ![proc[p].cur].lock = NoProc]
          /\ open => cur[proc[p].cur].open
      BY <1>3 DEF FetchReturns
    <3>2. ASSUME NEW x \in CurRow
          PROVE  LET y == [x EXCEPT !.open = open, !.lock = NoProc]
                 IN  y.open = open /\ y.sess = x.sess
      BY DEF CurRow
    <3>3. \A c \in Cursor : c # proc[p].cur => cur'[c] = cur[c]
      BY <3>1, <1>t
    <3>4. proc[p].cur \in Cursor =>
            cur'[proc[p].cur] = [cur[proc[p].cur] EXCEPT !.open = open, !.lock = NoProc]
      BY <3>1, <1>t DEF CurRow
    <3> QED BY <1>t, <3>1, <3>2, <3>3, <3>4
  <2>3. r.pc = "take"
    BY <1>t DEF ProcRow
  <2>4. \E x : Become(p, x) /\ x.pc # "register"
    BY <1>3, <2>3, RowPcs DEF FetchReturns
  <2> QED BY <1>3, <1>t, <2>1, <2>2, <2>4, Becomes, SteadyStep
          DEF FetchReturns, Steady
<1>4. CASE \/ \E s \in Session : SessionIdles(s)
           \/ \E c \in Cursor : CursorIdles(c)
           \/ \E d \in Conn : CacheExpires(d)
  <2>1. KeepsCursors
    BY <1>4, <1>t, CursorsKept DEF CursorIdles, CacheExpires
  <2>2. \A c \in Cursor : rec[c] \in {"listed", "idle"} => rec'[c] \in {"listed", "idle"}
    BY <1>4, <1>t DEF SessionIdles, CursorIdles, CacheExpires
  <2>3. UNCHANGED <<proc, cur>>
    BY <1>4 DEF SessionIdles, CursorIdles, CacheExpires
  <2> QED BY <2>1, <2>2, <2>3, SteadyStep DEF Steady
<1> QED BY <1>1, <1>2, <1>3, <1>4

\* A step of p after which the others are as they were.
LEMMA HandingOn ==
  ASSUME CursorInv, RegistryInv', NEW p \in Proc, NEW r, Become(p, r),
         r.pc # "register" \/ cur'[r.cur].sess = r.sess,
         \A c \in Cursor : cur[c].sess \in Session => cur'[c].sess = cur[c].sess,
         \A c \in Cursor : cur'[c].open => Tended(c)'
  PROVE  CursorInv'
<1>1. proc'[p] = r /\ \A q \in Proc : q # p => proc'[q] = proc[q]
  BY Becomes DEF CursorInv, RegistryInv, TypeOK
<1>2. ASSUME NEW q \in Proc PROVE Parented(proc[q])'
  <2>1. CASE q = p
    BY <1>1, <2>1 DEF Parented
  <2>2. CASE q # p
    <3>1. proc'[q] = proc[q] /\ Parented(proc[q])
      BY <1>1, <2>2 DEF CursorInv
    <3>2. proc[q].pc = "register" => proc[q].cur \in Cursor /\ proc[q].sess \in Session
      BY DEF CursorInv, RegistryInv, RowKnown, Known
    <3> QED BY <3>1, <3>2 DEF Parented
  <2> QED BY <2>1, <2>2
<1> QED BY <1>2 DEF CursorInv

\* Whoever tends to a cursor goes on doing so.
GoesOn(c) ==
  /\ cur'[c].sess = cur[c].sess
  /\ Starting(c) => Starting(c)'
  /\ Closing(c) => Closing(c)'
  /\ Tracked(c) => Tracked(c)'
  /\ Recording(c) => Recording(c)' \/ rec'[c] \in {"listed", "idle"}
  /\ rec[c] \in {"listed", "idle"} =>
       rec'[c] \in {"listed", "idle"} \/ Untracking(c)'
  /\ Untracking(c) => Untracking(c)'

LEMMA StillTended ==
  ASSUME NEW c \in Cursor, Tended(c), GoesOn(c)
  PROVE  Tended(c)'
<1>1. CASE Starting(c)
  BY <1>1 DEF Tended, GoesOn
<1>2. CASE Closing(c)
  BY <1>2 DEF Tended, GoesOn
<1>3. CASE Tracked(c) /\ Recording(c)
  BY <1>3 DEF Tended, GoesOn
<1>4. CASE Tracked(c) /\ rec[c] \in {"listed", "idle"}
  BY <1>4 DEF Tended, GoesOn
<1>5. CASE Tracked(c) /\ Untracking(c)
  BY <1>5 DEF Tended, GoesOn
<1> QED BY <1>1, <1>2, <1>3, <1>4, <1>5 DEF Tended

\* The steps that track a new cursor.
LEMMA TrackingSteps ==
  ASSUME CursorInv, RegistryInv', NEW p \in Proc,
         \/ Register(p) \/ Record(p)
         \/ \E c \in Cursor : StartReturns(p, c)
  PROVE  CursorInv'
<1>t. /\ proc \in [Proc -> ProcRow] /\ proc[p] \in ProcRow /\ RegistryInv
      /\ cur \in [Cursor -> CurRow] /\ sess \in [Session -> SessRow]
      /\ rec \in [Cursor -> {"none", "listed", "idle", "closed"}]
      /\ Known(proc[p])
  BY DEF CursorInv, RegistryInv, TypeOK, RowKnown
<1> USE DEF At
<1>1. ASSUME NEW c \in Cursor, StartReturns(p, c) PROVE CursorInv'
  <2> DEFINE r == [proc[p] EXCEPT !.pc = "register", !.cur = c]
             s == proc[p].sess
  <2>1. r.pc = "register" /\ r.cur = c /\ r.sess = s
    BY <1>t DEF ProcRow
  <2>2. /\ Become(p, r) /\ proc[p].pc = "starting" /\ s \in Session
        /\ cur[c].sess = NoSession /\ UNCHANGED <<sess, rec>>
    BY <1>1, <1>t DEF StartReturns, Known
  <2>3. proc'[p] = r /\ \A q \in Proc : q # p => proc'[q] = proc[q]
    BY <1>t, <2>2, Becomes
  <2>4. cur'[c].sess = s /\ \A d \in Cursor : d # c => cur'[d] = cur[d]
    <3>1. cur' = [cur EXCEPT ![c].sess = s, ![c].open = TRUE]
      BY <1>1 DEF StartReturns
    <3>2. ASSUME NEW x \in CurRow
          PROVE  [x EXCEPT !.sess = s, !.open = TRUE].sess = s
      BY DEF CurRow
    <3>3. cur'[c] = [cur[c] EXCEPT !.sess = s, !.open = TRUE]
      BY <3>1, <1>t DEF CurRow
    <3> QED BY <1>t, <3>1, <3>2, <3>3
  <2>5. ASSUME NEW d \in Cursor, cur'[d].open PROVE Tended(d)'
    <3>1. CASE d = c
      BY <2>1, <2>2, <2>3, <2>4, <3>1 DEF Tended, Starting
    <3>2. CASE d # c
      <4>1. cur'[d] = cur[d] /\ Tended(d)
        BY <2>4, <2>5, <3>2 DEF CursorInv
      <4>2. /\ Starting(d) => Starting(d)'
            /\ Closing(d) => Closing(d)'
            /\ Recording(d) => Recording(d)'
            /\ Untracking(d) => Untracking(d)'
            /\ Tracked(d) => Tracked(d)'
        BY <2>2, <2>3, <4>1
           DEF Starting, Closing, Recording, Untracking, Tracked
      <4>3. GoesOn(d)
        BY <2>2, <4>1, <4>2 DEF GoesOn
      <4> QED BY <4>1, <4>3, StillTended
    <3> QED BY <3>1, <3>2
  <2>6. \A d \in Cursor : cur[d].sess \in Session => cur'[d].sess = cur[d].sess
    BY <2>2, <2>4, SessionsAssumption
  <2> QED BY <2>1, <2>2, <2>4, <2>5, <2>6, HandingOn
<1>2. CASE Register(p)
  <2> DEFINE r == [proc[p] EXCEPT !.pc = "record"]
             s == proc[p].sess
             c == proc[p].cur
  <2>1. r.pc = "record" /\ r.cur = c
    BY <1>t DEF ProcRow
  <2>2. /\ Become(p, r) /\ proc[p].pc = "register" /\ s \in Session
        /\ c \in Cursor /\ cur[c].sess = s /\ UNCHANGED <<cur, rec>>
    BY <1>2, <1>t DEF Register, Goto, Known, CursorInv, Parented
  <2>3. proc'[p] = r /\ \A q \in Proc : q # p => proc'[q] = proc[q]
    BY <1>t, <2>2, Becomes
  <2>4. /\ c \in sess'[s].cursors
        /\ \A t \in Session : sess[t].cursors \subseteq sess'[t].cursors
    <3>1. Used(s) \in [Session -> SessRow]
      BY <1>t, KeepingUsed DEF Keeping
    <3>2. \A t \in Session : Used(s)[t].cursors = sess[t].cursors
      BY <1>t DEF Used, SessRow
    <3>3. sess' = [Used(s) EXCEPT ![s].cursors = @ \cup {c}]
      BY <1>2 DEF Register
    <3>4. \A t \in Session : t # s => sess'[t] = Used(s)[t]
      BY <3>1, <3>3
    <3>5. sess'[s].cursors = Used(s)[s].cursors \cup {c}
      BY <2>2, <3>1, <3>3 DEF SessRow
    <3> QED BY <3>2, <3>4, <3>5
  <2>5. ASSUME NEW d \in Cursor, cur'[d].open PROVE Tended(d)'
    <3>1. cur'[d] = cur[d] /\ rec'[d] = rec[d] /\ Tended(d)
      BY <2>2, <2>5 DEF CursorInv
    <3>2. CASE d = c
      <4>1. Tracked(d)' /\ Recording(d)'
        BY <2>1, <2>2, <2>3, <2>4, <3>2 DEF Tracked, Recording
      <4> QED BY <3>1, <4>1 DEF Tended
    <3>3. CASE d # c
      <4>1. /\ Starting(d) => Starting(d)'
            /\ Closing(d) => Closing(d)'
            /\ Recording(d) => Recording(d)'
            /\ Untracking(d) => Untracking(d)'
        BY <2>2, <2>3, <3>3 DEF Starting, Closing, Recording, Untracking
      <4>2. Tracked(d) => Tracked(d)'
        BY <2>4, <3>1 DEF Tracked, Tended
      <4>3. GoesOn(d)
        BY <3>1, <4>1, <4>2 DEF GoesOn
      <4> QED BY <3>1, <4>3, StillTended
    <3> QED BY <3>2, <3>3
  <2> QED BY <2>1, <2>2, <2>5, HandingOn
<1>3. CASE Record(p)
  <2> DEFINE r == [proc[p] EXCEPT !.pc = "fetch"]
             c == proc[p].cur
  <2>1. r.pc = "fetch"
    BY <1>t DEF ProcRow
  <2>2. /\ Become(p, r) /\ proc[p].pc = "record" /\ UNCHANGED <<cur, sess>>
        /\ c \in Cursor /\ rec' = [rec EXCEPT ![c] = "listed"]
    BY <1>3, <1>t DEF Record, Goto, Known
  <2>3. proc'[p] = r /\ \A q \in Proc : q # p => proc'[q] = proc[q]
    BY <1>t, <2>2, Becomes
  <2>4. /\ rec'[c] = "listed"
        /\ \A d \in Cursor : d # c => rec'[d] = rec[d]
    BY <1>t, <2>2
  <2>5. ASSUME NEW d \in Cursor, cur'[d].open PROVE Tended(d)'
    <3>1. cur'[d] = cur[d] /\ Tended(d)
      BY <2>2, <2>5 DEF CursorInv
    <3>2. /\ Starting(d) => Starting(d)'
          /\ Closing(d) => Closing(d)'
          /\ Untracking(d) => Untracking(d)'
          /\ Tracked(d) => Tracked(d)'
          /\ d # c => (Recording(d) => Recording(d)')
      BY <2>2, <2>3, <3>1
         DEF Starting, Closing, Recording, Untracking, Tracked
    <3>3. GoesOn(d)
      BY <2>4, <3>1, <3>2 DEF GoesOn
    <3> QED BY <3>1, <3>3, StillTended
  <2> QED BY <2>1, <2>2, <2>5, HandingOn
<1> QED BY <1>1, <1>2, <1>3

\* What the steps that untrack and close cursors do to the sessions' maps.
LEMMA MapSteps ==
  ASSUME RegistryInv, NEW p \in Proc
  PROVE  /\ Drain(p) => \A t \in Session : t # proc[p].sess => sess'[t] = sess[t]
         /\ \A c \in Cursor : Untrack(p, c) =>
              \A t \in Session : sess[t].cursors \ {c} \subseteq sess'[t].cursors
<1>t. sess \in [Session -> SessRow]
  BY DEF RegistryInv, TypeOK
<1>1. ASSUME NEW c \in Cursor, Untrack(p, c), NEW t \in Session
      PROVE  sess[t].cursors \ {c} \subseteq sess'[t].cursors
  <2> DEFINE s == cur[c].sess
  <2>1. Used(s) \in [Session -> SessRow]
    BY KeepingUsed DEF Keeping
  <2>2. Used(s)[t].cursors = sess[t].cursors
    BY <1>t DEF Used, SessRow
  <2>3. sess' = [Used(s) EXCEPT ![s].cursors = @ \ {c}]
    BY <1>1 DEF Untrack
  <2>4. t # s => sess'[t] = Used(s)[t]
    BY <2>1, <2>3
  <2>5. t = s => sess'[t].cursors = Used(s)[t].cursors \ {c}
    BY <2>1, <2>3 DEF SessRow
  <2> QED BY <2>2, <2>4, <2>5
<1>2. ASSUME Drain(p), NEW t \in Session, t # proc[p].sess
      PROVE  sess'[t] = sess[t]
  BY <1>t, <1>2 DEF Drain
<1> QED BY <1>1, <1>2

\* Removing a session: its cursors are in the hands of whoever removes it.
LEMMA ClosingSteps ==
  ASSUME CursorInv, RegistryInv', NEW p \in Proc,
         \/ Drain(p) \/ CloseSession(p)
         \/ \E c \in Cursor : CloseHandle(p, c)
  PROVE  CursorInv'
<1>t. /\ proc \in [Proc -> ProcRow] /\ proc[p] \in ProcRow /\ RegistryInv
      /\ cur \in [Cursor -> CurRow] /\ sess \in [Session -> SessRow]
      /\ Known(proc[p])
  BY DEF CursorInv, RegistryInv, TypeOK, RowKnown
<1> USE DEF At
<1>1. CASE Drain(p)
  <2> DEFINE s == proc[p].sess
             r == [proc[p] EXCEPT !.pc = "closing", !.handles = sess[s].cursors]
  <2>1. r.pc = "closing" /\ r.handles = sess[s].cursors
    BY <1>t DEF ProcRow
  <2>2. /\ Become(p, r) /\ proc[p].pc = "drain" /\ UNCHANGED <<cur, rec>>
    BY <1>1 DEF Drain
  <2>3. proc'[p] = r /\ \A q \in Proc : q # p => proc'[q] = proc[q]
    BY <1>t, <2>2, Becomes
  <2>4. ASSUME NEW d \in Cursor, cur'[d].open PROVE Tended(d)'
    <3>1. cur'[d] = cur[d] /\ Tended(d)
      BY <2>2, <2>4 DEF CursorInv
    <3>2. CASE cur[d].sess = s /\ Tracked(d)
      <4>1. Closing(d)'
        BY <2>1, <2>3, <3>2 DEF Tracked, Closing
      <4> QED BY <3>1, <4>1 DEF Tended
    <3>3. CASE ~(cur[d].sess = s /\ Tracked(d))
      <4>1. /\ Starting(d) => Starting(d)'
            /\ Closing(d) => Closing(d)'
            /\ Recording(d) => Recording(d)'
            /\ Untracking(d) => Untracking(d)'
        BY <2>2, <2>3 DEF Starting, Closing, Recording, Untracking
      <4>2. Tracked(d) => Tracked(d)'
        BY <1>1, <1>t, <3>1, <3>3, MapSteps DEF Tracked, Tended
      <4>3. GoesOn(d)
        BY <2>2, <3>1, <4>1, <4>2 DEF GoesOn
      <4> QED BY <3>1, <4>3, StillTended
    <3> QED BY <3>2, <3>3
  <2> QED BY <2>1, <2>2, <2>4, HandingOn
<1>2. CASE CloseSession(p)
  <2> DEFINE s == proc[p].sess
             r == [proc[p] EXCEPT !.pc = "pick", !.sess = NoSession,
                     !.todo = @ \ {s}, !.conns = @ \cup {ConnOfSession(s)}]
  <2>1. r.pc = "pick"
    BY <1>t DEF ProcRow
  <2>2. /\ Become(p, r) /\ proc[p].pc = "closing" /\ proc[p].handles = {}
        /\ UNCHANGED <<cur, rec>>
    BY <1>2 DEF CloseSession
  <2>3. proc'[p] = r /\ \A q \in Proc : q # p => proc'[q] = proc[q]
    BY <1>t, <2>2, Becomes
  <2>4. KeepsCursors
    BY <1>2, <1>t, CursorsKept
  <2>5. ASSUME NEW d \in Cursor, cur'[d].open PROVE Tended(d)'
    <3>1. cur'[d] = cur[d] /\ Tended(d)
      BY <2>2, <2>5 DEF CursorInv
    <3>2. /\ Starting(d) => Starting(d)'
          /\ Closing(d) => Closing(d)'
          /\ Recording(d) => Recording(d)'
          /\ Untracking(d) => Untracking(d)'
      BY <2>2, <2>3 DEF Starting, Closing, Recording, Untracking
    <3>3. Tracked(d) => Tracked(d)'
      BY <2>4, <3>1 DEF KeepsCursors, Tracked, Tended
    <3>4. GoesOn(d)
      BY <2>2, <3>1, <3>2, <3>3 DEF GoesOn
    <3> QED BY <3>1, <3>4, StillTended
  <2> QED BY <2>1, <2>2, <2>5, HandingOn
<1>3. ASSUME NEW c \in Cursor, CloseHandle(p, c) PROVE CursorInv'
  <2> DEFINE r == [proc[p] EXCEPT !.handles = @ \ {c}]
  <2>1. r.pc = proc[p].pc /\ r.handles = proc[p].handles \ {c}
    BY <1>t DEF ProcRow
  <2>2. /\ Become(p, r) /\ proc[p].pc = "closing" /\ UNCHANGED <<rec, sess>>
        /\ cur' = [cur EXCEPT ![c].open = FALSE]
    BY <1>3 DEF CloseHandle
  <2>3. proc'[p] = r /\ \A q \in Proc : q # p => proc'[q] = proc[q]
    BY <1>t, <2>2, Becomes
  <2>4. /\ ~cur'[c].open /\ cur'[c].sess = cur[c].sess
        /\ \A d \in Cursor : d # c => cur'[d] = cur[d]
    BY <1>t, <2>2 DEF CurRow
  <2>5. ASSUME NEW d \in Cursor, cur'[d].open PROVE Tended(d)'
    <3>1. d # c /\ cur'[d] = cur[d] /\ Tended(d)
      BY <2>4, <2>5 DEF CursorInv
    <3>2. /\ Starting(d) => Starting(d)'
          /\ Closing(d) => Closing(d)'
          /\ Recording(d) => Recording(d)'
          /\ Untracking(d) => Untracking(d)'
          /\ Tracked(d) => Tracked(d)'
      BY <2>1, <2>2, <2>3, <3>1
         DEF Starting, Closing, Recording, Untracking, Tracked
    <3>3. GoesOn(d)
      BY <2>2, <3>1, <3>2 DEF GoesOn
    <3> QED BY <3>1, <3>3, StillTended
  <2>6. \A d \in Cursor : cur'[d].sess = cur[d].sess
    BY <2>4
  <2> QED BY <2>1, <2>2, <2>5, <2>6, HandingOn
<1> QED BY <1>1, <1>2, <1>3

\* Closing cursors that were taken off the cursor manager's list.
LEMMA UntrackingSteps ==
  ASSUME CursorInv, RegistryInv', NEW p \in Proc,
         \/ Take(p) \/ CloseOne(p) \/ CursorsClosed(p)
         \/ p = CursorReaper /\ ReapCursors
         \/ \E c \in Cursor : Untrack(p, c)
  PROVE  CursorInv'
<1>t. /\ proc \in [Proc -> ProcRow] /\ proc[p] \in ProcRow /\ RegistryInv
      /\ cur \in [Cursor -> CurRow] /\ sess \in [Session -> SessRow]
      /\ rec \in [Cursor -> {"none", "listed", "idle", "closed"}]
      /\ Known(proc[p])
  BY DEF CursorInv, RegistryInv, TypeOK, RowKnown
<1>d. Done(p).pc \in {"idle", "lock"}
  BY RowPcs DEF Done
<1> USE DEF At
<1>1. CASE Take(p)
  <2> DEFINE c == proc[p].cur
             r == [proc[p] EXCEPT !.pc = "untrack", !.handles = {c}]
  <2>0. proc[p].pc = "take" /\ c \in Cursor /\ UNCHANGED <<cur, sess>>
    BY <1>1, <1>t DEF Take, Known
  <2>1. CASE rec[c] \in {"listed", "idle"}
    <3>1. r.pc = "untrack" /\ r.handles = {c}
      BY <1>t DEF ProcRow
    <3>2. Become(p, r) /\ rec' = [rec EXCEPT ![c] = "closed"]
      BY <1>1, <2>1 DEF Take
    <3>3. proc'[p] = r /\ \A q \in Proc : q # p => proc'[q] = proc[q]
      BY <1>t, <3>2, Becomes
    <3>4. ASSUME NEW d \in Cursor, cur'[d].open PROVE Tended(d)'
      <4>1. cur'[d] = cur[d] /\ Tended(d)
        BY <2>0, <3>4 DEF CursorInv
      <4>2. /\ Starting(d) => Starting(d)'
            /\ Closing(d) => Closing(d)'
            /\ Recording(d) => Recording(d)'
            /\ Untracking(d) => Untracking(d)'
            /\ Tracked(d) => Tracked(d)'
        BY <2>0, <3>3, <4>1
           DEF Starting, Closing, Recording, Untracking, Tracked
      <4>3. IF d = c THEN Untracking(d)' ELSE rec'[d] = rec[d]
        BY <1>t, <3>1, <3>2, <3>3 DEF Untracking
      <4>4. GoesOn(d)
        BY <4>1, <4>2, <4>3 DEF GoesOn
      <4> QED BY <4>1, <4>4, StillTended
    <3> QED BY <2>0, <3>1, <3>2, <3>4, HandingOn
  <2>2. CASE rec[c] \notin {"listed", "idle"}
    <3>1. Become(p, Done(p)) /\ rec' = rec
      BY <1>1, <2>2 DEF Take
    <3>2. KeepsCursors
      BY <2>0, <1>t, CursorsKept
    <3> QED BY <1>d, <2>0, <3>1, <3>2, SteadyMove DEF Tending
  <2> QED BY <2>1, <2>2
<1>2. CASE CloseOne(p)
  <2> DEFINE c == proc[p].cur
             r == [proc[p] EXCEPT !.pc = "untrack", !.handles = @ \ {c}]
  <2>1. r.pc = "untrack" /\ r.handles = proc[p].handles \ {c}
    BY <1>t DEF ProcRow
  <2>2. /\ Become(p, r) /\ proc[p].pc = "closeone" /\ UNCHANGED <<rec, sess>>
        /\ cur' = [cur EXCEPT ![c].open = FALSE]
    BY <1>2 DEF CloseOne
  <2>3. proc'[p] = r /\ \A q \in Proc : q # p => proc'[q] = proc[q]
    BY <1>t, <2>2, Becomes
  <2>4. \A d \in Cursor : /\ cur'[d].sess = cur[d].sess
                         /\ IF d = c THEN ~cur'[d].open ELSE cur'[d] = cur[d]
    BY <1>t, <2>2 DEF CurRow
  <2>5. ASSUME NEW d \in Cursor, cur'[d].open PROVE Tended(d)'
    <3>1. d # c /\ cur'[d] = cur[d] /\ Tended(d)
      BY <2>4, <2>5 DEF CursorInv
    <3>2. /\ Starting(d) => Starting(d)'
          /\ Closing(d) => Closing(d)'
          /\ Recording(d) => Recording(d)'
          /\ Untracking(d) => Untracking(d)'
          /\ Tracked(d) => Tracked(d)'
      BY <2>1, <2>2, <2>3, <3>1
         DEF Starting, Closing, Recording, Untracking, Tracked
    <3>3. GoesOn(d)
      BY <2>2, <3>1, <3>2 DEF GoesOn
    <3> QED BY <3>1, <3>3, StillTended
  <2> QED BY <2>1, <2>2, <2>4, <2>5, HandingOn
<1>3. CASE CursorsClosed(p)
  <2>1. /\ Become(p, Done(p)) /\ proc[p].pc = "untrack" /\ proc[p].handles = {}
        /\ UNCHANGED <<cur, rec, sess>>
    BY <1>3 DEF CursorsClosed
  <2>2. \A q \in Proc : q # p => proc'[q] = proc[q]
    BY <1>t, <2>1, Becomes
  <2>3. ASSUME NEW d \in Cursor, cur'[d].open PROVE Tended(d)'
    <3>1. cur'[d] = cur[d] /\ Tended(d)
      BY <2>1, <2>3 DEF CursorInv
    <3>2. /\ Starting(d) => Starting(d)'
          /\ Closing(d) => Closing(d)'
          /\ Recording(d) => Recording(d)'
          /\ Untracking(d) => Untracking(d)'
          /\ Tracked(d) => Tracked(d)'
      BY <2>1, <2>2, <3>1
         DEF Starting, Closing, Recording, Untracking, Tracked
    <3>3. GoesOn(d)
      BY <2>1, <3>1, <3>2 DEF GoesOn
    <3> QED BY <3>1, <3>3, StillTended
  <2> QED BY <1>d, <2>1, <2>3, HandingOn
<1>4. CASE p = CursorReaper /\ ReapCursors
  <2> DEFINE C == {c \in Cursor : rec[c] = "idle"}
             r == [Rest EXCEPT !.pc = "untrack", !.handles = C]
  <2>1. r.pc = "untrack" /\ r.handles = C
    BY DEF Rest
  <2>2. /\ Become(p, r) /\ proc[p].pc = "idle" /\ UNCHANGED <<cur, sess>>
        /\ \A c \in Cursor : IF c \in C THEN rec'[c] = "closed" ELSE rec'[c] = rec[c]
    BY <1>4 DEF ReapCursors
  <2>3. proc'[p] = r /\ \A q \in Proc : q # p => proc'[q] = proc[q]
    BY <1>t, <2>2, Becomes
  <2>4. ASSUME NEW d \in Cursor, cur'[d].open PROVE Tended(d)'
    <3>1. cur'[d] = cur[d] /\ Tended(d)
      BY <2>2, <2>4 DEF CursorInv
    <3>2. /\ Starting(d) => Starting(d)'
          /\ Closing(d) => Closing(d)'
          /\ Recording(d) => Recording(d)'
          /\ Untracking(d) => Untracking(d)'
          /\ Tracked(d) => Tracked(d)'
      BY <2>2, <2>3, <3>1
         DEF Starting, Closing, Recording, Untracking, Tracked
    <3>3. IF d \in C THEN Untracking(d)' ELSE rec'[d] = rec[d]
      BY <2>1, <2>2, <2>3 DEF Untracking
    <3>4. GoesOn(d)
      BY <3>1, <3>2, <3>3 DEF GoesOn
    <3> QED BY <3>1, <3>4, StillTended
  <2> QED BY <2>1, <2>2, <2>4, HandingOn
<1>5. ASSUME NEW c \in Cursor, Untrack(p, c) PROVE CursorInv'
  <2> DEFINE s == cur[c].sess
             r1 == [proc[p] EXCEPT !.pc = "closeone", !.cur = c]
             r2 == [proc[p] EXCEPT !.handles = @ \ {c}]
             r == IF c \in sess[s].cursors THEN r1 ELSE r2
  <2>1. /\ r.pc \in {"untrack", "closeone"}
        /\ IF c \in sess[s].cursors
           THEN r.pc = "closeone" /\ r.cur = c /\ r.handles = proc[p].handles
           ELSE r.pc = "untrack" /\ r.handles = proc[p].handles \ {c}
    BY <1>5, <1>t DEF ProcRow, Untrack
  <2>2. /\ Become(p, r) /\ proc[p].pc = "untrack" /\ c \in proc[p].handles
        /\ UNCHANGED <<cur, rec>>
    BY <1>5 DEF Untrack
  <2>3. proc'[p] = r /\ \A q \in Proc : q # p => proc'[q] = proc[q]
    BY <1>t, <2>2, Becomes
  <2>4. \A t \in Session : sess[t].cursors \ {c} \subseteq sess'[t].cursors
    BY <1>5, <1>t, MapSteps
  <2>5. ASSUME NEW d \in Cursor, cur'[d].open PROVE Tended(d)'
    <3>1. cur'[d] = cur[d] /\ Tended(d)
      BY <2>2, <2>5 DEF CursorInv
    <3>2. CASE d = c /\ Tracked(c)
      <4>1. Closing(c)'
        BY <2>1, <2>2, <2>3, <3>2 DEF Tracked, Closing
      <4> QED BY <3>1, <3>2, <4>1 DEF Tended
    <3>3. CASE d = c /\ ~Tracked(c)
      <4>1. /\ Starting(d) => Starting(d)'
            /\ Closing(d) => Closing(d)'
        BY <2>2, <2>3 DEF Starting, Closing
      <4> QED BY <3>1, <3>3, <4>1 DEF Tended
    <3>4. CASE d # c
      <4>1. /\ Starting(d) => Starting(d)'
            /\ Closing(d) => Closing(d)'
            /\ Recording(d) => Recording(d)'
        BY <2>2, <2>3 DEF Starting, Closing, Recording
      <4>2. Untracking(d) => Untracking(d)'
        BY <2>1, <2>2, <2>3, <3>4 DEF Untracking
      <4>3. Tracked(d) => Tracked(d)'
        BY <2>4, <3>1, <3>4 DEF Tracked, Tended
      <4>4. GoesOn(d)
        BY <2>2, <3>1, <4>1, <4>2, <4>3 DEF GoesOn
      <4> QED BY <3>1, <4>4, StillTended
    <3> QED BY <3>2, <3>3, <3>4
  <2> QED BY <2>1, <2>2, <2>5, HandingOn
<1> QED BY <1>1, <1>2, <1>3, <1>4, <1>5

LEMMA CursorStep == CursorInv /\ [Next]_vars => CursorInv'
<1> SUFFICES ASSUME CursorInv, [Next]_vars PROVE CursorInv'
  OBVIOUS
<1>i. RegistryInv'
  BY RegistryStep DEF CursorInv
<1>1. ASSUME NEW p \in Request, Ask(p) PROVE CursorInv'
  BY <1>i, <1>1, PlainCursorSteps DEF Proc
<1>2. ASSUME NEW p \in Proc, Step(p) PROVE CursorInv'
  BY <1>i, <1>2, PlainCursorSteps, FetchCursorSteps, TrackingSteps, ClosingSteps,
     UntrackingSteps DEF Step
<1>3. CASE ReapTick
  BY <1>i, <1>3, PlainCursorSteps DEF Proc
<1>4. CASE ReapCursors
  BY <1>i, <1>4, UntrackingSteps DEF Proc
<1>5. CASE \/ \E s \in Session : SessionIdles(s)
           \/ \E c \in Cursor : CursorIdles(c)
           \/ \E d \in Conn : CacheExpires(d)
  <2>1. Reaper \in Proc
    BY DEF Proc
  <2> QED BY <1>i, <1>5, <2>1, FetchCursorSteps
<1>6. CASE UNCHANGED vars
  BY <1>i, <1>6 DEF vars, CursorInv, Parented, Tended, Starting, Closing,
     Recording, Untracking, Tracked
<1> QED BY <1>1, <1>2, <1>3, <1>4, <1>5, <1>6 DEF Next

\* An open cursor always has somebody who will close it, although fetches,
\* closes, session removals and both reapers race for it.
THEOREM CursorsSafe == Spec => []CursorsAccounted
<1>1. Init => CursorInv
  BY CursorInit
<1>2. CursorInv /\ [Next]_vars => CursorInv'
  BY CursorStep
<1>3. CursorInv => CursorsAccounted
  BY TendedAccounted
<1> QED BY <1>1, <1>2, <1>3, PTL DEF Spec

-----------------------------------------------------------------------------
(* Deadlock.  Every goroutine takes its locks in one order: Manager.mu,    *)
(* then the mu of a session, then that of a cursor handle.  NoCircle alone *)
(* is not inductive: it needs to know who can hold the two inner locks,    *)
(* namely a query and a fetch, which wait for a target database only, and  *)
(* that whoever asks for a session's lock has a session in its hands.      *)

Sound(r) ==
  /\ r.pc \in {"query", "querying"} => r.sess \in Session
  /\ r.pc \in {"register", "record", "parent", "touch"} =>
       cur[r.cur].sess \in Session
  /\ r.pc \in {"untrack", "closeone"} =>
       \A c \in r.handles : cur[c].sess \in Session
  /\ r.pc = "closeone" => r.cur \in Cursor

LockInv ==
  /\ RegistryInv
  /\ \A s \in Session, p \in Proc :
       sess[s].lock = p => proc[p].pc = "querying" /\ proc[p].sess = s
  /\ \A c \in Cursor, p \in Proc :
       cur[c].lock = p => proc[p].pc = "fetching" /\ proc[p].cur = c
  /\ \A c \in Cursor : rec[c] # "none" => cur[c].sess \in Session
  /\ \A p \in Proc : Sound(proc[p])

\* The holder of an inner lock can go on; so nobody who waits for one is
\* stuck, nor is the holder of Manager.mu; and then nobody at all.
LEMMA LockOrder == LockInv => NoCircle
<1> SUFFICES ASSUME LockInv, NEW b \in Busy, \A p \in Busy : ~Unhindered(p)
             PROVE  FALSE
  BY DEF NoCircle
<1> USE SessionsAssumption DEF Busy, At
<1>t. /\ TypeOK
      /\ \A p \in Proc : proc[p] \in ProcRow /\ Known(proc[p]) /\ Sound(proc[p])
  BY DEF LockInv, RegistryInv, TypeOK, RowKnown
<1>1. \A p \in Proc : proc[p].pc \notin {"querying", "fetching", "opening", "pick"}
  BY DEF Unhindered
<1>2. \A s \in Session : Free(s)
  BY <1>t, <1>1 DEF LockInv, TypeOK, SessRow, Free
<1>3. \A c \in Cursor : cur[c].lock = NoProc
  BY <1>t, <1>1 DEF LockInv, TypeOK, CurRow
<1>4. \A p \in Proc : proc[p].pc # "drain"
  <2> SUFFICES ASSUME NEW p \in Proc, proc[p].pc = "drain" PROVE FALSE
    OBVIOUS
  <2>1. proc[p].sess \in Session
    BY <1>t DEF Known, TypeOK
  <2> QED BY <1>2, <2>1 DEF Unhindered
<1>5. \A p \in Proc : proc[p].pc # "closing"
  <2> SUFFICES ASSUME NEW p \in Proc, proc[p].pc = "closing" PROVE FALSE
    OBVIOUS
  <2>1. proc[p].handles \subseteq Cursor
    BY <1>t DEF ProcRow
  <2> QED BY <1>3, <2>1 DEF Unhindered
<1>6. mu = NoProc
  BY <1>t, <1>1, <1>4, <1>5 DEF TypeOK, HoldsManager
<1>7. Unhindered(b)
  <2>1. b \in Proc /\ Known(proc[b]) /\ Sound(proc[b]) /\ proc[b].handles \subseteq Cursor
    BY <1>t DEF ProcRow
  <2>2. proc[b].pc \in {"query", "register"} => Free(proc[b].sess)
    BY <1>2, <2>1 DEF Known, Sound
  <2>3. proc[b].pc \in {"fetch", "closeone"} => cur[proc[b].cur].lock = NoProc
    BY <1>3, <2>1 DEF Known, Sound
  <2>4. proc[b].pc = "untrack" =>
          \/ proc[b].handles = {}
          \/ \E c \in proc[b].handles : Free(cur[c].sess)
    BY <1>2, <2>1 DEF Sound
  <2> QED BY <1>4, <1>5, <1>6, <2>1, <2>2, <2>3, <2>4 DEF Unhindered
<1> QED BY <1>7

LEMMA LockInit == Init => LockInv
<1> SUFFICES ASSUME Init PROVE LockInv
  OBVIOUS
<1>1. NoProc \notin Proc
  BY SessionsAssumption DEF Proc
<1>2. \A p \in Proc : Sound(proc[p])
  BY DEF Init, Sound, Rest
<1> QED BY <1>1, <1>2, RegistryInit DEF Init, LockInv

\* A step of p: the inner locks it leaves others are the ones they had, and
\* one it has afterwards is that of its query or its fetch.
LEMMA LocksStep ==
  ASSUME LockInv, RegistryInv', NEW p \in Proc,
         \A q \in Proc : q # p => proc'[q] = proc[q],
         \A c \in Cursor : cur[c].sess \in Session => cur'[c].sess \in Session,
         \A c \in Cursor : rec'[c] # "none" =>
           rec[c] # "none" \/ cur'[c].sess \in Session,
         \A s \in Session : \/ sess'[s].lock \in {NoProc, sess[s].lock}
                            \/ sess'[s].lock = p,
         \A s \in Session : sess'[s].lock = p =>
           proc'[p].pc = "querying" /\ proc'[p].sess = s,
         \A c \in Cursor : \/ cur'[c].lock \in {NoProc, cur[c].lock}
                           \/ cur'[c].lock = p,
         \A c \in Cursor : cur'[c].lock = p =>
           proc'[p].pc = "fetching" /\ proc'[p].cur = c,
         Sound(proc[p])'
  PROVE  LockInv'
<1>1. NoProc \notin Proc
  BY SessionsAssumption DEF Proc
<1>2. ASSUME NEW s \in Session, NEW q \in Proc, sess'[s].lock = q
      PROVE  proc'[q].pc = "querying" /\ proc'[q].sess = s
  BY <1>1, <1>2 DEF LockInv
<1>3. ASSUME NEW c \in Cursor, NEW q \in Proc, cur'[c].lock = q
      PROVE  proc'[q].pc = "fetching" /\ proc'[q].cur = c
  BY <1>1, <1>3 DEF LockInv
<1>4. \A c \in Cursor : rec'[c] # "none" => cur'[c].sess \in Session
  BY DEF LockInv
<1>5. ASSUME NEW q \in Proc PROVE Sound(proc[q])'
  <2>1. CASE q = p
    BY <2>1
  <2>2. CASE q # p
    <3>1. /\ proc'[q] = proc[q] /\ Sound(proc[q])
          /\ proc[q].pc \in {"register", "record", "parent", "touch"} =>
               proc[q].cur \in Cursor
          /\ proc[q].handles \subseteq Cursor
      BY <2>2 DEF LockInv, RegistryInv, RowKnown, Known, TypeOK, ProcRow
    <3> QED BY <3>1 DEF Sound
  <2> QED BY <2>1, <2>2
<1> QED BY <1>2, <1>3, <1>4, <1>5 DEF LockInv

KeepsLocks == \A s \in Session : sess'[s].lock = sess[s].lock

\* Most steps leave the inner locks and the cursors alone.
LEMMA LocksMove ==
  ASSUME LockInv, RegistryInv', NEW p \in Proc, NEW r, Become(p, r),
         proc[p].pc \notin {"querying", "fetching"},
         UNCHANGED cur, KeepsLocks,
         \A c \in Cursor : rec'[c] # "none" => rec[c] # "none",
         Sound(r)
  PROVE  LockInv'
<1>1. proc'[p] = r /\ \A q \in Proc : q # p => proc'[q] = proc[q]
  BY Becomes DEF LockInv, RegistryInv, TypeOK
<1>2. Sound(proc[p])'
  BY <1>1 DEF Sound
<1>3. \A s \in Session : sess'[s].lock # p
  BY DEF LockInv, KeepsLocks
<1>4. \A c \in Cursor : cur'[c].lock # p
  BY DEF LockInv
<1> QED BY <1>1, <1>2, <1>3, <1>4, LocksStep DEF KeepsLocks

\* What a step does to the session's mu, unless it is that of a query.
LEMMA SessionLocksKept ==
  ASSUME RegistryInv, NEW p \in Proc,
         \/ Create(p) \/ Register(p) \/ Parent(p) \/ Drain(p)
         \/ CloseSession(p)
         \/ \E s \in Session : Opened(p, s)
         \/ \E s \in Session,
               kind \in {"query", "cursor", "inspect", "disconnect"} :
              GetSession(p, s, kind)
         \/ \E c \in Cursor : Untrack(p, c)
         \/ \E s \in Session : SessionIdles(s)
         \/ UNCHANGED sess
  PROVE  KeepsLocks
<1>t. sess \in [Session -> SessRow]
  BY DEF RegistryInv, TypeOK
<1>f. ASSUME NEW f \in [Session -> SessRow], NEW s, NEW t \in Session
      PROVE  /\ \A b : [f EXCEPT ![s].idle = b][t].lock = f[t].lock
             /\ \A b : [f EXCEPT ![s].open = b][t].lock = f[t].lock
             /\ \A C : [f EXCEPT ![s].cursors = C][t].lock = f[t].lock
  BY DEF SessRow
<1>u. \A s : Used(s) \in [Session -> SessRow]
  BY KeepingUsed DEF Keeping
<1>v. ASSUME NEW s, NEW t \in Session
      PROVE  Used(s)[t].lock = sess[t].lock
  BY <1>t, <1>f DEF Used
<1> USE <1>t, <1>f, <1>u, <1>v DEF KeepsLocks
<1>1. CASE Create(p)
  BY <1>1 DEF Create
<1>2. CASE Register(p)
  BY <1>2 DEF Register
<1>3. CASE Parent(p)
  BY <1>3 DEF Parent
<1>4. CASE Drain(p)
  BY <1>4 DEF Drain
<1>5. CASE CloseSession(p)
  BY <1>5 DEF CloseSession
<1>6. ASSUME NEW s \in Session, Opened(p, s) PROVE KeepsLocks
  <2>1. \A t \in Session : t # s => sess'[t] = sess[t]
    BY <1>6 DEF Opened
  <2>2. ASSUME NEW r \in SessRow, NEW k, NEW n
        PROVE  [r EXCEPT !.key = k, !.dsn = n, !.open = TRUE].lock = r.lock
    BY DEF SessRow
  <2>3. sess'[s] = [sess[s] EXCEPT !.key = proc[p].key, !.dsn = proc[p].dsn,
                                   !.open = TRUE]
    BY <1>6 DEF Opened, SessRow
  <2>4. sess[s] \in SessRow
    OBVIOUS
  <2>5. sess'[s].lock = sess[s].lock
    BY <2>2, <2>3, <2>4
  <2> QED BY <2>1, <2>5
<1>7. ASSUME NEW s \in Session,
             NEW kind \in {"query", "cursor", "inspect", "disconnect"},
             GetSession(p, s, kind)
      PROVE  KeepsLocks
  <2>1. sess' = Used(s)
    BY <1>7 DEF GetSession
  <2> QED BY <2>1
<1>8. ASSUME NEW c \in Cursor, Untrack(p, c) PROVE KeepsLocks
  <2>1. PICK s : sess' = [Used(s) EXCEPT ![s].cursors = @ \ {c}]
    BY <1>8 DEF Untrack
  <2> QED BY <2>1
<1>9. CASE \E s \in Session : SessionIdles(s)
  BY <1>9 DEF SessionIdles
<1>10. CASE UNCHANGED sess
  BY <1>10
<1> QED BY <1>1, <1>2, <1>3, <1>4, <1>5, <1>6, <1>7, <1>8, <1>9, <1>10

LEMMA RowsSound ==
  /\ Sound(Rest)
  /\ \A s : Sound(RemoveSession(s))
  /\ \A K : Sound(RemoveKeys(K))
BY DEF Sound, Rest, RemoveSession, RemoveKeys

\* A request begins outside every lock; a query begins with its session.
LEMMA RequestLocks ==
  ASSUME LockInv, RegistryInv', NEW p \in Proc, Ask(p)
  PROVE  LockInv'
<1>t. RegistryInv
  BY DEF LockInv
<1>k. KeepsLocks
  BY <1>t, SessionLocksKept DEF Ask, Connect, Revoke, Rotate, FetchCursor,
     CloseQueryCursor
<1>c. proc[p].pc = "idle" /\ UNCHANGED <<cur, rec>>
  BY DEF Ask, Connect, GetSession, Revoke, Rotate, FetchCursor,
     CloseQueryCursor, At
<1>1. ASSUME NEW s \in Session,
             NEW kind \in {"query", "cursor", "inspect", "disconnect"},
             GetSession(p, s, kind)
      PROVE  \E r : Become(p, r) /\ Sound(r)
  <2> DEFINE q == [Rest EXCEPT !.pc = "query", !.sess = s]
             c == [Rest EXCEPT !.pc = "start", !.sess = s, !.kind = "cursor"]
             i == [Rest EXCEPT !.pc = "inspect", !.sess = s]
             d == [RemoveSession(s) EXCEPT !.kind = "disconnect",
                                           !.conn = ConnOfSession(s)]
  <2>1. Sound(q) /\ Sound(c) /\ Sound(i) /\ Sound(d)
    BY DEF Rest, RemoveSession, Sound
  <2>2. Become(p, q) \/ Become(p, c) \/ Become(p, i) \/ Become(p, d)
    BY <1>1 DEF GetSession
  <2> QED BY <2>1, <2>2
<1>2. ASSUME NEW k \in Key, Connect(p, k)
      PROVE  \E r : Become(p, r) /\ Sound(r)
  <2>1. Sound([Rest EXCEPT !.pc = "create", !.kind = "connect", !.key = k,
                           !.dsn = dsn[ConnOf[k]]])
    BY DEF Rest, Sound
  <2> QED BY <1>2, <2>1 DEF Connect
<1>3. ASSUME NEW K \in Scope, Revoke(p, K)
      PROVE  \E r : Become(p, r) /\ Sound(r)
  BY <1>3, RowsSound DEF Revoke
<1>4. ASSUME NEW d \in Conn, Rotate(p, d)
      PROVE  \E r : Become(p, r) /\ Sound(r)
  <2>1. Sound([Rest EXCEPT !.pc = "count", !.kind = "rotate", !.conn = d])
    BY DEF Rest, Sound
  <2> QED BY <1>4, <2>1 DEF Rotate
<1>5. ASSUME NEW c \in Cursor, FetchCursor(p, c) \/ CloseQueryCursor(p, c)
      PROVE  \E r : Become(p, r) /\ Sound(r)
  <2>1. cur[c].sess \in Session
    BY <1>5 DEF FetchCursor, CloseQueryCursor, LockInv
  <2>2. /\ Sound([Rest EXCEPT !.pc = "parent", !.kind = "fetch", !.cur = c,
                              !.sess = cur[c].sess])
        /\ Sound([Rest EXCEPT !.pc = "take", !.kind = "close", !.cur = c,
                              !.sess = cur[c].sess])
    BY <2>1 DEF Rest, Sound
  <2> QED BY <1>5, <2>2 DEF FetchCursor, CloseQueryCursor
<1>6. \E r : Become(p, r) /\ Sound(r)
  BY <1>1, <1>2, <1>3, <1>4, <1>5 DEF Ask
<1> QED BY <1>k, <1>c, <1>6, LocksMove

\* Steps that touch neither an inner lock, nor a cursor, nor a record.
LEMMA PlainLocks ==
  ASSUME LockInv, RegistryInv', NEW p \in Proc,
         \/ Create(p) \/ OpenFails(p) \/ Inspect(p) \/ InspectReturns(p)
         \/ LockManager(p) \/ Drain(p) \/ CloseSession(p) \/ Unlock(p)
         \/ Hook(p) \/ Removed(p) \/ Recheck(p) \/ Count(p) \/ Update(p)
         \/ StartQuery(p) \/ StartFails(p) \/ Parent(p) \/ CursorsClosed(p)
         \/ \E s \in Session : Opened(p, s) \/ PickSession(p, s)
         \/ \E d \in Conn : Notify(p, d)
         \/ p = Reaper /\ ReapTick
  PROVE  LockInv'
<1>t. proc[p] \in ProcRow /\ RegistryInv
  BY DEF LockInv, RegistryInv, TypeOK
<1>k. KeepsLocks
  BY <1>t, SessionLocksKept DEF OpenFails, Inspect, InspectReturns, LockManager,
     Unlock, Hook, Removed, Recheck, Count, Update, StartQuery, StartFails,
     CursorsClosed, PickSession, Notify, ReapTick
<1>c. UNCHANGED <<cur, rec>> /\ proc[p].pc \notin {"querying", "fetching"}
  BY DEF Create, OpenFails, Inspect, InspectReturns, LockManager, Drain,
     CloseSession, Unlock, Hook, Removed, Recheck, Count, Update, StartQuery,
     StartFails, Parent, CursorsClosed, Opened, PickSession, Notify, ReapTick, At
<1> SUFFICES \E r : Become(p, r) /\ Sound(r)
  BY <1>k, <1>c, LocksMove
<1>g. ASSUME NEW pc \in {"opening", "inspecting", "notify", "update", "recheck",
                         "starting", "take"}
      PROVE  Sound([proc[p] EXCEPT !.pc = pc])
  BY <1>t DEF ProcRow, Sound
<1> USE <1>g, <1>t, RowsSound DEF Goto
<1>1. CASE \/ Create(p) \/ OpenFails(p) \/ Inspect(p) \/ InspectReturns(p)
           \/ Unlock(p) \/ Recheck(p) \/ Update(p)
  BY <1>1 DEF Create, OpenFails, Inspect, InspectReturns, Unlock, Recheck, Update
<1>2. CASE StartQuery(p) \/ StartFails(p) \/ CursorsClosed(p) \/ Removed(p)
  BY <1>2 DEF StartQuery, StartFails, CursorsClosed, Done, Removed
<1>3. CASE LockManager(p)
  <2> DEFINE r == [proc[p] EXCEPT !.pc = "pick", !.keys = {}, !.sess = NoSession,
       !.todo = {s \in byID : /\ sess[s].key \in proc[p].keys
                              /\ proc[p].sess \in {NoSession, s}}]
  <2>1. r.pc = "pick"
    BY DEF ProcRow
  <2> QED BY <1>3, <2>1 DEF LockManager, Sound
<1>4. CASE Drain(p)
  <2> DEFINE r == [proc[p] EXCEPT !.pc = "closing",
                                  !.handles = sess[proc[p].sess].cursors]
  <2>1. r.pc = "closing"
    BY DEF ProcRow
  <2> QED BY <1>4, <2>1 DEF Drain, Sound
<1>5. CASE CloseSession(p)
  <2> DEFINE s == proc[p].sess
             r == [proc[p] EXCEPT !.pc = "pick", !.sess = NoSession,
                                  !.todo = @ \ {s},
                                  !.conns = @ \cup {ConnOfSession(s)}]
  <2>1. r.pc = "pick"
    BY DEF ProcRow
  <2> QED BY <1>5, <2>1 DEF CloseSession, Sound
<1>6. CASE Hook(p)
  <2> DEFINE r == [proc[p] EXCEPT !.pc = "notify", !.conns = @ \ {proc[p].conn}]
  <2>1. r.pc = "notify"
    BY DEF ProcRow
  <2> QED BY <1>6, <2>1 DEF Hook, Sound
<1>7. CASE Count(p)
  <2> DEFINE r == [RemoveKeys(KeysOf(proc[p].conn)) EXCEPT
                     !.kind = "rotate", !.conn = proc[p].conn]
  <2>1. r.pc = "lock"
    BY DEF RemoveKeys, Rest
  <2>2. Sound(r)
    BY <2>1 DEF Sound
  <2> QED BY <1>7, <2>2 DEF Count
<1>8. ASSUME NEW s \in Session, Opened(p, s)
      PROVE  \E r : Become(p, r) /\ Sound(r)
  BY <1>8 DEF Opened
<1>9. ASSUME NEW s \in Session, PickSession(p, s)
      PROVE  \E r : Become(p, r) /\ Sound(r)
  <2>1. /\ [proc[p] EXCEPT !.todo = @ \ {s}].pc = proc[p].pc
        /\ [proc[p] EXCEPT !.pc = "drain", !.sess = s].pc = "drain"
    BY DEF ProcRow
  <2>2. proc[p].pc = "pick"
    BY <1>9 DEF PickSession, At
  <2> QED BY <1>9, <2>1, <2>2 DEF PickSession, Sound
<1>10. ASSUME NEW d \in Conn, Notify(p, d)
       PROVE  \E r : Become(p, r) /\ Sound(r)
  <2>1. /\ [proc[p] EXCEPT !.conns = @ \ {d}].pc = proc[p].pc
        /\ [proc[p] EXCEPT !.pc = "hook", !.conn = d].pc = "hook"
    BY DEF ProcRow
  <2>2. proc[p].pc = "notify"
    BY <1>10 DEF Notify, At
  <2> QED BY <1>10, <2>1, <2>2 DEF Notify, Sound
<1>11. CASE p = Reaper /\ ReapTick
  <2>1. [RemoveKeys(Key) EXCEPT !.kind = "reap"].pc = "lock"
    BY DEF RemoveKeys, Rest
  <2> QED BY <1>11, <2>1 DEF ReapTick, Sound
<1>12. CASE Parent(p)
  <2>1. proc[p].pc = "parent" /\ cur[proc[p].cur].sess \in Session
    BY <1>12 DEF Parent, At, LockInv, Sound
  <2>2. Sound([proc[p] EXCEPT !.pc = "touch"])
    BY <2>1 DEF ProcRow, Sound
  <2> QED BY <1>12, <2>2 DEF Parent
<1> QED BY <1>1, <1>2, <1>3, <1>4, <1>5, <1>6, <1>7, <1>8, <1>9, <1>10, <1>11, <1>12

\* A query holds the mu of its session from its start to its end.
LEMMA QueryLocks ==
  ASSUME LockInv, RegistryInv', NEW p \in Proc, Query(p) \/ QueryReturns(p)
  PROVE  LockInv'
<1> DEFINE s == proc[p].sess
<1>t. /\ RegistryInv /\ proc \in [Proc -> ProcRow] /\ proc[p] \in ProcRow
      /\ sess \in [Session -> SessRow] /\ Sound(proc[p])
  BY DEF LockInv, RegistryInv, TypeOK
<1>u. /\ Used(s) \in [Session -> SessRow]
      /\ \A t \in Session : Used(s)[t].lock = sess[t].lock
  <2>1. Used(s) \in [Session -> SessRow]
    BY <1>t, KeepingUsed DEF Keeping
  <2> QED BY <1>t, <2>1 DEF Used, SessRow
<1>1. s \in Session /\ UNCHANGED <<cur, rec>>
  BY <1>t DEF Query, QueryReturns, At, Sound
<1>2. \A t \in Session : t # s => sess[t].lock # p
  BY DEF LockInv
<1>3. CASE Query(p)
  <2>1. /\ \A t \in Session : t # s => sess'[t].lock = sess[t].lock
        /\ sess'[s].lock = p
    BY <1>3, <1>1, <1>u DEF Query, SessRow
  <2>2. /\ proc'[p] = [proc[p] EXCEPT !.pc = "querying"]
        /\ \A q \in Proc : q # p => proc'[q] = proc[q]
    BY <1>3, <1>t, Going DEF Query, PC
  <2>3. proc'[p].pc = "querying" /\ proc'[p].sess = s
    BY <1>t, <2>2 DEF ProcRow
  <2>4. Sound(proc[p])'
    BY <1>1, <2>3 DEF Sound
  <2>5. proc[p].pc = "query"
    BY <1>3 DEF Query, At
  <2>6. \A c \in Cursor : cur'[c].lock # p
    BY <1>1, <2>5 DEF LockInv
  <2> QED BY <1>1, <1>2, <2>1, <2>2, <2>3, <2>4, <2>6, LocksStep
<1>4. CASE QueryReturns(p)
  <2>1. /\ \A t \in Session : t # s => sess'[t].lock = sess[t].lock
        /\ sess'[s].lock = NoProc
    BY <1>4, <1>1, <1>t DEF QueryReturns, SessRow
  <2>2. PICK r : Become(p, r) /\ Sound(r)
    BY <1>4, RowsSound DEF QueryReturns
  <2>3. proc'[p] = r /\ \A q \in Proc : q # p => proc'[q] = proc[q]
    BY <1>t, <2>2, Becomes
  <2>4. Sound(proc[p])'
    BY <1>1, <2>2, <2>3 DEF Sound
  <2>5. proc[p].pc = "querying"
    BY <1>4 DEF QueryReturns, At
  <2>6. \A c \in Cursor : cur'[c].lock # p
    BY <1>1, <2>5 DEF LockInv
  <2>7. NoProc # p
    BY SessionsAssumption DEF Proc
  <2> QED BY <1>1, <1>2, <2>1, <2>3, <2>4, <2>6, <2>7, LocksStep
<1> QED BY <1>3, <1>4

\* What a step does to one cursor handle.
LEMMA CursorFields ==
  ASSUME RegistryInv, NEW c, NEW b \in BOOLEAN, NEW o \in Proc \cup {NoProc},
         NEW d \in Cursor
  PROVE  /\ [cur EXCEPT ![c].open = b][d].sess = cur[d].sess
         /\ [cur EXCEPT ![c].open = b][d].lock = cur[d].lock
         /\ [cur EXCEPT ![c].lock = o][d].sess = cur[d].sess
         /\ [cur EXCEPT ![c].lock = o][d].lock = IF c = d THEN o ELSE cur[d].lock
         /\ [cur EXCEPT ![c].open = b, ![c].lock = o][d].sess = cur[d].sess
         /\ [cur EXCEPT ![c].open = b, ![c].lock = o][d].lock =
              IF c = d THEN o ELSE cur[d].lock
<1>1. cur \in [Cursor -> CurRow] /\ cur[d] \in CurRow
  BY DEF RegistryInv, TypeOK
<1>2. [cur EXCEPT ![c].open = b] \in [Cursor -> CurRow]
  BY CursorLocks
<1> QED BY <1>1, <1>2 DEF CurRow

\* A fetch holds the mu of its handle from its start to its end; closing a
\* handle waits for it and keeps nothing.
LEMMA HandleLocks ==
  ASSUME LockInv, RegistryInv', NEW p \in Proc,
         \/ Fetch(p) \/ CloseOne(p)
         \/ \E c \in Cursor : CloseHandle(p, c)
         \/ \E open, ok, gone \in BOOLEAN : FetchReturns(p, open, ok, gone)
  PROVE  LockInv'
<1>t. /\ RegistryInv /\ proc \in [Proc -> ProcRow] /\ proc[p] \in ProcRow
      /\ cur \in [Cursor -> CurRow] /\ Sound(proc[p]) /\ Known(proc[p])
  BY DEF LockInv, RegistryInv, TypeOK, RowKnown
<1>n. NoProc # p /\ p \in Proc \cup {NoProc}
  BY SessionsAssumption DEF Proc
<1>k. UNCHANGED <<sess, rec>>
  BY DEF Fetch, CloseOne, CloseHandle, FetchReturns
<1>q. proc[p].pc # "querying"
  BY DEF Fetch, CloseOne, CloseHandle, FetchReturns, At
<1>s. \A s \in Session : sess'[s].lock # p
  BY <1>k, <1>q DEF LockInv
<1>1. CASE Fetch(p)
  <2> DEFINE c == proc[p].cur
  <2>1. \A d \in Cursor : /\ cur'[d].sess = cur[d].sess
                          /\ cur'[d].lock = IF c = d THEN p ELSE cur[d].lock
    BY <1>1, <1>t, <1>n, CursorFields DEF Fetch
  <2>2. /\ proc'[p] = [proc[p] EXCEPT !.pc = "fetching"]
        /\ \A q \in Proc : q # p => proc'[q] = proc[q]
    BY <1>1, <1>t, Going DEF Fetch, PC
  <2>3. proc'[p].pc = "fetching" /\ proc'[p].cur = c
    BY <1>t, <2>2 DEF ProcRow
  <2>4. Sound(proc[p])'
    BY <2>3 DEF Sound
  <2>5. \A d \in Cursor : cur[d].lock # p
    BY <1>1 DEF Fetch, At, LockInv
  <2>6. \A d \in Cursor : /\ cur'[d].lock \in {cur[d].lock, p}
                          /\ cur'[d].lock = p => d = c
    BY <2>1, <2>5
  <2> HIDE DEF c
  <2> QED BY <1>k, <1>s, <2>1, <2>2, <2>3, <2>4, <2>6, LocksStep
<1>2. ASSUME NEW open \in BOOLEAN, NEW ok \in BOOLEAN, NEW gone \in BOOLEAN,
             FetchReturns(p, open, ok, gone)
      PROVE  LockInv'
  <2> DEFINE c == proc[p].cur
             r == [proc[p] EXCEPT !.pc = "take", !.gone = gone]
  <2>0. cur' = [cur EXCEPT ![c].open = open, ![c].lock = NoProc]
    BY <1>2 DEF FetchReturns
  <2>1. \A d \in Cursor : /\ cur'[d].sess = cur[d].sess
                          /\ cur'[d].lock = IF c = d THEN NoProc ELSE cur[d].lock
    BY <2>0, <1>t, <1>n, CursorFields
  <2>2. r.pc = "take"
    BY <1>t DEF ProcRow
  <2>3. PICK x : Become(p, x) /\ x.pc \in {"take", "idle"}
    BY <1>2, <2>2, RowPcs DEF FetchReturns
  <2>4. proc'[p] = x /\ \A q \in Proc : q # p => proc'[q] = proc[q]
    BY <1>t, <2>3, Becomes
  <2>5. Sound(proc[p])'
    BY <2>3, <2>4 DEF Sound
  <2>6. \A d \in Cursor : d # c => cur[d].lock # p
    BY DEF LockInv
  <2>7. \A d \in Cursor : cur'[d].lock # p
    BY <1>n, <2>1, <2>6
  <2> QED BY <1>k, <1>s, <2>1, <2>4, <2>5, <2>7, LocksStep
<1>3. CASE CloseOne(p)
  <2> DEFINE c == proc[p].cur
             r == [proc[p] EXCEPT !.pc = "untrack", !.handles = @ \ {c}]
  <2>1. \A d \in Cursor : cur'[d].sess = cur[d].sess /\ cur'[d].lock = cur[d].lock
    BY <1>3, <1>t, <1>n, CursorFields DEF CloseOne
  <2>2. /\ proc'[p] = r
        /\ \A q \in Proc : q # p => proc'[q] = proc[q]
    BY <1>3, <1>t, Becomes DEF CloseOne
  <2>3. r.pc = "untrack" /\ r.handles = proc[p].handles \ {c}
    BY <1>t DEF ProcRow
  <2>4. \A d \in proc[p].handles : d \in Cursor /\ cur[d].sess \in Session
    BY <1>3, <1>t DEF CloseOne, At, Sound, ProcRow
  <2>5. Sound(proc[p])'
    BY <2>1, <2>2, <2>3, <2>4 DEF Sound
  <2>6. \A d \in Cursor : cur[d].lock # p
    BY <1>3 DEF CloseOne, At, LockInv
  <2> QED BY <1>k, <1>s, <2>1, <2>2, <2>5, <2>6, LocksStep
<1>4. ASSUME NEW c \in Cursor, CloseHandle(p, c) PROVE LockInv'
  <2> DEFINE r == [proc[p] EXCEPT !.handles = @ \ {c}]
  <2>1. \A d \in Cursor : cur'[d].sess = cur[d].sess /\ cur'[d].lock = cur[d].lock
    BY <1>4, <1>t, <1>n, CursorFields DEF CloseHandle
  <2>2. /\ proc'[p] = r
        /\ \A q \in Proc : q # p => proc'[q] = proc[q]
    BY <1>4, <1>t, Becomes DEF CloseHandle
  <2>3. r.pc = "closing"
    BY <1>4, <1>t DEF ProcRow, CloseHandle, At
  <2>4. Sound(proc[p])'
    BY <2>2, <2>3 DEF Sound
  <2>5. \A d \in Cursor : cur[d].lock # p
    BY <1>4 DEF CloseHandle, At, LockInv
  <2> QED BY <1>k, <1>s, <2>1, <2>2, <2>4, <2>5, LocksStep
<1> QED BY <1>1, <1>2, <1>3, <1>4

\* A cursor has its session before it has a record, and the two map
\* operations (CloseCursor, CloseAllCursors) ask for that session's mu only.
LEMMA RecordLocks ==
  ASSUME LockInv, RegistryInv', NEW p \in Proc,
         \/ Register(p) \/ Record(p) \/ Touch(p) \/ Take(p)
         \/ \E c \in Cursor : StartReturns(p, c) \/ Untrack(p, c)
         \/ p = CursorReaper /\ ReapCursors
  PROVE  LockInv'
<1>t. /\ RegistryInv /\ proc \in [Proc -> ProcRow] /\ proc[p] \in ProcRow
      /\ cur \in [Cursor -> CurRow] /\ Sound(proc[p]) /\ Known(proc[p])
      /\ rec \in [Cursor -> {"none", "listed", "idle", "closed"}]
      /\ proc[p].handles \subseteq Cursor
  BY DEF LockInv, RegistryInv, TypeOK, RowKnown, ProcRow
<1>k. KeepsLocks
  BY <1>t, SessionLocksKept DEF Record, Touch, Take, StartReturns, ReapCursors
<1>q. proc[p].pc \notin {"querying", "fetching"}
  BY DEF Register, Record, Touch, Take, StartReturns, Untrack, ReapCursors, At
<1>1. CASE Register(p)
  <2>1. /\ [proc[p] EXCEPT !.pc = "record"].pc = "record"
        /\ [proc[p] EXCEPT !.pc = "record"].cur = proc[p].cur
    BY <1>t DEF ProcRow
  <2>2. cur[proc[p].cur].sess \in Session
    BY <1>1, <1>t DEF Register, At, Sound
  <2>3. Sound([proc[p] EXCEPT !.pc = "record"])
    BY <2>1, <2>2 DEF Sound
  <2> QED BY <1>1, <1>k, <1>q, <2>3, LocksMove DEF Register, Goto
<1>2. CASE Record(p)
  <2>1. /\ proc'[p] = [proc[p] EXCEPT !.pc = "fetch"]
        /\ \A q \in Proc : q # p => proc'[q] = proc[q]
    BY <1>2, <1>t, Going DEF Record, PC
  <2>2. Sound(proc[p])'
    BY <1>t, <2>1 DEF Sound, ProcRow
  <2>3. cur[proc[p].cur].sess \in Session
    BY <1>2, <1>t DEF Record, At, Sound
  <2>4. \A c \in Cursor : rec'[c] # "none" => rec[c] # "none" \/ cur'[c].sess \in Session
    BY <1>2, <1>t, <2>3 DEF Record
  <2>5. /\ \A s \in Session : sess'[s].lock # p
        /\ \A c \in Cursor : cur'[c].lock # p
    BY <1>2, <1>q DEF Record, LockInv
  <2>6. UNCHANGED <<cur, sess>>
    BY <1>2 DEF Record
  <2> QED BY <2>1, <2>2, <2>4, <2>5, <2>6, LocksStep
<1>3. CASE Touch(p)
  <2> DEFINE c == proc[p].cur
  <2>1. cur[c].sess \in Session /\ UNCHANGED <<cur, sess>>
    BY <1>3, <1>t DEF Touch, At, Sound
  <2>2. \A d \in Cursor : rec'[d] # "none" => rec[d] # "none" \/ cur'[d].sess \in Session
    BY <1>3, <1>t, <2>1 DEF Touch
  <2>3. PICK pc \in PC : Goto(p, pc) /\ pc \in {"take", "fetch"}
    BY <1>3 DEF Touch, PC
  <2>4. /\ proc'[p] = [proc[p] EXCEPT !.pc = pc]
        /\ \A q \in Proc : q # p => proc'[q] = proc[q]
    BY <1>t, <2>3, Going
  <2>5. Sound(proc[p])'
    BY <1>t, <2>3, <2>4 DEF Sound, ProcRow
  <2>6. /\ \A s \in Session : sess'[s].lock # p
        /\ \A d \in Cursor : cur'[d].lock # p
    BY <1>q, <2>1 DEF LockInv
  <2> QED BY <2>1, <2>2, <2>4, <2>5, <2>6, LocksStep
<1>4. CASE Take(p)
  <2> DEFINE c == proc[p].cur
             r == [proc[p] EXCEPT !.pc = "untrack", !.handles = {c}]
  <2>1. c \in Cursor /\ (rec[c] # "none" => cur[c].sess \in Session)
    BY <1>4, <1>t DEF Take, At, Known, LockInv
  <2>2. r.pc = "untrack" /\ r.handles = {c}
    BY <1>t DEF ProcRow
  <2>3. rec[c] \in {"listed", "idle"} => Sound(r)
    BY <2>1, <2>2 DEF Sound
  <2>4. PICK x : Become(p, x) /\ Sound(x)
    BY <1>4, <2>3, RowsSound DEF Take, Done
  <2>5. \A d \in Cursor : rec'[d] # "none" => rec[d] # "none"
    BY <1>4, <1>t DEF Take
  <2> QED BY <1>4, <1>k, <1>q, <2>4, <2>5, LocksMove DEF Take
<1>5. ASSUME NEW c \in Cursor, StartReturns(p, c) PROVE LockInv'
  <2> DEFINE r == [proc[p] EXCEPT !.pc = "register", !.cur = c]
  <2>1. proc[p].sess \in Session /\ UNCHANGED <<sess, rec>>
    BY <1>5, <1>t DEF StartReturns, At, Known
  <2>2. cur[c].lock # p
    BY <1>q DEF LockInv
  <2>3. /\ \A d \in Cursor : d # c => cur'[d] = cur[d]
        /\ cur'[c] = [cur[c] EXCEPT !.sess = proc[p].sess, !.open = TRUE]
    BY <1>5, <1>t DEF StartReturns, CurRow
  <2>4. cur'[c].sess = proc[p].sess /\ cur'[c].lock = cur[c].lock
    BY <1>t, <2>3 DEF CurRow
  <2>5. /\ proc'[p] = r
        /\ \A q \in Proc : q # p => proc'[q] = proc[q]
    BY <1>5, <1>t, Becomes DEF StartReturns
  <2>6. r.pc = "register" /\ r.cur = c
    BY <1>t DEF ProcRow
  <2>7. Sound(proc[p])'
    BY <2>1, <2>4, <2>5, <2>6 DEF Sound
  <2>8. /\ \A s \in Session : sess'[s].lock # p
        /\ \A d \in Cursor : cur[d].lock # p
    BY <1>q, <2>1 DEF LockInv
  <2> QED BY <2>1, <2>3, <2>4, <2>5, <2>7, <2>8, LocksStep
<1>6. ASSUME NEW c \in Cursor, Untrack(p, c) PROVE LockInv'
  <2> DEFINE r1 == [proc[p] EXCEPT !.pc = "closeone", !.cur = c]
             r2 == [proc[p] EXCEPT !.handles = @ \ {c}]
  <2>1. /\ r1.pc = "closeone" /\ r1.cur = c /\ r1.handles = proc[p].handles
        /\ r2.pc = "untrack" /\ r2.handles = proc[p].handles \ {c}
    BY <1>6, <1>t DEF ProcRow, Untrack, At
  <2>2. \A d \in proc[p].handles : cur[d].sess \in Session
    BY <1>6, <1>t DEF Untrack, At, Sound
  <2>3. Sound(r1) /\ Sound(r2)
    BY <2>1, <2>2 DEF Sound
  <2>4. Become(p, r1) \/ Become(p, r2)
    BY <1>6 DEF Untrack
  <2>5. UNCHANGED <<cur, rec>> /\ KeepsLocks
    BY <1>6, <1>t, SessionLocksKept DEF Untrack
  <2> QED BY <1>q, <2>3, <2>4, <2>5, LocksMove
<1>7. CASE p = CursorReaper /\ ReapCursors
  <2> DEFINE C == {c \in Cursor : rec[c] = "idle"}
             r == [Rest EXCEPT !.pc = "untrack", !.handles = C]
  <2>1. r.pc = "untrack" /\ r.handles = C
    BY DEF Rest
  <2>2. \A c \in C : cur[c].sess \in Session
    BY DEF LockInv
  <2>3. Sound(r)
    BY <2>1, <2>2 DEF Sound
  <2>4. \A c \in Cursor : rec'[c] # "none" => rec[c] # "none"
    BY <1>7 DEF ReapCursors
  <2> QED BY <1>7, <1>k, <1>q, <2>3, <2>4, LocksMove DEF ReapCursors
<1> QED BY <1>1, <1>2, <1>3, <1>4, <1>5, <1>6, <1>7

\* A session or a cursor that idles, a cached entry that expires.
LEMMA TimeLocks ==
  ASSUME LockInv, RegistryInv',
         \/ \E s \in Session : SessionIdles(s)
         \/ \E c \in Cursor : CursorIdles(c)
         \/ \E d \in Conn : CacheExpires(d)
  PROVE  LockInv'
<1>t. /\ RegistryInv /\ Reaper \in Proc
      /\ rec \in [Cursor -> {"none", "listed", "idle", "closed"}]
  BY DEF LockInv, RegistryInv, TypeOK, Proc
<1>1. KeepsLocks
  BY <1>t, SessionLocksKept DEF CursorIdles, CacheExpires
<1>2. UNCHANGED <<proc, cur>>
  BY DEF SessionIdles, CursorIdles, CacheExpires
<1>3. \A c \in Cursor : rec'[c] # "none" => rec[c] # "none"
  BY <1>t DEF SessionIdles, CursorIdles, CacheExpires
<1> QED BY <1>1, <1>2, <1>3 DEF LockInv, KeepsLocks, Sound

LEMMA LockStep == LockInv /\ [Next]_vars => LockInv'
<1> SUFFICES ASSUME LockInv, [Next]_vars PROVE LockInv'
  OBVIOUS
<1>i. RegistryInv'
  BY RegistryStep DEF LockInv
<1>1. ASSUME NEW p \in Request, Ask(p) PROVE LockInv'
  BY <1>i, <1>1, RequestLocks DEF Proc
<1>2. ASSUME NEW p \in Proc, Step(p) PROVE LockInv'
  BY <1>i, <1>2, PlainLocks, QueryLocks, HandleLocks, RecordLocks DEF Step
<1>3. CASE ReapTick
  BY <1>i, <1>3, PlainLocks DEF Proc
<1>4. CASE ReapCursors
  BY <1>i, <1>4, RecordLocks DEF Proc
<1>5. CASE \/ \E s \in Session : SessionIdles(s)
           \/ \E c \in Cursor : CursorIdles(c)
           \/ \E d \in Conn : CacheExpires(d)
  BY <1>i, <1>5, TimeLocks
<1>6. CASE UNCHANGED vars
  BY <1>i, <1>6 DEF vars, LockInv, Sound
<1> QED BY <1>1, <1>2, <1>3, <1>4, <1>5, <1>6 DEF Next

\* However many requests are under way, and although removals wait for the
\* fetches of their cursors while they hold Manager.mu: some goroutine finds
\* free what it waits for.
THEOREM NobodyDeadlocks == Spec => []NoCircle
<1> QED BY LockInit, LockStep, LockOrder, PTL DEF Spec
=============================================================================
