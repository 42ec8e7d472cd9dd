SPECIFICATION Spec
CONSTANTS
  k1 = k1
  k2 = k2
  d1 = d1
  s1 = s1
  s2 = s2
  s3 = s3
  c1 = c1
  c2 = c2
  r1 = r1
  r2 = r2
  Key = {k1}
  Conn = {d1}
  ConnOf <- OneConn
  Scope <- FirstAccount
  Session = {s1, s2}
  Cursor = {c1}
  Request = {r1, r2}
  Reaper = Reaper
  CursorReaper = CursorReaper
  Kinds = {"connect", "query", "cursor", "fetch", "close", "disconnect", "revoke"}
  MaxDsn = 0
  NoKey = NoKey
  NoConn = NoConn
  NoSession = NoSession
  NoCursor = NoCursor
  NoProc = NoProc
SYMMETRY Symmetric
INVARIANTS TypeOK RegistryCoherent CursorsAccounted SomebodyMoves
