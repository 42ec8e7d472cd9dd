---------------------------- MODULE ConsoleProofs ----------------------------
(***************************************************************************)
(* Theorems about Console, for every number of changes and sign-ins: what  *)
(* the cache holds is the account's (for every table of pages, queries and *)
(* calls), what is shown at rest is what the server has (for these tables  *)
(* of keys and calls), no page asks for what the server refuses or leads   *)
(* where there is nothing (for every account like those of the built-in    *)
(* roles), and a tab that is signed out asks for nothing.                  *)
(***************************************************************************)
EXTENDS Console, TLAPS

\* The account a request was made for is in it from the start, and a request
\* does not survive a change of the token.
OwnInv ==
  /\ fetch \in [at : {"idle", "asked", "served"}, shows : [at : Nat, by : Nat]]
  /\ have \in [at : Nat, by : Nat]
  /\ mutation \in [at : {"nowhere", "sent", "committed"}, by : Nat]
  /\ changes \in Nat /\ token \in Nat
  /\ OwnUnlessSet

LEMMA AskedType ==
  ASSUME NEW n \in Nat
  PROVE  /\ Asked(n) \in [at : {"idle", "asked", "served"},
                          shows : [at : Nat, by : Nat]]
         /\ Asked(n).shows.by = n
         /\ Asked(n).at = "asked"
BY DEF Asked

LEMMA IdleType ==
  /\ None \in [at : Nat, by : Nat]
  /\ Idle \in [at : {"idle", "asked", "served"}, shows : [at : Nat, by : Nat]]
  /\ Idle.at = "idle"
BY DEF Idle, None

\* The tables of pages, queries and calls are whatever they are: a step
\* either leaves the key, the call and the account alone, and a request that
\* is under way is the account's, or it empties the cache.
LEMMA UseKeeps ==
  ASSUME OwnInv, NEW pg, NEW o, NEW scopes, Use(pg, o, scopes),
         UNCHANGED <<focus, token, changes, have, mutation>>
  PROVE  OwnInv'
<1> SUFFICES /\ fetch' \in [at : {"idle", "asked", "served"}, shows : [at : Nat, by : Nat]]
             /\ fetch' # Idle => fetch'.shows.by = token
  BY DEF OwnInv, OwnUnlessSet
<1>1. CASE fetch' = Asked(token)
  BY <1>1, AskedType DEF OwnInv
<1>2. CASE fetch' = fetch
  BY <1>2 DEF OwnInv, OwnUnlessSet
<1> QED BY <1>1, <1>2 DEF Use

\* Emptying the cache together with a change of the account.
LEMMA ClearKeeps ==
  ASSUME OwnInv, ClearCache, UNCHANGED <<focus, changes, mutation>>,
         token' \in Nat, fetch' \in {Asked(token'), Idle}
  PROVE  OwnInv'
<1>1. have' = None
  BY DEF ClearCache
<1>2. /\ fetch' \in [at : {"idle", "asked", "served"}, shows : [at : Nat, by : Nat]]
      /\ fetch' # Idle => fetch'.shows.by = token'
  BY AskedType, IdleType
<1> QED BY <1>1, <1>2, IdleType DEF OwnInv, OwnUnlessSet

LEMMA OwnInit == Init => OwnInv
<1> SUFFICES ASSUME Init PROVE OwnInv
  OBVIOUS
<1>1. /\ fetch \in {Asked(1), Idle}
      /\ have = None /\ token = 1 /\ changes = 0
      /\ mutation = [at |-> "nowhere", by |-> 0]
  BY DEF Init
<1> QED BY <1>1, AskedType, IdleType DEF OwnInv, OwnUnlessSet

LEMMA OwnStep == OwnInv /\ [Next]_vars => OwnInv'
<1> SUFFICES ASSUME OwnInv, [Next]_vars PROVE OwnInv'
  OBVIOUS
<1>1. ASSUME NEW pg \in Pages, Visit(pg) PROVE OwnInv'
  BY <1>1, UseKeeps DEF Visit
<1>2. CASE ToggleDialog
  BY <1>2, UseKeeps DEF ToggleDialog, OwnInv, OwnUnlessSet
<1>3. CASE PermissionsArrive
  BY <1>3, UseKeeps DEF PermissionsArrive, OwnInv, OwnUnlessSet
<1>4. CASE Submit \/ Commit \/ Refuse \/ LoseAnswer
  <2>1. /\ mutation' \in [at : {"nowhere", "sent", "committed"}, by : Nat]
        /\ changes' \in Nat
    BY <1>4 DEF Submit, Commit, Refuse, LoseAnswer, OwnInv
  <2>2. UNCHANGED <<focus, token, have, fetch>>
    BY <1>4 DEF Submit, Commit, Refuse, LoseAnswer
  <2> QED BY <2>1, <2>2 DEF OwnInv, OwnUnlessSet
<1>5. CASE Serve
  <2>1. fetch # Idle
    BY <1>5, IdleType DEF Serve
  <2>2. /\ fetch' \in [at : {"idle", "asked", "served"}, shows : [at : Nat, by : Nat]]
        /\ fetch'.shows.by = fetch.shows.by
    BY <1>5 DEF Serve, OwnInv
  <2> QED BY <1>5, <2>1, <2>2 DEF Serve, OwnInv, OwnUnlessSet
<1>6. CASE Receive
  <2>1. fetch # Idle
    BY <1>6, IdleType DEF Receive
  <2>2. have' \in [at : Nat, by : Nat] /\ have'.by = token
    BY <1>6, <2>1 DEF Receive, OwnInv, OwnUnlessSet
  <2> QED BY <1>6, <2>2, IdleType DEF Receive, OwnInv, OwnUnlessSet
<1>7. CASE Fail \/ GrowOld \/ Collect
  <2>1. /\ have' \in {have, None} /\ fetch' \in {fetch, Idle}
        /\ UNCHANGED <<focus, token, changes, mutation>>
    BY <1>7 DEF Fail, GrowOld, Collect
  <2> QED BY <2>1, IdleType DEF OwnInv, OwnUnlessSet
<1>8. CASE Settle
  <2>1. UNCHANGED <<focus, token, changes>>
    BY <1>8 DEF Settle
  <2>2. mutation' = [at |-> "nowhere", by |-> 0]
    BY <1>8 DEF Settle
  <2>3. \/ /\ have' = [at |-> changes, by |-> mutation.by]
           /\ focus.key \in Call(focus.call).sets
        \/ have' \in {None, have}
    BY <1>8 DEF Settle
  <2>4. have' \in [at : Nat, by : Nat]
    BY <2>3, IdleType DEF OwnInv
  <2>5. fetch' \in {Asked(token), Idle, fetch}
    BY <1>8 DEF Settle
  <2>6. /\ fetch' \in [at : {"idle", "asked", "served"}, shows : [at : Nat, by : Nat]]
        /\ fetch' # Idle => fetch'.shows.by = token
    BY <2>5, AskedType, IdleType DEF OwnInv, OwnUnlessSet
  <2> QED BY <2>1, <2>2, <2>3, <2>4, <2>6 DEF OwnInv, OwnUnlessSet
<1>9. CASE Logout \/ AuthInvalidated
  BY <1>9, ClearKeeps DEF Logout, AuthInvalidated, Leave
<1>10. ASSUME NEW account \in Accounts, Login(account) \/ AcceptInvitation(account)
       PROVE  OwnInv'
  <2>1. token' \in Nat
    <3>1. account \in Nat /\ token \in Nat
      BY DEF Accounts, OwnInv
    <3>2. CASE Login(account)
      BY <3>1, <3>2 DEF Login
    <3>3. CASE AcceptInvitation(account)
      <4>1. token' \in {token, account} \ {0}
        BY <3>3 DEF AcceptInvitation
      <4> QED BY <3>1, <4>1
    <3> QED BY <1>10, <3>2, <3>3
  <2>2. fetch' \in {Asked(token'), Idle}
    BY <1>10 DEF Login, AcceptInvitation
  <2>3. ClearCache /\ UNCHANGED <<focus, changes, mutation>>
    BY <1>10 DEF Login, AcceptInvitation
  <2> QED BY <2>1, <2>2, <2>3, ClearKeeps
<1>11. CASE UNCHANGED vars
  BY <1>11 DEF vars, OwnInv, OwnUnlessSet
<1> QED BY <1>1, <1>2, <1>3, <1>4, <1>5, <1>6, <1>7, <1>8, <1>9, <1>10, <1>11
        DEF Next

\* Whatever the pages read and the calls change, and however answers, sign-ins
\* and refused tokens interleave: what the cache holds is the account's own,
\* but for what a late success of the account before fills in.
THEOREM OwnSafe == Spec => []OwnUnlessSet
<1>1. OwnInv => OwnUnlessSet
  BY DEF OwnInv
<1> QED BY <1>1, OwnInit, OwnStep, PTL DEF Spec

-----------------------------------------------------------------------------
(* What is shown is fresh: the steps.                                      *)

\* Nothing has been settled late, lost or is about to be settled.
Sure == mutation.at # "committed" /\ ~lost /\ ~raced

\* A behaviour follows a key and a call that have to do with each other.
GoodFocus ==
  \/ focus = NoFocus
  \/ /\ focus.key \in Keys /\ focus.call \in CallNames
     /\ Related(focus.key, focus.call)

\* What is neither marked nor old shows all changes, and so does the answer
\* under way, when the call tells the cache of the key.
Freshness ==
  Tells(focus.key, focus.call) =>
    /\ have # None /\ ~invalid /\ ~old /\ Sure => have.at = changes
    /\ fetch.at = "served" /\ Sure => fetch.shows.at = changes

FreshInv == OwnInv /\ GoodFocus /\ Freshness

\* Nothing is asked for but what is missing, marked or old.
LEMMA UseFresh ==
  ASSUME FreshInv, NEW pg, NEW o, NEW scopes, Use(pg, o, scopes),
         UNCHANGED <<focus, changes, have, invalid, old, mutation, lost>>
  PROVE  Freshness'
<1>1. CASE fetch' = Asked(token) /\ raced' = FALSE /\ (have = None \/ invalid \/ old)
  <2>1. fetch'.at # "served"
    BY <1>1, AskedType DEF FreshInv, OwnInv
  <2> QED BY <1>1, <2>1 DEF Freshness
<1>2. CASE UNCHANGED <<fetch, raced>>
  BY <1>2 DEF FreshInv, Freshness, Sure
<1> QED BY <1>1, <1>2 DEF Use

LEMMA ClearFresh ==
  ASSUME ClearCache, token' \in Nat, fetch' \in {Asked(token'), Idle}
  PROVE  Freshness'
<1>1. have' = None /\ fetch'.at # "served"
  BY AskedType, IdleType DEF ClearCache
<1> QED BY <1>1 DEF Freshness

\* A success that tells of the key marks what is cached, replaces it or drops
\* it; a request that is not started again makes the key uncertain.
LEMMA SettleFresh ==
  ASSUME FreshInv, Settle PROVE Freshness'
<1> DEFINE c == Call(focus.call)
           k == focus.key
<1> SUFFICES ASSUME Tells(k, focus.call)
             PROVE  /\ have' # None /\ ~invalid' /\ ~old' /\ Sure' => have'.at = changes
                    /\ fetch'.at = "served" /\ Sure' => fetch'.shows.at = changes
  BY DEF Settle, Freshness
<1>1. k \in c.invalidates \/ k \in c.sets \/ k \in c.removes
  BY DEF Tells
<1>2. /\ have' = IF k \in c.sets THEN [at |-> changes, by |-> mutation.by]
                 ELSE IF k \in c.removes THEN None ELSE have
      /\ invalid' = ((invalid \/ (k \in c.invalidates /\ have # None))
                       /\ k \notin c.sets \cup c.removes)
  BY DEF Settle
<1>3. have' # None /\ ~invalid' => have'.at = changes
  <2>1. CASE k \in c.sets
    BY <1>2, <2>1
  <2>2. CASE k \notin c.sets
    <3>1. ~(have' # None /\ ~invalid')
      <4>1. CASE k \in c.removes
        BY <1>2, <2>2, <4>1
      <4>2. CASE k \notin c.removes
        BY <1>1, <1>2, <2>2, <4>2
      <4> QED BY <4>1, <4>2
    <3> QED BY <3>1
  <2> QED BY <2>1, <2>2
<1>4. \/ fetch' = Asked(token)
      \/ fetch' = Idle
      \/ raced' = (raced \/ fetch # Idle) /\ fetch' = fetch
  BY DEF Settle
<1>5. fetch'.at = "served" => ~Sure'
  <2>1. CASE fetch' = Asked(token) \/ fetch' = Idle
    BY <2>1, AskedType, IdleType DEF FreshInv, OwnInv
  <2>2. CASE raced' = (raced \/ fetch # Idle) /\ fetch' = fetch
    <3>1. fetch'.at = "served" => fetch # Idle
      BY <2>2, IdleType
    <3> QED BY <2>2, <3>1 DEF Sure
  <2> QED BY <1>4, <2>1, <2>2
<1> QED BY <1>3, <1>5

LEMMA FreshInit == Init => FreshInv
<1> SUFFICES ASSUME Init PROVE FreshInv
  OBVIOUS
<1>1. OwnInv
  BY OwnInit
<1>2. GoodFocus
  BY DEF Init, Focuses, GoodFocus
<1>3. have = None /\ fetch \in {Asked(1), Idle}
  BY DEF Init
<1>4. fetch.at # "served"
  BY <1>3, AskedType, IdleType
<1> QED BY <1>1, <1>2, <1>3, <1>4 DEF FreshInv, Freshness

LEMMA FreshStep == FreshInv /\ [Next]_vars => FreshInv'
<1> SUFFICES ASSUME FreshInv, [Next]_vars PROVE FreshInv'
  OBVIOUS
<1>1. OwnInv'
  BY OwnStep DEF FreshInv
<1>2. focus' = focus
  BY DEF Next, Visit, ToggleDialog, PermissionsArrive, Submit, Commit, Refuse, Settle,
         LoseAnswer, Serve, Receive, Fail, GrowOld, Collect, Logout, AuthInvalidated,
         Leave, Login, AcceptInvitation, vars
<1>3. GoodFocus'
  BY <1>2 DEF FreshInv, GoodFocus
<1>4. Freshness'
  <2>1. ASSUME NEW pg \in Pages, Visit(pg) PROVE Freshness'
    BY <2>1, UseFresh DEF Visit
  <2>2. CASE ToggleDialog
    <3>1. CASE UNCHANGED <<fetch, raced>>
      BY <2>2, <3>1 DEF ToggleDialog, FreshInv, Freshness, Sure
    <3>2. CASE Use(page, open', loaded)
      BY <2>2, <3>2, UseFresh DEF ToggleDialog
    <3> QED BY <2>2, <3>1, <3>2 DEF ToggleDialog
  <2>3. CASE PermissionsArrive
    <3>1. CASE UNCHANGED <<fetch, raced>>
      BY <2>3, <3>1 DEF PermissionsArrive, FreshInv, Freshness, Sure
    <3>2. CASE Use(page', open', loaded')
      BY <2>3, <3>2, UseFresh DEF PermissionsArrive
    <3> QED BY <2>3, <3>1, <3>2 DEF PermissionsArrive
  <2>4. CASE Submit \/ Refuse
    BY <2>4 DEF Submit, Refuse, FreshInv, Freshness, Sure
  <2>5. CASE Commit \/ LoseAnswer
    <3>1. ~Sure'
      BY <2>5 DEF Commit, LoseAnswer, Sure, FreshInv, OwnInv
    <3> QED BY <3>1 DEF Freshness
  <2>6. CASE Serve
    <3>1. fetch'.shows.at = changes
      BY <2>6 DEF Serve, FreshInv, OwnInv
    <3> QED BY <2>6, <3>1 DEF Serve, FreshInv, Freshness, Sure
  <2>7. CASE Receive
    <3>1. fetch'.at # "served" /\ have' = fetch.shows /\ fetch.at = "served"
      BY <2>7, IdleType DEF Receive
    <3> QED BY <2>7, <3>1 DEF Receive, FreshInv, Freshness, Sure
  <2>8. CASE Fail
    <3>1. fetch'.at # "served"
      BY <2>8, IdleType DEF Fail
    <3> QED BY <2>8, <3>1 DEF Fail, FreshInv, Freshness, Sure
  <2>9. CASE GrowOld
    BY <2>9 DEF GrowOld, FreshInv, Freshness, Sure
  <2>10. CASE Collect
    BY <2>10 DEF Collect, FreshInv, Freshness, Sure
  <2>11. CASE Settle
    BY <2>11, SettleFresh
  <2>12. CASE Logout \/ AuthInvalidated
    BY <2>12, ClearFresh DEF Logout, AuthInvalidated, Leave
  <2>13. ASSUME NEW account \in Accounts, Login(account) \/ AcceptInvitation(account)
         PROVE  Freshness'
    <3>1. ClearCache /\ fetch' \in {Asked(token'), Idle} /\ token' \in Nat
      BY <1>1, <2>13 DEF Login, AcceptInvitation, OwnInv
    <3> QED BY <3>1, ClearFresh
  <2>14. CASE UNCHANGED vars
    BY <2>14 DEF vars, FreshInv, Freshness, Sure
  <2> QED BY <2>1, <2>2, <2>3, <2>4, <2>5, <2>6, <2>7, <2>8, <2>9, <2>10, <2>11,
             <2>12, <2>13, <2>14 DEF Next
<1> QED BY <1>1, <1>3, <1>4 DEF FreshInv

-----------------------------------------------------------------------------
(* The tables: whatever a call changes, its success tells the cache of, or *)
(* it is one of the keys that are known to be left behind.                 *)

Exempt(k, c) ==
  \/ k \in DOMAIN KnownStale /\ c \in KnownStale[k]
  \/ ToldOtherVariant(k, c)
Accounted(k, c) == Tells(k, c) \/ Exempt(k, c)
Kept(c) == \A k \in Keys : Changes(k, c) => Accounted(k, c)

\* The keys that list the rows of a table (query-keys.ts).
LEMMA Listing ==
  \A k \in Keys :
    /\ "me" \in Lists(k) => k = "session"
    /\ "accounts" \in Lists(k) => k = "instanceAccounts"
    /\ "admins" \in Lists(k) => k = "instanceAdmins"
    /\ "orgs" \in Lists(k)
         => k \in {"accountOrganizations", "instanceOrganizations", "session"}
    /\ "teamCount" \in Lists(k) => k \in {"accountOrganizations", "instanceOrganizations"}
    /\ "settings" \in Lists(k) => k \in {"session", "instanceSettings"}
    /\ "org" \in Lists(k) => k = "org"
    /\ "orgSettings" \in Lists(k) => k = "orgRuntimeSettings"
    /\ "workspaces" \in Lists(k) => k = "orgWorkspaces"
    /\ "workspace" \in Lists(k) => k = "orgWorkspace"
    /\ "environmentCount" \in Lists(k) => k \in {"orgWorkspaces", "orgWorkspace"}
    /\ "connectionCount" \in Lists(k) => k \in {"orgWorkspaces", "orgWorkspace"}
    /\ "invitations" \in Lists(k) => k = "orgInvitations"
    /\ "teams" \in Lists(k) => k = "orgTeams"
    /\ "team" \in Lists(k) => k \in {"orgTeam", "orgMemberTeams"}
    /\ "teamMembers" \in Lists(k)
         => k \in {"wsEffectiveMembers", "wsTeams", "orgMemberTeams", "orgTeamMembers"}
    /\ "roles" \in Lists(k) => k = "orgRoles"
    /\ "role" \in Lists(k) => k = "orgRole"
    /\ "bindings" \in Lists(k) => k \in {"orgPolicies", "orgMembers", "orgMember"}
    /\ "wsRoles" \in Lists(k) => k = "wsRoles"
    /\ "wsRole" \in Lists(k) => k = "wsRole"
    /\ "wsBindings" \in Lists(k) => k = "wsPolicies"
    /\ "wsMembers" \in Lists(k) => k \in {"wsEffectiveMembers", "wsMembers"}
    /\ "wsTeams" \in Lists(k) => k \in {"wsEffectiveMembers", "wsTeams"}
    /\ "environments" \in Lists(k) => k \in {"orgEnvironments", "ideEnvironments"}
    /\ "connections" \in Lists(k) => k \in {"connections", "ideConnections"}
    /\ "dsn" \in Lists(k) => k = "connectionDsn"
    /\ "dbSessions" \in Lists(k) => k = "ideSessions"
    /\ "schema" \in Lists(k)
         => k \in {"generateStatement", "directory", "relationships", "schemaObject"}
    /\ "files" \in Lists(k) => k \in {"privateSearch", "privateBrowser"}
    /\ "history" \in Lists(k) => k = "workspaceHistory"
    /\ "favorites" \in Lists(k) => k = "favorites"
    /\ "jobs" \in Lists(k) => k = "jobs"
<1>1. \A k \in Keys :
        /\ "me" \in Lists(k) => k = "session"
        /\ "accounts" \in Lists(k) => k = "instanceAccounts"
        /\ "admins" \in Lists(k) => k = "instanceAdmins"
        /\ "orgs" \in Lists(k)
             => k \in {"accountOrganizations", "instanceOrganizations", "session"}
        /\ "teamCount" \in Lists(k)
             => k \in {"accountOrganizations", "instanceOrganizations"}
        /\ "settings" \in Lists(k) => k \in {"session", "instanceSettings"}
        /\ "org" \in Lists(k) => k = "org"
        /\ "orgSettings" \in Lists(k) => k = "orgRuntimeSettings"
        /\ "workspaces" \in Lists(k) => k = "orgWorkspaces"
  BY DEF Lists, Keys, AuthQueries, InstanceQueries, OrganizationQueries,
         WorkspaceQueries, SchemaQueries, FileQueries, HistoryQueries, FavoriteQueries,
         OrganizationRows, MemberRows, AccountTeamRows, WorkspaceTeamRows, WorkspaceCounts
<1>2. \A k \in Keys :
        /\ "workspace" \in Lists(k) => k = "orgWorkspace"
        /\ "environmentCount" \in Lists(k) => k \in {"orgWorkspaces", "orgWorkspace"}
        /\ "connectionCount" \in Lists(k) => k \in {"orgWorkspaces", "orgWorkspace"}
        /\ "invitations" \in Lists(k) => k = "orgInvitations"
        /\ "teams" \in Lists(k) => k = "orgTeams"
        /\ "team" \in Lists(k) => k \in {"orgTeam", "orgMemberTeams"}
        /\ "teamMembers" \in Lists(k)
             => k \in {"wsEffectiveMembers", "wsTeams", "orgMemberTeams", "orgTeamMembers"}
        /\ "roles" \in Lists(k) => k = "orgRoles"
        /\ "role" \in Lists(k) => k = "orgRole"
  BY DEF Lists, Keys, AuthQueries, InstanceQueries, OrganizationQueries,
         WorkspaceQueries, SchemaQueries, FileQueries, HistoryQueries, FavoriteQueries,
         OrganizationRows, MemberRows, AccountTeamRows, WorkspaceTeamRows, WorkspaceCounts
<1>3. \A k \in Keys :
        /\ "bindings" \in Lists(k) => k \in {"orgPolicies", "orgMembers", "orgMember"}
        /\ "wsRoles" \in Lists(k) => k = "wsRoles"
        /\ "wsRole" \in Lists(k) => k = "wsRole"
        /\ "wsBindings" \in Lists(k) => k = "wsPolicies"
        /\ "wsMembers" \in Lists(k) => k \in {"wsEffectiveMembers", "wsMembers"}
        /\ "wsTeams" \in Lists(k) => k \in {"wsEffectiveMembers", "wsTeams"}
        /\ "environments" \in Lists(k) => k \in {"orgEnvironments", "ideEnvironments"}
        /\ "connections" \in Lists(k) => k \in {"connections", "ideConnections"}
  BY DEF Lists, Keys, AuthQueries, InstanceQueries, OrganizationQueries,
         WorkspaceQueries, SchemaQueries, FileQueries, HistoryQueries, FavoriteQueries,
         OrganizationRows, MemberRows, AccountTeamRows, WorkspaceTeamRows, WorkspaceCounts
<1>4. \A k \in Keys :
        /\ "dsn" \in Lists(k) => k = "connectionDsn"
        /\ "dbSessions" \in Lists(k) => k = "ideSessions"
        /\ "schema" \in Lists(k)
             => k \in {"generateStatement", "directory", "relationships", "schemaObject"}
        /\ "files" \in Lists(k) => k \in {"privateSearch", "privateBrowser"}
        /\ "history" \in Lists(k) => k = "workspaceHistory"
        /\ "favorites" \in Lists(k) => k = "favorites"
        /\ "jobs" \in Lists(k) => k = "jobs"
  BY DEF Lists, Keys, AuthQueries, InstanceQueries, OrganizationQueries,
         WorkspaceQueries, SchemaQueries, FileQueries, HistoryQueries, FavoriteQueries,
         OrganizationRows, MemberRows, AccountTeamRows, WorkspaceTeamRows, WorkspaceCounts
<1> QED BY <1>1, <1>2, <1>3, <1>4

\* No name is in two tables.
LEMMA EndpointTables ==
  /\ \A c \in DOMAIN AccountEndpoints : Endpoint(c) = AccountEndpoints[c]
  /\ \A c \in DOMAIN InstanceEndpoints : Endpoint(c) = InstanceEndpoints[c]
  /\ \A c \in DOMAIN OrgEndpoints : Endpoint(c) = OrgEndpoints[c]
  /\ \A c \in DOMAIN WorkspaceEndpoints : Endpoint(c) = WorkspaceEndpoints[c]
  /\ \A c \in DOMAIN IdeEndpoints : Endpoint(c) = IdeEndpoints[c]
<1> DEFINE before == DOMAIN AccountEndpoints \cup DOMAIN InstanceEndpoints
<1>1. DOMAIN AccountEndpoints \cap DOMAIN InstanceEndpoints = {}
  BY DEF AccountEndpoints, InstanceEndpoints
<1>2. before \cap DOMAIN OrgEndpoints = {}
  BY DEF AccountEndpoints, InstanceEndpoints, OrgEndpoints
<1>3. before \cap DOMAIN WorkspaceEndpoints = {}
  BY DEF AccountEndpoints, InstanceEndpoints, WorkspaceEndpoints
<1>4. DOMAIN OrgEndpoints \cap DOMAIN WorkspaceEndpoints = {}
  BY DEF OrgEndpoints, WorkspaceEndpoints
<1>5. before \cap DOMAIN IdeEndpoints = {}
  BY DEF AccountEndpoints, InstanceEndpoints, IdeEndpoints
<1>6. DOMAIN OrgEndpoints \cap DOMAIN IdeEndpoints = {}
  BY DEF OrgEndpoints, IdeEndpoints
<1>7. DOMAIN WorkspaceEndpoints \cap DOMAIN IdeEndpoints = {}
  BY DEF WorkspaceEndpoints, IdeEndpoints
<1> QED BY <1>1, <1>2, <1>3, <1>4, <1>5, <1>6, <1>7 DEF Endpoint

LEMMA CallTables ==
  /\ \A c \in DOMAIN OrgCalls : Call(c) = OrgCalls[c]
  /\ \A c \in DOMAIN WorkspaceCalls : Call(c) = WorkspaceCalls[c]
  /\ \A c \in DOMAIN AdminCalls : Call(c) = AdminCalls[c]
  /\ \A c \in DOMAIN IdeCalls : Call(c) = IdeCalls[c]
<1>1. DOMAIN OrgCalls \cap DOMAIN WorkspaceCalls = {}
  BY DEF OrgCalls, WorkspaceCalls
<1>2. (DOMAIN OrgCalls \cup DOMAIN WorkspaceCalls) \cap DOMAIN AdminCalls = {}
  BY DEF OrgCalls, WorkspaceCalls, AdminCalls
<1>3. (DOMAIN OrgCalls \cup DOMAIN WorkspaceCalls) \cap DOMAIN IdeCalls = {}
  BY DEF OrgCalls, WorkspaceCalls, IdeCalls
<1>4. DOMAIN AdminCalls \cap DOMAIN IdeCalls = {}
  BY DEF AdminCalls, IdeCalls
<1> QED BY <1>1, <1>2, <1>3, <1>4 DEF Call

\* The account's own settings.
LEMMA AccountCallsTold ==
  \A c \in {"updateProfile", "updatePassword"} : Kept(c)
<1>1. /\ Endpoint("updateProfile").writes = {"accounts", "me"}
      /\ Endpoint("updatePassword").writes = {}
  BY EndpointTables DEF AccountEndpoints, Change
<1>2. Call("updateProfile") = UpdateProfile
  BY CallTables DEF AdminCalls
<1>3. \A k \in {"instanceAccounts", "session"} :
              Accounted(k, "updateProfile")
  BY <1>2 DEF Accounted, Tells, Exempt, KnownStale, UpdateProfile, Invalidates
<1> QED BY <1>1, <1>3, Listing DEF Kept, Changes

\* The administration of the instance.
LEMMA AdministrationCallsTold ==
  \A c \in {"addAdmin", "removeAdmin", "createAccount", "createOrg",
           "updateInstance"} : Kept(c)
<1>1. /\ Endpoint("addAdmin").writes = {"admins"}
      /\ Endpoint("removeAdmin").writes = {"admins", "me"}
      /\ Endpoint("createAccount").writes = {"accounts"}
      /\ Endpoint("createOrg").writes = {"orgs"}
      /\ Endpoint("updateInstance").writes = {"settings"}
  BY EndpointTables DEF InstanceEndpoints, Change
<1>2. /\ Call("addAdmin") = AddAdmin
      /\ Call("removeAdmin") = RemoveAdmin
      /\ Call("createAccount") = CreateAccount
      /\ Call("createOrg") = CreateOrg
      /\ Call("updateInstance") = UpdateInstance
  BY CallTables DEF AdminCalls
<1>3. /\ Accounted("instanceAdmins", "addAdmin")
      /\ \A k \in {"instanceAdmins", "session"} : Accounted(k, "removeAdmin")
      /\ Accounted("instanceAccounts", "createAccount")
      /\ \A k \in {"accountOrganizations", "instanceOrganizations", "session"} :
              Accounted(k, "createOrg")
      /\ \A k \in {"instanceSettings", "session"} :
              Accounted(k, "updateInstance")
  BY <1>2 DEF Accounted, Tells, Exempt, KnownStale, AddAdmin, RemoveAdmin,
         CreateAccount, CreateOrg, UpdateInstance, Invalidates
<1> QED BY <1>1, <1>3, Listing DEF Kept, Changes

\* Teams and who is in them.
LEMMA TeamCallsTold ==
  \A c \in {"createTeam", "updateTeam", "addTeamMember", "removeTeamMember",
           "addTeam", "removeTeam"} : Kept(c)
<1>1. /\ Endpoint("createTeam").writes = {"teams", "teamCount"}
      /\ Endpoint("updateTeam").writes = {"team", "teams"}
      /\ \A c \in {"addTeamMember", "addTeam"} : Endpoint(c).writes = {"teamMembers"}
      /\ \A c \in {"removeTeamMember", "removeTeam"} :
            Endpoint(c).writes = {"teamMembers", "dbSessions"}
  BY EndpointTables DEF OrgEndpoints, Change, CreatedTeam, RemovedTeamMember
<1>2. /\ Call("createTeam") = CreateTeam
      /\ Call("updateTeam") = UpdateTeam
      /\ Call("addTeamMember") = AddTeamMember
      /\ Call("removeTeamMember") = RemoveTeamMember
      /\ Call("addTeam") = AddTeam
      /\ Call("removeTeam") = RemoveTeam
  BY CallTables DEF OrgCalls
<1>3. /\ Tells("orgTeams", "createTeam")
      /\ \A k \in {"orgTeam", "orgTeams"} : Tells(k, "updateTeam")
  BY <1>2 DEF Tells, CreateTeam, UpdateTeam, Invalidates
<1>4. /\ \A k \in {"accountOrganizations", "instanceOrganizations"} :
            Exempt(k, "createTeam")
      /\ Exempt("orgMemberTeams", "updateTeam")
      /\ \A k \in {"wsEffectiveMembers", "wsTeams"} : \A c \in TeamMemberCalls : Exempt(k, c)
      /\ \A c \in {"removeTeamMember", "removeTeam"} : Exempt("ideSessions", c)
  BY DEF Exempt, KnownStale, TeamMemberCalls
<1>5. \A k \in {"orgMemberTeams", "orgTeamMembers"} : \A c \in TeamMemberCalls :
        Accounted(k, c)
  BY <1>2 DEF Accounted, Tells, Exempt, KnownStale, ToldOtherVariant, Variants,
         TeamMemberCalls, AddTeamMember, RemoveTeamMember, AddTeam, RemoveTeam, Invalidates
<1>6. TeamMemberCalls = {"addTeamMember", "removeTeamMember", "addTeam", "removeTeam"}
  BY DEF TeamMemberCalls
<1> QED BY <1>1, <1>3, <1>4, <1>5, <1>6, Listing DEF Kept, Changes, Accounted

\* Members and invitations.
LEMMA MemberCallsTold ==
  \A c \in {"inviteUser", "resendInvitation", "revokeInvitation",
           "updateMemberRole"} : Kept(c)
<1>1. /\ \A c \in {"inviteUser", "resendInvitation", "revokeInvitation"} :
            Endpoint(c).writes = {"invitations"}
      /\ Endpoint("updateMemberRole").writes = {"bindings"}
  BY EndpointTables DEF OrgEndpoints, Change, MemberBindings
<1>2. /\ Call("inviteUser") = InviteUser
      /\ Call("resendInvitation") = ResendInvitation
      /\ Call("revokeInvitation") = RevokeInvitation
      /\ Call("updateMemberRole") = UpdateMemberRole
  BY CallTables DEF OrgCalls
<1>3. /\ \A c \in {"inviteUser", "resendInvitation", "revokeInvitation"} :
              Tells("orgInvitations", c)
      /\ Tells("orgMember", "updateMemberRole")
  BY <1>2 DEF Tells, InviteUser, ResendInvitation, RevokeInvitation,
         UpdateMemberRole, Invalidates
<1>4. \A k \in {"orgMembers", "orgPolicies"} : Exempt(k, "updateMemberRole")
  BY DEF Exempt, KnownStale
<1> QED BY <1>1, <1>3, <1>4, Listing DEF Kept, Changes, Accounted

\* Roles and policies of an organization.
LEMMA RoleCallsTold ==
  \A c \in {"createRole", "updateRole", "deleteRole", "deleteThisRole",
           "createPolicy", "revokePolicy"} : Kept(c)
<1>1. /\ Endpoint("createRole").writes = {"roles"}
      /\ \A c \in {"updateRole", "deleteRole", "deleteThisRole"} :
            Endpoint(c).writes = {"role", "roles"}
      /\ \A c \in {"createPolicy", "revokePolicy"} :
            Endpoint(c).writes = {"bindings"}
  BY EndpointTables DEF OrgEndpoints, Change
<1>2. /\ Call("createRole") = CreateRole
      /\ Call("updateRole") = UpdateRole
      /\ Call("deleteRole") = DeleteRole
      /\ Call("deleteThisRole") = DeleteThisRole
      /\ Call("createPolicy") = CreatePolicy
      /\ Call("revokePolicy") = RevokePolicy
  BY CallTables DEF OrgCalls
<1>3. /\ Accounted("orgRoles", "createRole")
      /\ \A k \in {"orgRole", "orgRoles"},
            c \in {"updateRole", "deleteRole", "deleteThisRole"} :
              Accounted(k, c)
      /\ \A c \in {"createPolicy", "revokePolicy"} :
              Accounted("orgPolicies", c)
  BY <1>2 DEF Accounted, Tells, Exempt, KnownStale, CreateRole, UpdateRole,
         DeleteRole, DeleteThisRole, CreatePolicy, RevokePolicy, Invalidates,
         ThenGoTo
<1>4. \A k \in {"orgMembers", "orgMember"} :
        \A c \in {"createPolicy", "revokePolicy"} : Exempt(k, c)
  BY DEF Exempt, KnownStale, PolicyCalls
<1> QED BY <1>1, <1>3, <1>4, Listing DEF Kept, Changes, Accounted

\* The organization, its settings and its workspaces.
LEMMA OrgCallsTold ==
  \A c \in {"updateOrg", "deleteOrg", "updateRuntime", "clearHistory",
           "clearFavorites", "createWorkspace"} : Kept(c)
<1>1. /\ \A c \in {"updateOrg", "deleteOrg"} :
            Endpoint(c).writes = {"org", "orgs"}
      /\ Endpoint("updateRuntime").writes = {"orgSettings"}
      /\ Endpoint("clearHistory").writes = {"history"}
      /\ Endpoint("clearFavorites").writes = {"favorites"}
      /\ Endpoint("createWorkspace").writes = {"workspaces"}
  BY EndpointTables DEF OrgEndpoints, Change
<1>2. /\ Call("updateOrg") = UpdateOrg
      /\ Call("deleteOrg") = DeleteOrg
      /\ Call("updateRuntime") = UpdateRuntime
      /\ Call("clearHistory") = ClearHistory
      /\ Call("clearFavorites") = ClearFavorites
      /\ Call("createWorkspace") = CreateWorkspace
  BY CallTables DEF OrgCalls
<1>3. \A k \in {"accountOrganizations", "instanceOrganizations", "org", "session"} :
        Accounted(k, "updateOrg")
  BY <1>2 DEF Accounted, Tells, UpdateOrg, Invalidates
<1>4. \A k \in {"accountOrganizations", "instanceOrganizations", "org", "session"} :
        Accounted(k, "deleteOrg")
  <2>1. \A k \in {"accountOrganizations", "org", "session"} : Tells(k, "deleteOrg")
    BY <1>2 DEF Tells, DeleteOrg, Invalidates, ThenGoTo
  <2>2. Exempt("instanceOrganizations", "deleteOrg")
    BY DEF Exempt, KnownStale
  <2> QED BY <2>1, <2>2 DEF Accounted
<1>5. /\ Tells("orgRuntimeSettings", "updateRuntime")
      /\ Tells("orgWorkspaces", "createWorkspace")
  BY <1>2 DEF Tells, UpdateRuntime, CreateWorkspace, Invalidates, ThenGoTo
<1>6. /\ Exempt("workspaceHistory", "clearHistory")
      /\ Exempt("favorites", "clearFavorites")
  BY DEF Exempt, KnownStale
<1> QED BY <1>1, <1>3, <1>4, <1>5, <1>6, Listing DEF Kept, Changes, Accounted

\* A workspace and who is in it.
LEMMA WorkspaceCallsTold ==
  \A c \in {"updateWorkspace", "deleteWorkspace", "addWsMember",
           "removeWsMember", "addWsTeam", "removeWsTeam"} : Kept(c)
<1>1. /\ \A c \in {"updateWorkspace", "deleteWorkspace"} :
            Endpoint(c).writes = {"workspace", "workspaces"}
      /\ Endpoint("addWsMember").writes = {"wsMembers"}
      /\ Endpoint("removeWsMember").writes = {"wsMembers", "dbSessions"}
      /\ \A c \in {"addWsTeam", "removeWsTeam"} :
            Endpoint(c).writes = {"wsTeams", "dbSessions"}
  BY EndpointTables DEF WorkspaceEndpoints, Change, RemovedWsMember, ChangedWsTeam
<1>2. /\ Call("updateWorkspace") = UpdateWorkspace
      /\ Call("deleteWorkspace") = DeleteWorkspace
      /\ Call("addWsMember") = AddWsMember
      /\ Call("removeWsMember") = RemoveWsMember
      /\ Call("addWsTeam") = AddWsTeam
      /\ Call("removeWsTeam") = RemoveWsTeam
  BY CallTables DEF WorkspaceCalls
<1>3. /\ \A k \in {"orgWorkspace", "orgWorkspaces"},
            c \in {"updateWorkspace", "deleteWorkspace"} :
              Accounted(k, c)
      /\ \A k \in {"wsEffectiveMembers", "wsMembers"},
            c \in {"addWsMember", "removeWsMember"} :
              Accounted(k, c)
      /\ \A k \in {"wsEffectiveMembers", "wsTeams"},
            c \in {"addWsTeam", "removeWsTeam"} :
              Accounted(k, c)
  BY <1>2 DEF Accounted, Tells, Exempt, KnownStale, UpdateWorkspace,
         DeleteWorkspace, AddWsMember, RemoveWsMember, AddWsTeam, RemoveWsTeam,
         Invalidates, ThenGoTo, InvalidateWorkspaceUserQueries
<1>4. \A c \in {"removeWsMember", "addWsTeam", "removeWsTeam"} :
        Exempt("ideSessions", c)
  BY DEF Exempt, KnownStale
<1> QED BY <1>1, <1>3, <1>4, Listing DEF Kept, Changes, Accounted

\* Roles and policies of a workspace.
LEMMA WorkspaceRoleCallsTold ==
  \A c \in {"createWsRole", "updateWsRole", "deleteWsRole",
           "deleteThisWsRole", "createWsPolicy", "revokeWsPolicy"} : Kept(c)
<1>1. /\ Endpoint("createWsRole").writes = {"wsRoles"}
      /\ \A c \in {"updateWsRole", "deleteWsRole", "deleteThisWsRole"} :
            Endpoint(c).writes = {"wsRole", "wsRoles"}
      /\ \A c \in {"createWsPolicy", "revokeWsPolicy"} :
            Endpoint(c).writes = {"wsBindings"}
  BY EndpointTables DEF WorkspaceEndpoints, Change
<1>2. /\ Call("createWsRole") = CreateWsRole
      /\ Call("updateWsRole") = UpdateWsRole
      /\ Call("deleteWsRole") = DeleteWsRole
      /\ Call("deleteThisWsRole") = DeleteThisWsRole
      /\ Call("createWsPolicy") = CreateWsPolicy
      /\ Call("revokeWsPolicy") = RevokeWsPolicy
  BY CallTables DEF WorkspaceCalls
<1>3. /\ Accounted("wsRoles", "createWsRole")
      /\ \A k \in {"wsRole", "wsRoles"},
            c \in {"updateWsRole", "deleteWsRole", "deleteThisWsRole"} :
              Accounted(k, c)
      /\ \A c \in {"createWsPolicy", "revokeWsPolicy"} :
              Accounted("wsPolicies", c)
  BY <1>2 DEF Accounted, Tells, Exempt, KnownStale, CreateWsRole, UpdateWsRole,
         DeleteWsRole, DeleteThisWsRole, CreateWsPolicy, RevokeWsPolicy,
         Invalidates, ThenGoTo
<1> QED BY <1>1, <1>3, Listing DEF Kept, Changes

\* Environments, from the pages and from the editor.
LEMMA EnvironmentCallsTold ==
  \A c \in {"createEnvironment", "renameEnvironment", "deleteEnvironment",
           "ideCreateEnvironment", "ideRenameEnvironment",
           "ideDeleteEnvironment"} : Kept(c)
<1>1. /\ \A c \in {"renameEnvironment", "ideRenameEnvironment"} :
            Endpoint(c).writes = {"environments"}
      /\ \A c \in {"createEnvironment", "ideCreateEnvironment"} :
            Endpoint(c).writes = {"environments", "environmentCount"}
      /\ \A c \in DeleteEnvironmentCalls :
            Endpoint(c).writes = {"environments", "environmentCount", "wsBindings"}
  BY EndpointTables DEF WorkspaceEndpoints, IdeEndpoints, Change, CreatedEnvironment,
         DeletedEnvironment, DeleteEnvironmentCalls
<1>2. /\ Call("createEnvironment") = CreateEnvironment
      /\ Call("renameEnvironment") = UpdateEnvironment
      /\ Call("deleteEnvironment") = DeleteEnvironment
      /\ Call("ideCreateEnvironment") = IdeCreateEnvironment
      /\ Call("ideRenameEnvironment") = IdeRenameEnvironment
      /\ Call("ideDeleteEnvironment") = IdeDeleteEnvironment
  BY CallTables DEF WorkspaceCalls, IdeCalls
<1>3. \A k \in {"ideEnvironments", "orgEnvironments"},
            c \in {"createEnvironment", "renameEnvironment", "deleteEnvironment",
                   "ideCreateEnvironment", "ideRenameEnvironment",
                   "ideDeleteEnvironment"} :
              Accounted(k, c)
  BY <1>2 DEF Accounted, Tells, Exempt, ToldOtherVariant, Variants,
         CreateEnvironment, UpdateEnvironment, DeleteEnvironment,
         IdeCreateEnvironment, IdeRenameEnvironment, IdeDeleteEnvironment,
         Invalidates
<1>4. /\ \A k \in {"orgWorkspaces", "orgWorkspace"} : \A c \in CountedCalls : Exempt(k, c)
      /\ \A c \in DeleteEnvironmentCalls : Exempt("wsPolicies", c)
  BY DEF Exempt, KnownStale
<1>5. /\ {"createEnvironment", "ideCreateEnvironment"} \subseteq CountedCalls
      /\ DeleteEnvironmentCalls \subseteq CountedCalls
      /\ DeleteEnvironmentCalls = {"deleteEnvironment", "ideDeleteEnvironment"}
  BY DEF CountedCalls, DeleteEnvironmentCalls
<1> QED BY <1>1, <1>3, <1>4, <1>5, Listing DEF Kept, Changes, Accounted

\* Connections, from the pages and from the editor.
LEMMA ConnectionCallsTold ==
  \A c \in {"createConnection", "testConnection", "updateConnection",
           "deleteConnection", "ideDeleteConnection"} : Kept(c)
<1>1. /\ Endpoint("createConnection").writes = {"connections", "connectionCount"}
      /\ Endpoint("testConnection").writes = {}
      /\ Endpoint("updateConnection").writes
           = {"connections", "dsn", "schema", "dbSessions"}
      /\ \A c \in DeleteConnectionCalls :
            Endpoint(c).writes = {"connections", "connectionCount", "wsBindings",
                                  "history", "favorites"}
  BY EndpointTables DEF WorkspaceEndpoints, IdeEndpoints, Change, CreatedConnection,
         UpdatedConnection, DeletedConnection, DeleteConnectionCalls
<1>2. /\ Call("createConnection") = CreateConnection
      /\ Call("updateConnection") = UpdateConnection
      /\ Call("deleteConnection") = DeleteConnection
      /\ Call("ideDeleteConnection") = IdeDeleteConnection
  BY CallTables DEF WorkspaceCalls, IdeCalls
<1>3. /\ \A k \in {"connections", "ideConnections"},
            c \in {"createConnection", "deleteConnection", "ideDeleteConnection"} :
              Accounted(k, c)
      /\ \A k \in {"connectionDsn", "connections", "ideConnections"} :
              Accounted(k, "updateConnection")
  BY <1>2 DEF Accounted, Tells, Exempt, ToldOtherVariant, Variants,
         CreateConnection, UpdateConnection, DeleteConnection,
         IdeDeleteConnection, Invalidates
<1>4. /\ \A k \in {"orgWorkspaces", "orgWorkspace"} : \A c \in CountedCalls : Exempt(k, c)
      /\ \A k \in {"wsPolicies", "workspaceHistory", "favorites"} :
            \A c \in DeleteConnectionCalls : Exempt(k, c)
      /\ \A k \in {"ideSessions", "directory", "relationships", "schemaObject",
                  "generateStatement"} :
            Exempt(k, "updateConnection")
  BY DEF Exempt, KnownStale
<1>5. /\ "createConnection" \in CountedCalls /\ DeleteConnectionCalls \subseteq CountedCalls
      /\ DeleteConnectionCalls = {"deleteConnection", "ideDeleteConnection"}
  BY DEF CountedCalls, DeleteConnectionCalls
<1> QED BY <1>1, <1>3, <1>4, <1>5, Listing DEF Kept, Changes, Accounted

\* Database sessions and schemas.
LEMMA SchemaCallsTold ==
  \A c \in {"connect", "disconnect", "refreshSchema", "schemaEdit"} : Kept(c)
<1>1. /\ \A c \in {"connect", "disconnect"} :
            Endpoint(c).writes = {"dbSessions"}
      /\ \A c \in {"refreshSchema", "schemaEdit"} :
            Endpoint(c).writes = {"schema"}
  BY EndpointTables DEF IdeEndpoints, Change
<1>2. /\ Call("connect") = Connect
      /\ Call("disconnect") = Disconnect
      /\ Call("refreshSchema") = RefreshSchema
      /\ Call("schemaEdit") = SchemaEdit
  BY CallTables DEF IdeCalls
<1>3. /\ \A c \in {"connect", "disconnect"} : Accounted("ideSessions", c)
      /\ \A k \in {"directory", "generateStatement", "relationships", "schemaObject"},
            c \in {"refreshSchema", "schemaEdit"} :
              Accounted(k, c)
  BY <1>2 DEF Accounted, Tells, Exempt, KnownStale, Connect, Disconnect,
         RefreshSchema, SchemaEdit, Invalidates,
         InvalidateConnectionSchemaQueries
<1> QED BY <1>1, <1>3, Listing DEF Kept, Changes

\* Files.
LEMMA FileCallsTold ==
  \A c \in {"saveAs", "createItem", "renameFile", "duplicateFile",
           "deleteFile"} : Kept(c)
<1>1. \A c \in {"saveAs", "createItem", "renameFile", "duplicateFile", "deleteFile"} :
            Endpoint(c).writes = {"files"}
  BY EndpointTables DEF IdeEndpoints, Change
<1>2. /\ Call("saveAs") = SaveAs
      /\ Call("createItem") = CreateItem
      /\ Call("renameFile") = RenameFile
      /\ Call("duplicateFile") = DuplicateFile
      /\ Call("deleteFile") = DeleteFile
  BY CallTables DEF IdeCalls
<1>3. \A k \in {"privateBrowser", "privateSearch"},
            c \in {"saveAs", "createItem", "renameFile", "duplicateFile", "deleteFile"} :
              Accounted(k, c)
  BY <1>2 DEF Accounted, Tells, Exempt, KnownStale, SaveAs, CreateItem,
         RenameFile, DuplicateFile, DeleteFile, Invalidates
<1> QED BY <1>1, <1>3, Listing DEF Kept, Changes

\* History, favorites and exports.
LEMMA HistoryCallsTold ==
  \A c \in {"recordHistory", "deleteHistory", "createFavorite",
           "updateFavorite", "deleteFavorite", "submitExport", "cancelExport",
           "retryExport"} : Kept(c)
<1>1. /\ \A c \in {"recordHistory", "deleteHistory"} :
            Endpoint(c).writes = {"history"}
      /\ \A c \in {"createFavorite", "updateFavorite", "deleteFavorite"} :
            Endpoint(c).writes = {"favorites"}
      /\ \A c \in {"submitExport", "cancelExport", "retryExport"} :
            Endpoint(c).writes = {"jobs"}
  BY EndpointTables DEF IdeEndpoints, Change
<1>2. /\ Call("recordHistory") = RecordHistory
      /\ Call("deleteHistory") = DeleteHistory
      /\ Call("createFavorite") = CreateFavorite
      /\ Call("updateFavorite") = UpdateFavorite
      /\ Call("deleteFavorite") = DeleteFavorite
      /\ Call("submitExport") = SubmitExport
      /\ Call("cancelExport") = CancelExport
      /\ Call("retryExport") = RetryExport
  BY CallTables DEF IdeCalls
<1>3. /\ \A c \in {"recordHistory", "deleteHistory"} :
              Accounted("workspaceHistory", c)
      /\ \A c \in {"createFavorite", "updateFavorite", "deleteFavorite"} :
              Accounted("favorites", c)
      /\ \A c \in {"submitExport", "cancelExport", "retryExport"} :
              Accounted("jobs", c)
  BY <1>2 DEF Accounted, Tells, Exempt, KnownStale, RecordHistory,
         DeleteHistory, CreateFavorite, UpdateFavorite, DeleteFavorite,
         SubmitExport, CancelExport, RetryExport, Invalidates
<1> QED BY <1>1, <1>3, Listing DEF Kept, Changes

\* Every call is one of these.
LEMMA EveryChangeTold == \A c \in CallNames : Kept(c)
<1>1. \A c \in DOMAIN OrgCalls : Kept(c)
  BY TeamCallsTold, MemberCallsTold, RoleCallsTold, OrgCallsTold DEF OrgCalls
<1>2. \A c \in DOMAIN WorkspaceCalls : Kept(c)
  BY WorkspaceCallsTold, WorkspaceRoleCallsTold, EnvironmentCallsTold,
     ConnectionCallsTold DEF WorkspaceCalls
<1>3. \A c \in DOMAIN AdminCalls : Kept(c)
  BY AccountCallsTold, AdministrationCallsTold DEF AdminCalls
<1>4. \A c \in DOMAIN IdeCalls : Kept(c)
  BY EnvironmentCallsTold, ConnectionCallsTold, SchemaCallsTold, FileCallsTold,
     HistoryCallsTold DEF IdeCalls
<1> QED BY <1>1, <1>2, <1>3, <1>4 DEF CallNames

\* However the pages, the calls, their answers, refetches and sign-ins interleave,
\* and however often the call is made: a page on which everything has come to rest
\* shows what the server has, but for the keys no success tells the cache of
\* (onSuccess of the mutations against query-keys.ts and the rows they change).
THEOREM RestIsFresh == Spec => []ShownIsFresh
<1>1. FreshInv => ShownIsFresh
  <2> SUFFICES ASSUME FreshInv, Settled, ~Exempt(focus.key, focus.call)
               PROVE  have.at = changes
    BY DEF ShownIsFresh, Exempt
  <2>1. focus.key \in Keys
    BY DEF Settled, Active, ReadIn
  <2>2. "none" \notin Keys
    BY DEF Keys, AuthQueries, InstanceQueries, OrganizationQueries, WorkspaceQueries,
           SchemaQueries, FileQueries, HistoryQueries, FavoriteQueries
  <2>3. focus.call \in CallNames /\ Related(focus.key, focus.call)
    BY <2>1, <2>2 DEF FreshInv, GoodFocus, NoFocus
  <2>4. Tells(focus.key, focus.call)
    BY <2>1, <2>3, EveryChangeTold DEF Related, Kept, Accounted
  <2> QED BY <2>4 DEF FreshInv, Freshness, Settled, Sure
<1> QED BY <1>1, FreshInit, FreshStep, PTL DEF Spec

\* The call changes rows of the key and does not tell the cache.
LeftBehind(k, c) == Changes(k, c) /\ ~Tells(k, c)

\* The exceptions are no wider than the code makes them: each of these calls
\* does change rows its key lists, and its success does not tell the cache of
\* the key (the handlers of the calls against onSuccess of the mutations).
THEOREM ExceptionsAreReal ==
  \A k \in DOMAIN KnownStale : \A c \in KnownStale[k] : LeftBehind(k, c)
\* The accounts and the lists of organizations.
<1>1. /\ LeftBehind("instanceAccounts", "updateProfile")
      /\ LeftBehind("accountOrganizations", "createOrg")
      /\ LeftBehind("instanceOrganizations", "deleteOrg")
  <2>1. /\ "accounts" \in Endpoint("updateProfile").writes
        /\ "orgs" \in Endpoint("createOrg").writes
        /\ "orgs" \in Endpoint("deleteOrg").writes
    BY EndpointTables DEF Change, AccountEndpoints, InstanceEndpoints, OrgEndpoints
  <2>2. /\ Call("updateProfile") = UpdateProfile
        /\ Call("createOrg") = CreateOrg
        /\ Call("deleteOrg") = DeleteOrg
    BY CallTables DEF AdminCalls, OrgCalls
  <2>3. /\ "accounts" \in Lists("instanceAccounts")
        /\ "orgs" \in Lists("accountOrganizations")
        /\ "orgs" \in Lists("instanceOrganizations")
    BY DEF Lists, AuthQueries, InstanceQueries, OrganizationRows
  <2>4. /\ DeleteOrg.invalidates = {"accountOrganizations", "session"}
        /\ DeleteOrg.sets = {} /\ DeleteOrg.removes = {"org"}
    BY DEF DeleteOrg, Invalidates, ThenGoTo
  <2>5. /\ ~Tells("instanceAccounts", "updateProfile")
        /\ ~Tells("accountOrganizations", "createOrg")
        /\ ~Tells("instanceOrganizations", "deleteOrg")
    BY <2>2, <2>4 DEF Tells, UpdateProfile, CreateOrg, Invalidates
  <2> QED BY <2>1, <2>3, <2>5 DEF LeftBehind, Changes
<1>2. /\ LeftBehind("accountOrganizations", "createTeam")
      /\ LeftBehind("instanceOrganizations", "createTeam")
  <2>1. "teamCount" \in Endpoint("createTeam").writes
    BY EndpointTables DEF Change, OrgEndpoints, CreatedTeam
  <2>2. Call("createTeam") = CreateTeam
    BY CallTables DEF OrgCalls
  <2>3. /\ "teamCount" \in Lists("accountOrganizations")
        /\ "teamCount" \in Lists("instanceOrganizations")
    BY DEF Lists, AuthQueries, InstanceQueries, OrganizationRows
  <2>4. /\ ~Tells("accountOrganizations", "createTeam")
        /\ ~Tells("instanceOrganizations", "createTeam")
    BY <2>2 DEF Tells, CreateTeam, Invalidates
  <2> QED BY <2>1, <2>3, <2>4 DEF LeftBehind, Changes
\* Roles, members and their bindings.
<1>3. /\ \A c \in {"updateMemberRole", "createPolicy", "revokePolicy"} :
              LeftBehind("orgMembers", c)
      /\ \A c \in {"createPolicy", "revokePolicy"} : LeftBehind("orgMember", c)
      /\ LeftBehind("orgPolicies", "updateMemberRole")
      /\ LeftBehind("orgRole", "deleteRole")
      /\ LeftBehind("wsRole", "deleteWsRole")
  <2>1. /\ \A c \in {"updateMemberRole", "createPolicy", "revokePolicy"} :
                "bindings" \in Endpoint(c).writes
        /\ \A c \in {"createPolicy", "revokePolicy"} :
                "bindings" \in Endpoint(c).writes
        /\ "bindings" \in Endpoint("updateMemberRole").writes
        /\ "role" \in Endpoint("deleteRole").writes
        /\ "wsRole" \in Endpoint("deleteWsRole").writes
    BY EndpointTables DEF Change, OrgEndpoints, MemberBindings, WorkspaceEndpoints
  <2>2. /\ Call("updateMemberRole") = UpdateMemberRole
        /\ Call("createPolicy") = CreatePolicy
        /\ Call("revokePolicy") = RevokePolicy
        /\ Call("deleteRole") = DeleteRole
        /\ Call("deleteWsRole") = DeleteWsRole
    BY CallTables DEF OrgCalls, WorkspaceCalls
  <2>3. /\ "bindings" \in Lists("orgMembers")
        /\ "bindings" \in Lists("orgMember")
        /\ "bindings" \in Lists("orgPolicies")
        /\ "role" \in Lists("orgRole")
        /\ "wsRole" \in Lists("wsRole")
    BY DEF Lists, AuthQueries, InstanceQueries, OrganizationQueries, MemberRows
  <2>4. /\ \A c \in {"updateMemberRole", "createPolicy", "revokePolicy"} :
                ~Tells("orgMembers", c)
        /\ \A c \in {"createPolicy", "revokePolicy"} : ~Tells("orgMember", c)
        /\ ~Tells("orgPolicies", "updateMemberRole")
        /\ ~Tells("orgRole", "deleteRole")
        /\ ~Tells("wsRole", "deleteWsRole")
    BY <2>2 DEF Tells, UpdateMemberRole, Invalidates, CreatePolicy, RevokePolicy,
           DeleteRole, DeleteWsRole
  <2> QED BY <2>1, <2>3, <2>4 DEF LeftBehind, Changes
\* Teams.
<1>4. /\ LeftBehind("orgMemberTeams", "updateTeam")
      /\ \A c \in {"addTeamMember", "removeTeamMember", "addTeam", "removeTeam"} :
              LeftBehind("wsTeams", c)
      /\ \A c \in {"addTeamMember", "removeTeamMember", "addTeam", "removeTeam"} :
              LeftBehind("wsEffectiveMembers", c)
      /\ \A c \in {"addWsTeam", "removeWsTeam"} : LeftBehind("wsEffectiveMembers", c)
  <2>1. /\ "team" \in Endpoint("updateTeam").writes
        /\ \A c \in {"addTeamMember", "removeTeamMember", "addTeam", "removeTeam"} :
                "teamMembers" \in Endpoint(c).writes
        /\ \A c \in {"addWsTeam", "removeWsTeam"} : "wsTeams" \in Endpoint(c).writes
    BY EndpointTables DEF Change, OrgEndpoints, RemovedTeamMember, WorkspaceEndpoints,
           ChangedWsTeam
  <2>2. /\ Call("updateTeam") = UpdateTeam
        /\ Call("addTeamMember") = AddTeamMember
        /\ Call("removeTeamMember") = RemoveTeamMember
        /\ Call("addTeam") = AddTeam
        /\ Call("removeTeam") = RemoveTeam
        /\ Call("addWsTeam") = AddWsTeam
        /\ Call("removeWsTeam") = RemoveWsTeam
    BY CallTables DEF OrgCalls, WorkspaceCalls
  <2>3. /\ "team" \in Lists("orgMemberTeams")
        /\ "teamMembers" \in Lists("wsTeams")
        /\ "teamMembers" \in Lists("wsEffectiveMembers")
        /\ "wsTeams" \in Lists("wsEffectiveMembers")
    BY DEF Lists, AuthQueries, InstanceQueries, OrganizationQueries, WorkspaceQueries,
           AccountTeamRows, WorkspaceTeamRows
  <2>4. /\ ~Tells("orgMemberTeams", "updateTeam")
        /\ \A c \in {"addTeamMember", "removeTeamMember", "addTeam", "removeTeam"} :
                ~Tells("wsTeams", c)
        /\ \A c \in {"addTeamMember", "removeTeamMember", "addTeam", "removeTeam"} :
                ~Tells("wsEffectiveMembers", c)
        /\ \A c \in {"addWsTeam", "removeWsTeam"} : ~Tells("wsEffectiveMembers", c)
    BY <2>2 DEF Tells, UpdateTeam, Invalidates, AddTeamMember, RemoveTeamMember,
           AddTeam, RemoveTeam, AddWsTeam, RemoveWsTeam
  <2> QED BY <2>1, <2>3, <2>4 DEF LeftBehind, Changes
\* Sessions the server drops.
<1>5. \A c \in {"removeTeamMember", "removeTeam", "removeWsMember", "addWsTeam",
                  "removeWsTeam", "updateConnection"} :
              LeftBehind("ideSessions", c)
  <2>1. \A c \in {"removeTeamMember", "removeTeam", "removeWsMember", "addWsTeam",
                    "removeWsTeam", "updateConnection"} :
                "dbSessions" \in Endpoint(c).writes
    BY EndpointTables DEF Change, OrgEndpoints, RemovedTeamMember, WorkspaceEndpoints,
           RemovedWsMember, ChangedWsTeam, UpdatedConnection
  <2>2. /\ Call("removeTeamMember") = RemoveTeamMember
        /\ Call("removeTeam") = RemoveTeam
        /\ Call("removeWsMember") = RemoveWsMember
        /\ Call("addWsTeam") = AddWsTeam
        /\ Call("removeWsTeam") = RemoveWsTeam
        /\ Call("updateConnection") = UpdateConnection
    BY CallTables DEF OrgCalls, WorkspaceCalls
  <2>3. "dbSessions" \in Lists("ideSessions")
    BY DEF Lists, AuthQueries, InstanceQueries, OrganizationQueries, WorkspaceQueries,
           SchemaQueries
  <2>4. \A c \in {"removeTeamMember", "removeTeam", "removeWsMember", "addWsTeam",
                    "removeWsTeam", "updateConnection"} :
                ~Tells("ideSessions", c)
    BY <2>2 DEF Tells, RemoveTeamMember, Invalidates, RemoveTeam, RemoveWsMember,
           InvalidateWorkspaceUserQueries, AddWsTeam, RemoveWsTeam, UpdateConnection
  <2> QED BY <2>1, <2>3, <2>4 DEF LeftBehind, Changes
\* What a workspace counts, and the workspace itself.
<1>6. /\ \A c \in {"createEnvironment", "ideCreateEnvironment",
                  "deleteEnvironment", "ideDeleteEnvironment"} :
              LeftBehind("orgWorkspaces", c)
      /\ \A c \in {"createConnection", "deleteConnection", "ideDeleteConnection"} :
              LeftBehind("orgWorkspaces", c)
  <2>1. /\ \A c \in {"createEnvironment", "ideCreateEnvironment",
                    "deleteEnvironment", "ideDeleteEnvironment"} :
                "environmentCount" \in Endpoint(c).writes
        /\ \A c \in {"createConnection", "deleteConnection", "ideDeleteConnection"} :
                "connectionCount" \in Endpoint(c).writes
    BY EndpointTables DEF Change, WorkspaceEndpoints, CreatedEnvironment,
           IdeEndpoints, DeletedEnvironment, CreatedConnection, DeletedConnection
  <2>2. /\ Call("createEnvironment") = CreateEnvironment
        /\ Call("ideCreateEnvironment") = IdeCreateEnvironment
        /\ Call("deleteEnvironment") = DeleteEnvironment
        /\ Call("ideDeleteEnvironment") = IdeDeleteEnvironment
        /\ Call("createConnection") = CreateConnection
        /\ Call("deleteConnection") = DeleteConnection
        /\ Call("ideDeleteConnection") = IdeDeleteConnection
    BY CallTables DEF WorkspaceCalls, IdeCalls
  <2>3. /\ "environmentCount" \in Lists("orgWorkspaces")
        /\ "connectionCount" \in Lists("orgWorkspaces")
    BY DEF Lists, AuthQueries, InstanceQueries, OrganizationQueries, WorkspaceQueries,
           WorkspaceCounts
  <2>4. /\ \A c \in {"createEnvironment", "ideCreateEnvironment",
                    "deleteEnvironment", "ideDeleteEnvironment"} :
                ~Tells("orgWorkspaces", c)
        /\ \A c \in {"createConnection", "deleteConnection", "ideDeleteConnection"} :
                ~Tells("orgWorkspaces", c)
    BY <2>2 DEF Tells, CreateEnvironment, Invalidates, IdeCreateEnvironment,
           DeleteEnvironment, IdeDeleteEnvironment, CreateConnection,
           DeleteConnection, IdeDeleteConnection
  <2> QED BY <2>1, <2>3, <2>4 DEF LeftBehind, Changes
<1>7. /\ \A c \in {"createEnvironment", "ideCreateEnvironment",
                  "deleteEnvironment", "ideDeleteEnvironment"} :
              LeftBehind("orgWorkspace", c)
      /\ \A c \in {"createConnection", "deleteConnection", "ideDeleteConnection"} :
              LeftBehind("orgWorkspace", c)
      /\ LeftBehind("orgWorkspace", "deleteWorkspace")
  <2>1. /\ \A c \in {"createEnvironment", "ideCreateEnvironment",
                    "deleteEnvironment", "ideDeleteEnvironment"} :
                "environmentCount" \in Endpoint(c).writes
        /\ \A c \in {"createConnection", "deleteConnection", "ideDeleteConnection"} :
                "connectionCount" \in Endpoint(c).writes
        /\ "workspace" \in Endpoint("deleteWorkspace").writes
    BY EndpointTables DEF Change, WorkspaceEndpoints, CreatedEnvironment,
           IdeEndpoints, DeletedEnvironment, CreatedConnection, DeletedConnection
  <2>2. /\ Call("createEnvironment") = CreateEnvironment
        /\ Call("ideCreateEnvironment") = IdeCreateEnvironment
        /\ Call("deleteEnvironment") = DeleteEnvironment
        /\ Call("ideDeleteEnvironment") = IdeDeleteEnvironment
        /\ Call("createConnection") = CreateConnection
        /\ Call("deleteConnection") = DeleteConnection
        /\ Call("ideDeleteConnection") = IdeDeleteConnection
        /\ Call("deleteWorkspace") = DeleteWorkspace
    BY CallTables DEF WorkspaceCalls, IdeCalls
  <2>3. /\ "environmentCount" \in Lists("orgWorkspace")
        /\ "connectionCount" \in Lists("orgWorkspace")
        /\ "workspace" \in Lists("orgWorkspace")
    BY DEF Lists, AuthQueries, InstanceQueries, OrganizationQueries, WorkspaceQueries,
           WorkspaceCounts
  <2>4. /\ \A c \in {"createEnvironment", "ideCreateEnvironment",
                    "deleteEnvironment", "ideDeleteEnvironment"} :
                ~Tells("orgWorkspace", c)
        /\ \A c \in {"createConnection", "deleteConnection", "ideDeleteConnection"} :
                ~Tells("orgWorkspace", c)
        /\ ~Tells("orgWorkspace", "deleteWorkspace")
    BY <2>2 DEF Tells, CreateEnvironment, Invalidates, IdeCreateEnvironment,
           DeleteEnvironment, IdeDeleteEnvironment, CreateConnection,
           DeleteConnection, IdeDeleteConnection, DeleteWorkspace, ThenGoTo
  <2> QED BY <2>1, <2>3, <2>4 DEF LeftBehind, Changes
\* What goes with an environment or a connection.
<1>8. /\ \A c \in {"deleteEnvironment", "ideDeleteEnvironment", "deleteConnection",
                  "ideDeleteConnection"} : LeftBehind("wsPolicies", c)
      /\ \A c \in {"deleteConnection", "ideDeleteConnection"} :
              LeftBehind("workspaceHistory", c)
      /\ \A c \in {"deleteConnection", "ideDeleteConnection"} :
              LeftBehind("favorites", c)
  <2>1. /\ \A c \in {"deleteEnvironment", "ideDeleteEnvironment", "deleteConnection",
                    "ideDeleteConnection"} :
                "wsBindings" \in Endpoint(c).writes
        /\ \A c \in {"deleteConnection", "ideDeleteConnection"} :
                "history" \in Endpoint(c).writes
        /\ \A c \in {"deleteConnection", "ideDeleteConnection"} :
                "favorites" \in Endpoint(c).writes
    BY EndpointTables DEF Change, WorkspaceEndpoints, DeletedEnvironment,
           IdeEndpoints, DeletedConnection
  <2>2. /\ Call("deleteEnvironment") = DeleteEnvironment
        /\ Call("ideDeleteEnvironment") = IdeDeleteEnvironment
        /\ Call("deleteConnection") = DeleteConnection
        /\ Call("ideDeleteConnection") = IdeDeleteConnection
    BY CallTables DEF WorkspaceCalls, IdeCalls
  <2>3. /\ "wsBindings" \in Lists("wsPolicies")
        /\ "history" \in Lists("workspaceHistory")
        /\ "favorites" \in Lists("favorites")
    BY DEF Lists, AuthQueries, InstanceQueries, OrganizationQueries, WorkspaceQueries,
           SchemaQueries, FileQueries, HistoryQueries, FavoriteQueries
  <2>4. /\ \A c \in {"deleteEnvironment", "ideDeleteEnvironment", "deleteConnection",
                    "ideDeleteConnection"} : ~Tells("wsPolicies", c)
        /\ \A c \in {"deleteConnection", "ideDeleteConnection"} :
                ~Tells("workspaceHistory", c)
        /\ \A c \in {"deleteConnection", "ideDeleteConnection"} :
                ~Tells("favorites", c)
    BY <2>2 DEF Tells, DeleteEnvironment, Invalidates, IdeDeleteEnvironment,
           DeleteConnection, IdeDeleteConnection
  <2> QED BY <2>1, <2>3, <2>4 DEF LeftBehind, Changes
\* Schemas.
<1>9. /\ LeftBehind("directory", "updateConnection")
      /\ LeftBehind("relationships", "updateConnection")
      /\ LeftBehind("schemaObject", "updateConnection")
      /\ \A c \in {"refreshSchema", "schemaEdit", "updateConnection"} :
              LeftBehind("generateStatement", c)
  <2>1. /\ "schema" \in Endpoint("updateConnection").writes
        /\ \A c \in {"refreshSchema", "schemaEdit", "updateConnection"} :
                "schema" \in Endpoint(c).writes
    BY EndpointTables DEF Change, WorkspaceEndpoints, UpdatedConnection, IdeEndpoints
  <2>2. /\ Call("updateConnection") = UpdateConnection
        /\ Call("refreshSchema") = RefreshSchema
        /\ Call("schemaEdit") = SchemaEdit
    BY CallTables DEF WorkspaceCalls, IdeCalls
  <2>3. /\ "schema" \in Lists("directory")
        /\ "schema" \in Lists("relationships")
        /\ "schema" \in Lists("schemaObject")
        /\ "schema" \in Lists("generateStatement")
    BY DEF Lists, AuthQueries, InstanceQueries, OrganizationQueries, WorkspaceQueries,
           SchemaQueries
  <2>4. /\ ~Tells("directory", "updateConnection")
        /\ ~Tells("relationships", "updateConnection")
        /\ ~Tells("schemaObject", "updateConnection")
        /\ \A c \in {"refreshSchema", "schemaEdit", "updateConnection"} :
                ~Tells("generateStatement", c)
    BY <2>2 DEF Tells, UpdateConnection, Invalidates, RefreshSchema,
           InvalidateConnectionSchemaQueries, SchemaEdit
  <2> QED BY <2>1, <2>3, <2>4 DEF LeftBehind, Changes
\* Files.
<1>10. \A c \in {"saveAs", "createItem", "deleteFile", "renameFile",
                   "duplicateFile"} : LeftBehind("privateSearch", c)
  <2>1. \A c \in {"saveAs", "createItem", "deleteFile", "renameFile",
                    "duplicateFile"} : "files" \in Endpoint(c).writes
    BY EndpointTables DEF Change, IdeEndpoints
  <2>2. /\ Call("saveAs") = SaveAs
        /\ Call("createItem") = CreateItem
        /\ Call("deleteFile") = DeleteFile
        /\ Call("renameFile") = RenameFile
        /\ Call("duplicateFile") = DuplicateFile
    BY CallTables DEF IdeCalls
  <2>3. "files" \in Lists("privateSearch")
    BY DEF Lists, AuthQueries, InstanceQueries, OrganizationQueries, WorkspaceQueries,
           SchemaQueries, FileQueries
  <2>4. \A c \in {"saveAs", "createItem", "deleteFile", "renameFile",
                    "duplicateFile"} : ~Tells("privateSearch", c)
    BY <2>2 DEF Tells, SaveAs, Invalidates, CreateItem, DeleteFile, RenameFile,
           DuplicateFile
  <2> QED BY <2>1, <2>3, <2>4 DEF LeftBehind, Changes
\* History, favorites and exports, emptied or added to.
<1>11. /\ LeftBehind("workspaceHistory", "clearHistory")
       /\ LeftBehind("favorites", "clearFavorites")
       /\ LeftBehind("jobs", "submitExport")
  <2>1. /\ "history" \in Endpoint("clearHistory").writes
        /\ "favorites" \in Endpoint("clearFavorites").writes
        /\ "jobs" \in Endpoint("submitExport").writes
    BY EndpointTables DEF Change, OrgEndpoints, IdeEndpoints
  <2>2. /\ Call("clearHistory") = ClearHistory
        /\ Call("clearFavorites") = ClearFavorites
        /\ Call("submitExport") = SubmitExport
    BY CallTables DEF OrgCalls, IdeCalls
  <2>3. /\ "history" \in Lists("workspaceHistory")
        /\ "favorites" \in Lists("favorites")
        /\ "jobs" \in Lists("jobs")
    BY DEF Lists, AuthQueries, InstanceQueries, OrganizationQueries, WorkspaceQueries,
           SchemaQueries, FileQueries, HistoryQueries, FavoriteQueries
  <2>4. /\ ~Tells("workspaceHistory", "clearHistory")
        /\ ~Tells("favorites", "clearFavorites")
        /\ ~Tells("jobs", "submitExport")
    BY <2>2 DEF Tells, ClearHistory, Invalidates, ClearFavorites, SubmitExport
  <2> QED BY <2>1, <2>3, <2>4 DEF LeftBehind, Changes
<1> QED BY <1>1, <1>2, <1>3, <1>4, <1>5, <1>6, <1>7, <1>8, <1>9, <1>10, <1>11
        DEF KnownStale, TeamMemberCalls, DeleteConnectionCalls, DeleteEnvironmentCalls,
            CountedCalls, PolicyCalls

-----------------------------------------------------------------------------
(* The routes: what an account has to have for the server to accept what   *)
(* the pages ask.                                                          *)

\* What the pages count on in an account, whatever its roles: a member has
\* Baseline Access, a workspace is one of the organization's and passes on
\* what applies to it, who may change policies may read them, ownership is
\* handed over by the Owner, and who may do anything on a connection may query
\* it. The built-in roles are like this; a custom role with policy:modify or
\* conn:ddl alone is not.
Coherent(account) ==
  /\ "org" \in account.belongs => "org:read" \in account.org
  /\ account.ws # {} => "org" \in account.belongs
  /\ account.ws \subseteq WorkspaceApplicable
  /\ "policy:modify" \in account.org => "policy:read" \in account.org
  /\ "policy:modify" \in account.ws => "policy:read" \in account.ws
  /\ "org:transfer_ownership" \in account.org => account.owns
  /\ Runnable \cap account.ws # {}
       => {"conn:execute", "conn:dql"} \cap account.ws # {}

LEMMA BuiltInRoles == \A g \in GrantNames : Coherent(Grants[g])
<1>1. Coherent(Grants["owner"])
  BY DEF Grants, Coherent, OwnerPermissions, AdministratorPermissions,
         WorkspaceApplicable, Runnable
<1>2. Coherent(Grants["administrator"])
  BY DEF Grants, Coherent, AdministratorPermissions, WorkspaceApplicable, Runnable
<1>3. Coherent(Grants["baseline"]) /\ Coherent(Grants["instanceAdmin"])
  BY DEF Grants, Coherent, BaselinePermissions
<1>4. Coherent(Grants["workspaceAdmin"])
  BY DEF Grants, Coherent, BaselinePermissions, WorkspaceAdminPermissions,
         WorkspaceApplicable, AdministratorPermissions, Runnable
<1>5. Coherent(Grants["workspaceMember"])
  BY DEF Grants, Coherent, BaselinePermissions, WorkspaceMemberPermissions,
         WorkspaceApplicable, AdministratorPermissions, Runnable
<1>6. GrantNames = {"owner", "administrator", "baseline", "workspaceAdmin",
                    "workspaceMember", "instanceAdmin"}
  BY DEF GrantNames, Grants
<1> QED BY <1>1, <1>2, <1>3, <1>4, <1>5, <1>6

\* One requirement at a time.
LEMMA Requirements ==
  ASSUME NEW account
  PROVE  /\ Accepts(account, Public) /\ Accepts(account, Account)
         /\ "instance" \in account.belongs => Accepts(account, InstanceAdmin)
         /\ "org" \in account.belongs => Accepts(account, OrgMember)
         /\ "ws" \in account.belongs => Accepts(account, WorkspaceMember)
         /\ account.owns => Accepts(account, OrgOwner)
         /\ \A perm \in account.org : Accepts(account, Org(perm))
         /\ \A perm \in account.ws : Accepts(account, Workspace(perm))
         /\ \A perms : perms \cap account.ws # {} => Accepts(account, AnyOf(perms))
BY DEF Accepts, Public, Account, InstanceAdmin, OrgMember, WorkspaceMember, OrgOwner,
       Org, Workspace, AnyOf

May(account, request) == Accepts(account, Endpoint(request).needs)

\* What every account may.
LEMMA AccountRoutes ==
  /\ Endpoint("setupStatus").needs = Public
  /\ \A r \in {"session", "accountOrganizations", "updateProfile",
              "updatePassword"} :
       Endpoint(r).needs = Account
BY EndpointTables DEF AccountEndpoints, Get, Change

\* The administration of the instance.
LEMMA InstanceRoutes ==
  /\ \A r \in {"instanceAdmins", "instanceAccounts", "instanceOrganizations",
              "instanceSettings", "instanceConfiguration", "addAdmin",
              "removeAdmin", "createAccount", "createOrg", "updateInstance"} :
       Endpoint(r).needs = InstanceAdmin
BY EndpointTables DEF InstanceEndpoints, Get, Change

\* An organization.
LEMMA OrgRoutes ==
  /\ \A r \in {"org", "orgPermissions", "orgWorkspaces"} :
       Endpoint(r).needs = OrgMember
  /\ \A r \in {"orgRuntimeSettings", "orgMembers", "orgMember",
              "orgMemberTeams", "orgTeams", "orgTeam", "orgTeamMembers"} :
       Endpoint(r).needs = Org("org:read")
  /\ \A r \in {"orgInvitations", "inviteUser", "resendInvitation",
              "revokeInvitation"} :
       Endpoint(r).needs = Org("org:invite")
  /\ \A r \in {"orgRoles", "orgRole", "orgPolicies"} :
       Endpoint(r).needs = Org("policy:read")
  /\ \A r \in {"updateOrg", "updateRuntime", "clearHistory", "clearFavorites",
              "createTeam", "updateTeam", "addTeamMember", "removeTeamMember",
              "addTeam", "removeTeam"} :
       Endpoint(r).needs = Org("org:write")
  /\ Endpoint("deleteOrg").needs = Org("org:delete")
  /\ Endpoint("updateMemberRole").needs = OrgOwner
  /\ \A r \in {"createRole", "updateRole", "deleteRole", "deleteThisRole",
              "createPolicy", "revokePolicy"} :
       Endpoint(r).needs = Org("policy:modify")
  /\ Endpoint("createWorkspace").needs = Org("ws:create")
BY EndpointTables DEF OrgEndpoints, Get, Change

\* A workspace.
LEMMA WorkspaceRoutes ==
  /\ Endpoint("orgWorkspace").needs = Accessible
  /\ \A r \in {"wsMembers", "wsEffectiveMembers", "wsTeams", "wsRoles",
              "wsRole", "wsPolicies"} :
       Endpoint(r).needs = Workspace("policy:read")
  /\ \A r \in {"orgEnvironments", "connections"} : Endpoint(r).needs = OrgMember
  /\ \A r \in {"connectionDsn", "updateConnection"} :
       Endpoint(r).needs = Workspace("conn:update")
  /\ Endpoint("updateWorkspace").needs = Workspace("ws:write")
  /\ Endpoint("deleteWorkspace").needs = Workspace("ws:delete")
  /\ \A r \in {"addWsMember", "removeWsMember", "addWsTeam", "removeWsTeam",
              "createWsRole", "updateWsRole", "deleteWsRole",
              "deleteThisWsRole", "createWsPolicy", "revokeWsPolicy"} :
       Endpoint(r).needs = Workspace("policy:modify")
  /\ Endpoint("createEnvironment").needs = Workspace("env:create")
  /\ Endpoint("renameEnvironment").needs = Workspace("env:write")
  /\ Endpoint("deleteEnvironment").needs = Workspace("env:delete")
  /\ \A r \in {"createConnection", "testConnection"} :
       Endpoint(r).needs = Workspace("conn:create")
  /\ Endpoint("deleteConnection").needs = Workspace("conn:delete")
BY EndpointTables DEF WorkspaceEndpoints, Get, Change

\* What only a member of the workspace itself may: private files and exports.
MembersOnly ==
  {"privateBrowser", "privateSearch", "saveAs", "createItem", "renameFile",
   "duplicateFile", "deleteFile", "jobs", "cancelExport"}

\* The editor.
LEMMA IdeRoutes ==
  /\ \A r \in {"ideEnvironments", "ideConnections", "ideSessions",
              "workspaceHistory", "favorites", "disconnect", "recordHistory",
              "deleteHistory", "createFavorite", "updateFavorite",
              "deleteFavorite"} :
       Endpoint(r).needs = OrgMember
  /\ \A r \in MembersOnly : Endpoint(r).needs = WorkspaceMember
  /\ \A r \in {"sharedBrowser", "sharedSearch"} :
       Endpoint(r).needs = Workspace("wsfile:read")
  /\ \A r \in {"directory", "schemaSpec", "schemaObject", "relationships",
              "generateStatement", "connect", "refreshSchema"} :
       Endpoint(r).needs = AnyOf(Runnable)
  /\ \A r \in {"preview", "previewCount", "submitExport", "retryExport"} :
       Endpoint(r).needs = AnyOf({"conn:execute", "conn:dql"})
  /\ Endpoint("ideCreateEnvironment").needs = Workspace("env:create")
  /\ Endpoint("ideRenameEnvironment").needs = Workspace("env:write")
  /\ Endpoint("ideDeleteEnvironment").needs = Workspace("env:delete")
  /\ Endpoint("ideDeleteConnection").needs = Workspace("conn:delete")
  /\ Endpoint("schemaEdit").needs = AnyOf({"conn:execute", "conn:ddl"})
BY EndpointTables DEF IdeEndpoints, Get, Change, JobAccess, MembersOnly

\* The pages of an organization, with what of the account's permissions they
\* have.
LEMMA OrgPagesAsk ==
  ASSUME NEW account, Coherent(account), "org" \in account.belongs,
         NEW p \in SUBSET account.org, NEW o
  PROVE  \A pg \in OrgPageNames : \A r \in OrgReads(p, o)[pg] :
           r = "orgPolicy" \/ May(account, r)
<1> USE DEF May, When, Has
<1>1. /\ "org:read" \in account.org
      /\ "policy:modify" \in account.org => "policy:read" \in account.org
  BY DEF Coherent
<1>2. \A r \in TeamsReads(p, o) \cup TeamReads(p, o) : May(account, r)
  BY <1>1, OrgRoutes, Requirements DEF TeamsReads, TeamReads
<1>3. \A r \in UsersReads(p, o) \cup UserReads(p, o) : May(account, r)
  BY <1>1, OrgRoutes, Requirements DEF UsersReads, UserReads
<1>4. \A r \in RolesReads(p, o) \cup RoleReads(p, o) : May(account, r)
  BY <1>1, OrgRoutes, Requirements DEF RolesReads, RoleReads
<1>5. \A r \in PoliciesReads(p, o) : May(account, r)
  BY <1>1, OrgRoutes, Requirements DEF PoliciesReads
<1>6. \A r \in PolicyReads(p, o) : r = "orgPolicy" \/ May(account, r)
  BY <1>1, OrgRoutes, Requirements DEF PolicyReads
<1>7. \A r \in SettingsReads(p, o) \cup RuntimeReads(p) \cup WorkspacesReads(p, o) :
        May(account, r)
  BY <1>1, OrgRoutes, Requirements DEF SettingsReads, RuntimeReads, WorkspacesReads
<1> QED BY <1>2, <1>3, <1>4, <1>5, <1>6, <1>7 DEF OrgPageNames, OrgReads

LEMMA OrgPagesOffer ==
  ASSUME NEW account, Coherent(account), NEW p \in SUBSET account.org, NEW o
  PROVE  \A pg \in OrgPageNames : \A r \in OrgOffers(p, o)[pg] : May(account, r)
<1> USE DEF May, When, Has
<1>1. \A r \in TeamsOffers(p, o) \cup TeamEditor(p, o) \cup TeamMembership(p, o) :
        May(account, r)
  BY OrgRoutes, Requirements DEF TeamsOffers, TeamEditor, TeamMembership
<1>2. \A r \in UsersOffers(p, o) \cup PendingInvitations(p) : May(account, r)
  BY OrgRoutes, Requirements DEF UsersOffers, PendingInvitations
<1>3. \A r \in MemberRole(p) \cup UserTeams(p, o) : May(account, r)
  BY OrgRoutes, Requirements DEF MemberRole, UserTeams, Coherent
<1>4. \A r \in RolesOffers(p, o) \cup RoleRow(p) \cup RoleOffers(p, o) : May(account, r)
  BY OrgRoutes, Requirements DEF RolesOffers, RoleRow, RoleOffers
<1>5. \A r \in PoliciesOffers(p, o) \cup PolicyRow(p) \cup PolicyOffers(p, o) :
        May(account, r)
  BY OrgRoutes, Requirements DEF PoliciesOffers, PolicyRow, PolicyOffers
<1>6. \A r \in GeneralSettings(p) \cup DangerZone(p, o) : May(account, r)
  BY OrgRoutes, Requirements DEF GeneralSettings, DangerZone
<1>7. \A r \in RuntimeForm(p) \cup DataControls(p, o) \cup WorkspacesOffers(p, o) :
        May(account, r)
  BY OrgRoutes, Requirements DEF RuntimeForm, DataControls, WorkspacesOffers
<1> QED BY <1>1, <1>2, <1>3, <1>4, <1>5, <1>6, <1>7 DEF OrgPageNames, OrgOffers

\* The pages of a workspace. Pickers list the organization's members, teams,
\* environments and connections: the account is a member.
LEMMA WorkspacePagesAsk ==
  ASSUME NEW account, Coherent(account), account.ws # {},
         NEW p \in SUBSET account.ws, NEW o
  PROVE  \A pg \in WorkspacePageNames : \A r \in WorkspacePageReads(p, o)[pg] :
           May(account, r)
<1> USE DEF May, When, Has
<1>1. /\ "org" \in account.belongs /\ "org:read" \in account.org
      /\ "policy:modify" \in account.ws => "policy:read" \in account.ws
      /\ WorkspaceApplicable \cap account.ws # {}
  BY DEF Coherent
<1>2. \A r \in WorkspaceReads(p, o) \cup WsSettingsReads(p, o) : May(account, r)
  BY <1>1, WorkspaceRoutes, Requirements DEF WorkspaceReads, WsSettingsReads, Accessible
<1>3. \A r \in WsUsersReads(p, o) \cup WsTeamsReads(p, o) : May(account, r)
  BY <1>1, OrgRoutes, WorkspaceRoutes, Requirements DEF WsUsersReads, WsTeamsReads
<1>4. \A r \in WsRolesReads(p, o) \cup WsRoleReads(p, o) : May(account, r)
  BY <1>1, OrgRoutes, WorkspaceRoutes, Requirements DEF WsRolesReads, WsRoleReads
<1>5. \A r \in WsPoliciesReads(p, o) : May(account, r)
  BY <1>1, OrgRoutes, WorkspaceRoutes, Requirements DEF WsPoliciesReads
<1>6. \A r \in EnvironmentsReads(p, o) \cup ConnectionsReads(p, o) : May(account, r)
  BY <1>1, OrgRoutes, WorkspaceRoutes, Requirements DEF EnvironmentsReads, ConnectionsReads
<1> QED BY <1>2, <1>3, <1>4, <1>5, <1>6 DEF WorkspacePageNames, WorkspacePageReads

LEMMA WorkspacePagesOffer ==
  ASSUME NEW account, NEW p \in SUBSET account.ws, NEW o
  PROVE  \A pg \in WorkspacePageNames : \A r \in WorkspacePageOffers(p, o)[pg] :
           r = "testConnection" \/ May(account, r)
<1> USE DEF May, When, Has
<1>1. \A r \in WsUserPicker(p, o) \cup WorkspaceUserRow(p) : May(account, r)
  BY WorkspaceRoutes, Requirements DEF WsUserPicker, WorkspaceUserRow
<1>2. \A r \in WsTeamPicker(p, o) \cup WorkspaceTeamRow(p) : May(account, r)
  BY WorkspaceRoutes, Requirements DEF WsTeamPicker, WorkspaceTeamRow
<1>3. \A r \in WsRolesOffers(p, o) \cup WsRoleRow(p) \cup WsRoleOffers(p, o) :
        May(account, r)
  BY WorkspaceRoutes, Requirements DEF WsRolesOffers, WsRoleRow, WsRoleOffers
<1>4. \A r \in WsPoliciesOffers(p, o) \cup WsPolicyRow(p) : May(account, r)
  BY WorkspaceRoutes, Requirements DEF WsPoliciesOffers, WsPolicyRow
<1>5. \A r \in EnvironmentsOffers(p, o) \cup EnvironmentRow(p) : May(account, r)
  BY WorkspaceRoutes, Requirements DEF EnvironmentsOffers, EnvironmentRow
<1>6. \A r \in ConnectionsOffers(p, o) \cup ConnectionRow(p) :
        r = "testConnection" \/ May(account, r)
  BY WorkspaceRoutes, Requirements DEF ConnectionsOffers, EditConnectionDialog, ConnectionRow
<1>7. \A r \in WsGeneralSettings(p) \cup WsDangerZone(p, o) : May(account, r)
  BY WorkspaceRoutes, Requirements DEF WsGeneralSettings, WsDangerZone
<1> QED BY <1>1, <1>2, <1>3, <1>4, <1>5, <1>6, <1>7
        DEF WorkspacePageNames, WorkspacePageOffers

\* The panels of the editor. What the server may refuse here is known:
\* files, exports, and the test of a connection.
SharedFiles == {"sharedBrowser", "sharedSearch"}

LEMMA PanelsAsk ==
  ASSUME NEW account, Coherent(account), account.ws # {},
         NEW p \in SUBSET account.ws, NEW o
  PROVE  \A pg \in IdePanelNames : \A r \in IdeReads(p, o)[pg] :
           r \in MembersOnly \cup SharedFiles \/ May(account, r)
<1> USE DEF May, When, Has
<1>1. "org" \in account.belongs
  BY DEF Coherent
<1>2. HasConnection(p) => /\ Runnable \cap account.ws # {}
                          /\ {"conn:execute", "conn:dql"} \cap account.ws # {}
  BY DEF HasConnection, RunnablePermissions, Runnable, Coherent
<1>3. \A r \in DatabaseReads(p, o) : May(account, r)
  BY <1>1, OrgRoutes, WorkspaceRoutes, Requirements DEF DatabaseReads
<1>4. \A r \in SchemaTreeReads(p) \cup SchemaObjectReads(p, o) \cup StatementReads(p, o) :
        May(account, r)
  BY <1>2, IdeRoutes, Requirements DEF SchemaTreeReads, SchemaObjectReads, StatementReads
<1>5. \A r \in ObjectDetailReads(p) \cup ObjectPreviewReads(p) \cup DiagramReads(p) :
        May(account, r)
  BY <1>2, IdeRoutes, Requirements DEF ObjectDetailReads, ObjectPreviewReads, DiagramReads
<1>6. FilesReads \cup SearchReads(o) \subseteq MembersOnly \cup SharedFiles
  BY DEF FilesReads, SearchReads, MembersOnly, SharedFiles
<1>7. \A r \in HistoryReads \cup FavoritesReads \cup ExportsReads :
        r \in MembersOnly \/ May(account, r)
  BY <1>1, IdeRoutes, Requirements
     DEF HistoryReads, FavoritesReads, ExportsReads, MembersOnly
<1> QED BY <1>3, <1>4, <1>5, <1>6, <1>7 DEF IdePanelNames, IdeReads

LEMMA PanelsOffer ==
  ASSUME NEW account, Coherent(account), account.ws # {},
         NEW p \in SUBSET account.ws, NEW o
  PROVE  \A pg \in IdePanelNames : \A r \in IdeOffers(p, o)[pg] \cup ToolbarOffers(p, o) :
           r \in MembersOnly \cup {"testConnection"} \/ May(account, r)
<1> USE DEF May, When, Has
<1>1. "org" \in account.belongs
  BY DEF Coherent
<1>2. HasConnection(p) => /\ Runnable \cap account.ws # {}
                          /\ {"conn:execute", "conn:dql"} \cap account.ws # {}
  BY DEF HasConnection, RunnablePermissions, Runnable, Coherent
<1>3. \A r \in ToolbarOffers(p, o) : May(account, r)
  BY <1>1, <1>2, IdeRoutes, Requirements DEF ToolbarOffers
<1>4. \A r \in DatabasePanelOffers(p, o) \cup EnvironmentMenu(p, o) : May(account, r)
  BY IdeRoutes, Requirements DEF DatabasePanelOffers, EnvironmentMenu
<1>5. \A r \in ConnectionForm(p, o) \cup ConnectionMenu(p, o) :
        r = "testConnection" \/ May(account, r)
  BY IdeRoutes, WorkspaceRoutes, Requirements
     DEF ConnectionForm, ConnectionMenu, EditConnectionDialog
<1>6. \A r \in ConnectionActions(p) \cup RefreshOffers(p) : May(account, r)
  BY <1>1, <1>2, IdeRoutes, Requirements DEF ConnectionActions, RefreshOffers
<1>7. \A r \in SchemaTreeOffers(p, o) : May(account, r)
  <2>1. CanMutate(p) => {"conn:execute", "conn:ddl"} \cap account.ws # {}
    BY DEF CanMutate
  <2> QED BY <1>2, <2>1, IdeRoutes, Requirements DEF SchemaTreeOffers
<1>8. FilesOffers(o) \cup SaveAsOffers(o) \subseteq MembersOnly
  BY DEF FilesOffers, SaveAsOffers, MembersOnly
<1>9. \A r \in HistoryOffers \cup FavoritesOffers(o) \cup ExportsOffers(p) :
        r \in MembersOnly \/ May(account, r)
  BY <1>1, <1>2, IdeRoutes, Requirements
     DEF HistoryOffers, FavoritesOffers, ExportsOffers, MembersOnly
<1> QED BY <1>3, <1>4, <1>5, <1>6, <1>7, <1>8, <1>9 DEF IdePanelNames, IdeOffers

\* The pages outside an organization.
LEMMA AdminPagesAsk ==
  ASSUME NEW account, NEW o
  PROVE  /\ \A pg \in AccountPageNames : \A r \in AdminReads[pg] \cup AdminOffers(o)[pg] :
              May(account, r)
         /\ "instance" \in account.belongs =>
              \A pg \in AdministrationPageNames :
                \A r \in AdminReads[pg] \cup AdminOffers(o)[pg] : May(account, r)
<1> USE DEF May, When
<1>1. \A r \in LandingReads \cup AccountReads \cup MyOrganizationsReads \cup AccountOffers :
        May(account, r)
  BY AccountRoutes, Requirements DEF LandingReads, AccountReads, MyOrganizationsReads,
     AccountOffers
<1>2. ASSUME "instance" \in account.belongs
      PROVE  \A r \in DOMAIN InstanceEndpoints : May(account, r)
  BY <1>2, InstanceRoutes, Requirements DEF InstanceEndpoints
<1>3. /\ AdministratorsReads \cup AdministratorsOffers(o) \subseteq DOMAIN InstanceEndpoints
      /\ AccountsReads \cup AccountsOffers(o) \subseteq DOMAIN InstanceEndpoints
      /\ OrganizationsReads \cup OrganizationsOffers(o) \subseteq DOMAIN InstanceEndpoints
      /\ InstanceReads \cup InstanceOffers \subseteq DOMAIN InstanceEndpoints
  BY DEF AdministratorsReads, AdministratorsOffers, AccountsReads, AccountsOffers,
         OrganizationsReads, OrganizationsOffers, InstanceReads, InstanceOffers,
         InstanceEndpoints
<1>4. \A pg \in AccountPageNames : \A r \in AdminReads[pg] \cup AdminOffers(o)[pg] :
        May(account, r)
  BY <1>1 DEF AccountPageNames, AdminReads, AdminOffers
<1>5. \A pg \in AdministrationPageNames :
        AdminReads[pg] \cup AdminOffers(o)[pg] \subseteq DOMAIN InstanceEndpoints
  BY <1>3 DEF AdministrationPageNames, AdminReads, AdminOffers
<1> QED BY <1>2, <1>4, <1>5

-----------------------------------------------------------------------------
(* What a page asks for and offers, the server lets the account do.        *)

LEMMA PageSets ==
  /\ OrgPageNames \cap (WorkspacePageNames \cup IdePanelNames) = {}
  /\ WorkspacePageNames \cap IdePanelNames = {}
  /\ (AccountPageNames \cup AdministrationPageNames)
       \cap (OrgPageNames \cup WorkspacePageNames \cup IdePanelNames) = {}
BY DEF OrgPageNames, WorkspacePageNames, IdePanelNames, AccountPageNames,
       AdministrationPageNames

LEMMA HasOf ==
  ASSUME NEW account, NEW pg, NEW scopes
  PROVE  /\ pg \in OrgPageNames => Permissions(account, pg, scopes) \subseteq account.org
         /\ pg \in WorkspacePageNames \cup IdePanelNames
              => Permissions(account, pg, scopes) \subseteq account.ws
BY PageSets DEF Permissions, Scope

\* The frames: what every page of an organization, of a workspace and of the
\* editor reads before anything else.
LEMMA LayoutsAsk ==
  ASSUME NEW account, Coherent(account), NEW pg \in Reachable(account)
  PROVE  \A r \in Layout(pg) : May(account, r)
<1> USE DEF May
<1>1. \A r \in {"setupStatus", "session"} : May(account, r)
  BY AccountRoutes, Requirements
<1>2. CASE pg \in OrgPageNames
  <2>1. "org" \in account.belongs
    BY <1>2, PageSets DEF Reachable, When, Coherent
  <2>2. \A r \in OrgLayoutReads : May(account, r)
    BY <1>1, <2>1, OrgRoutes, Requirements DEF OrgLayoutReads
  <2> QED BY <1>2, <2>2 DEF Layout
<1>3. CASE pg \in WorkspacePageNames
  <2>1. "org" \in account.belongs /\ WorkspaceApplicable \cap account.ws # {}
    BY <1>3, PageSets DEF Reachable, When, Coherent
  <2>2. \A r \in WorkspaceLayoutReads : May(account, r)
    BY <1>1, <2>1, OrgRoutes, WorkspaceRoutes, Requirements
       DEF OrgLayoutReads, WorkspaceLayoutReads, Accessible
  <2> QED BY <1>3, <2>2, PageSets DEF Layout
<1>4. CASE pg \in IdePanelNames
  <2>1. "org" \in account.belongs /\ "org:read" \in account.org
    BY <1>4, PageSets DEF Reachable, When, Coherent
  <2>2. \A r \in IdeFrameReads : May(account, r)
    BY <1>1, <2>1, OrgRoutes, IdeRoutes, Requirements
       DEF IdeFrameReads, IdePageReads, WorkspaceIdeReads, ActivityBarReads,
           SessionSyncReads, ToolbarReads
  <2> QED BY <1>4, <2>2, PageSets DEF Layout
<1>5. CASE pg \notin OrgPageNames \cup WorkspacePageNames \cup IdePanelNames
  <2>1. Layout(pg) = {"setupStatus", "session"}
    BY <1>5 DEF Layout, AdministrationLayoutReads, SettingsLayoutReads
  <2> QED BY <1>1, <2>1
<1> QED BY <1>2, <1>3, <1>4, <1>5

\* For an account with any roles the pages can count on (Coherent), not only
\* the built-in ones, on every page it can get to, with its permissions there
\* or not and the dialog open or not: what the page asks for or offers is
\* refused by no route, but for the requests that are known to be
\* (the pages' own tests of permissions against routes.go).
THEOREM NothingRefused ==
  ASSUME NEW account, Coherent(account), NEW pg \in Reachable(account),
         NEW there, NEW o,
         NEW r \in Reads(account, pg, there, o) \cup Offers(account, pg, there, o)
  PROVE  ~Refused(account, r)
<1> DEFINE p == Permissions(account, pg, Scopes(pg, there))
<1> SUFFICES ASSUME r \notin KnownRefusals(account) PROVE May(account, r)
  BY DEF Refused, May
<1>1. r \in Layout(pg) \/ r \in PageReads(pg, p, o) \/ r \in PageOffers(pg, p, o)
  BY DEF Reads, Offers
<1>2. CASE r \in Layout(pg)
  BY <1>2, LayoutsAsk
<1>3. /\ pg \in OrgPageNames => p \in SUBSET account.org
      /\ pg \in WorkspacePageNames \cup IdePanelNames => p \in SUBSET account.ws
  BY HasOf
<1> HIDE DEF p
<1>4. r = "testConnection" => May(account, r)
  BY WorkspaceRoutes, Requirements DEF KnownRefusals, When, May
<1>5. CASE pg \in OrgPageNames
  <2>1. "org" \in account.belongs
    BY <1>5, PageSets DEF Reachable, When, Coherent
  <2>2. PageReads(pg, p, o) = OrgReads(p, o)[pg] /\ PageOffers(pg, p, o) = OrgOffers(p, o)[pg]
    BY <1>5 DEF PageReads, PageOffers
  <2>3. r # "orgPolicy"
    BY DEF KnownRefusals
  <2> QED BY <1>1, <1>2, <1>3, <1>5, <2>1, <2>2, <2>3, OrgPagesAsk, OrgPagesOffer
<1>6. CASE pg \in WorkspacePageNames
  <2>1. account.ws # {}
    BY <1>6, PageSets DEF Reachable, When
  <2>2. /\ PageReads(pg, p, o) = WorkspacePageReads(p, o)[pg]
        /\ PageOffers(pg, p, o) = WorkspacePageOffers(p, o)[pg]
    BY <1>6, PageSets DEF PageReads, PageOffers
  <2> QED BY <1>1, <1>2, <1>3, <1>6, <1>4, <2>1, <2>2, WorkspacePagesAsk,
            WorkspacePagesOffer
<1>7. CASE pg \in IdePanelNames
  <2>1. account.ws # {}
    BY <1>7, PageSets DEF Reachable, When
  <2>2. /\ PageReads(pg, p, o) = IdeReads(p, o)[pg]
        /\ PageOffers(pg, p, o) = IdeOffers(p, o)[pg] \cup ToolbarOffers(p, o)
    BY <1>7, PageSets DEF PageReads, PageOffers
  <2>3. r \in MembersOnly \cup SharedFiles => May(account, r)
    <3>1. r \in MembersOnly => "ws" \in account.belongs
      BY DEF KnownRefusals, MembersOnly, When
    <3>2. r \in SharedFiles => "wsfile:read" \in account.ws
      BY DEF KnownRefusals, SharedFiles, When
    <3> QED BY <3>1, <3>2, IdeRoutes, Requirements DEF May, MembersOnly, SharedFiles
  <2> QED BY <1>1, <1>2, <1>3, <1>7, <1>4, <2>1, <2>2, <2>3, PanelsAsk, PanelsOffer
<1>8. CASE pg \notin OrgPageNames \cup WorkspacePageNames \cup IdePanelNames
  <2>1. \/ pg \in AccountPageNames
        \/ pg \in AdministrationPageNames /\ "instance" \in account.belongs
    BY <1>8 DEF Reachable, When
  <2>2. PageReads(pg, p, o) = AdminReads[pg] /\ PageOffers(pg, p, o) = AdminOffers(o)[pg]
    BY <1>8 DEF PageReads, PageOffers
  <2> QED BY <1>1, <1>2, <2>1, <2>2, AdminPagesAsk
<1> QED BY <1>5, <1>6, <1>7, <1>8

\* In every state of the console, so also before the permissions are there and
\* after a sign-in as somebody else.
THEOREM OfferedAllowed == Spec => []OfferedIsAllowed
<1>1. RefusedIn = {}
  <2> SUFFICES ASSUME NEW s \in ReadIn \cup OfferedIn, Refused(Grants[s[1][1]], s[2])
               PROVE  FALSE
    BY DEF RefusedIn
  <2>1. s[1] \in Cases
    BY DEF ReadIn, OfferedIn
  <2>2. /\ s[1][1] \in GrantNames
        /\ s[1][2] \in Reachable(Grants[s[1][1]])
    BY <2>1 DEF Cases
  <2>3. s[2] \in Reads(Grants[s[1][1]], s[1][2], s[1][3], s[1][4])
                  \cup Offers(Grants[s[1][1]], s[1][2], s[1][3], s[1][4])
    BY DEF ReadIn, OfferedIn
  <2> QED BY <2>2, <2>3, BuiltInRoles, NothingRefused
<1>2. OfferedIsAllowed
  BY <1>1 DEF OfferedIsAllowed
<1> QED BY <1>2, PTL

-----------------------------------------------------------------------------
(* Where menus, cards and rows lead.                                       *)

\* The pages that have something to show whatever the permissions are.
LEMMA AlwaysShown ==
  \A p :
    /\ PageReads("workspaces", p, FALSE) # {} /\ PageReads("settings", p, FALSE) # {}
    /\ PageReads("roles", p, FALSE) # {} /\ PageReads("role", p, FALSE) # {}
    /\ PageReads("policy", p, FALSE) # {}
    /\ PageReads("workspace", p, FALSE) # {} /\ PageReads("environments", p, FALSE) # {}
    /\ PageReads("connections", p, FALSE) # {} /\ PageReads("wsSettings", p, FALSE) # {}
    /\ PageReads("wsRoles", p, FALSE) # {} /\ PageReads("wsRole", p, FALSE) # {}
    /\ \A pg \in AccountPageNames \cup AdministrationPageNames :
         PageReads(pg, p, FALSE) # {}
<1> TAKE p
<1>1. /\ PageReads("workspaces", p, FALSE) # {} /\ PageReads("settings", p, FALSE) # {}
      /\ PageReads("roles", p, FALSE) # {} /\ PageReads("role", p, FALSE) # {}
      /\ PageReads("policy", p, FALSE) # {}
  BY DEF PageReads, OrgPageNames, OrgReads, WorkspacesReads, SettingsReads, RolesReads,
         RoleReads, PolicyReads
<1>2. {"workspace", "environments", "connections", "wsSettings", "wsRoles", "wsRole"}
        \subseteq WorkspacePageNames \ OrgPageNames
  BY DEF WorkspacePageNames, OrgPageNames
<1>3. /\ PageReads("workspace", p, FALSE) # {} /\ PageReads("environments", p, FALSE) # {}
      /\ PageReads("connections", p, FALSE) # {} /\ PageReads("wsSettings", p, FALSE) # {}
      /\ PageReads("wsRoles", p, FALSE) # {} /\ PageReads("wsRole", p, FALSE) # {}
  BY <1>2 DEF PageReads, WorkspacePageReads, WorkspaceReads, EnvironmentsReads,
              ConnectionsReads, WsSettingsReads, WsRolesReads, WsRoleReads
<1>4. ASSUME NEW pg \in AccountPageNames \cup AdministrationPageNames
      PROVE  PageReads(pg, p, FALSE) # {}
  <2>1. PageReads(pg, p, FALSE) = AdminReads[pg]
    BY PageSets DEF PageReads
  <2>2. AdminReads[pg] # {}
    BY DEF AccountPageNames, AdministrationPageNames, AdminReads, LandingReads,
           AccountReads, MyOrganizationsReads, AdministratorsReads, AccountsReads,
           OrganizationsReads, InstanceReads
  <2> QED BY <2>1, <2>2
<1> QED BY <1>1, <1>3, <1>4

\* Those that need a permission to show anything.
LEMMA ShownWith ==
  \A p :
    /\ "org:read" \in p => \A pg \in {"users", "user", "teams", "team"} :
                             PageReads(pg, p, FALSE) # {}
    /\ "policy:read" \in p => \A pg \in {"policies", "wsUsers", "wsTeams", "wsPolicies"} :
                                PageReads(pg, p, FALSE) # {}
<1> TAKE p
<1>1. {"users", "user", "teams", "team", "policies"} \subseteq OrgPageNames
  BY DEF OrgPageNames
<1>2. {"wsUsers", "wsTeams", "wsPolicies"} \subseteq WorkspacePageNames \ OrgPageNames
  BY DEF WorkspacePageNames, OrgPageNames
<1>3. "org:read" \in p => \A pg \in {"users", "user", "teams", "team"} :
                            PageReads(pg, p, FALSE) # {}
  <2>1. /\ PageReads("users", p, FALSE) = UsersReads(p, FALSE)
        /\ PageReads("user", p, FALSE) = UserReads(p, FALSE)
        /\ PageReads("teams", p, FALSE) = TeamsReads(p, FALSE)
        /\ PageReads("team", p, FALSE) = TeamReads(p, FALSE)
    BY <1>1 DEF PageReads, OrgReads
  <2>2. "org:read" \in p => /\ "orgMembers" \in UsersReads(p, FALSE)
                            /\ "orgMember" \in UserReads(p, FALSE)
                            /\ "orgTeams" \in TeamsReads(p, FALSE)
                            /\ "orgTeam" \in TeamReads(p, FALSE)
    BY DEF UsersReads, UserReads, TeamsReads, TeamReads, When, Has
  <2> QED BY <2>1, <2>2
<1>4. "policy:read" \in p => PageReads("policies", p, FALSE) # {}
  BY <1>1 DEF PageReads, OrgReads, PoliciesReads, When, Has
<1>5. "policy:read" \in p => \A pg \in {"wsUsers", "wsTeams", "wsPolicies"} :
                               PageReads(pg, p, FALSE) # {}
  <2>1. /\ PageReads("wsUsers", p, FALSE) = WsUsersReads(p, FALSE)
        /\ PageReads("wsTeams", p, FALSE) = WsTeamsReads(p, FALSE)
        /\ PageReads("wsPolicies", p, FALSE) = WsPoliciesReads(p, FALSE)
    BY <1>2 DEF PageReads, WorkspacePageReads
  <2>2. "policy:read" \in p => /\ "wsMembers" \in WsUsersReads(p, FALSE)
                               /\ "wsTeams" \in WsTeamsReads(p, FALSE)
                               /\ "wsPolicies" \in WsPoliciesReads(p, FALSE)
    BY DEF WsUsersReads, WsTeamsReads, WsPoliciesReads, When, Has
  <2> QED BY <2>1, <2>2
<1> QED BY <1>3, <1>4, <1>5

\* A page is there and has something to show, in the account's own terms.
Leads(account, pg) == ~LeadsNowhere(account, pg)

LEMMA OrgPagesLead ==
  ASSUME NEW account, Coherent(account), "org" \in account.belongs
  PROVE  /\ \A pg \in {"workspaces", "settings", "roles", "role", "policy"} :
              Leads(account, pg)
         /\ \A pg \in {"users", "user", "teams", "team"} : Leads(account, pg)
         /\ "policy:read" \in account.org => Leads(account, "policies")
<1> DEFINE here == {"workspaces", "settings", "roles", "role", "policy", "users", "user",
                    "teams", "team", "policies"}
<1>1. here \subseteq OrgPageNames /\ "org:read" \in account.org
  BY DEF OrgPageNames, Coherent
<1>2. ASSUME NEW pg \in here
      PROVE  /\ pg \in Reachable(account) /\ Scope(pg) = "org"
             /\ Permissions(account, pg, {Scope(pg)}) = account.org
  BY <1>1, <1>2 DEF Reachable, When, Scope, Permissions
<1> QED BY <1>1, <1>2, AlwaysShown, ShownWith DEF Leads, LeadsNowhere

LEMMA WorkspacePagesLead ==
  ASSUME NEW account, Coherent(account), account.ws # {}
  PROVE  /\ Leads(account, "workspace")
         /\ account.ws \cap EnvironmentPagePermissions # {} => Leads(account, "environments")
         /\ account.ws \cap ConnectionPagePermissions # {} => Leads(account, "connections")
         /\ account.ws \cap SettingsPagePermissions # {} => Leads(account, "wsSettings")
         /\ account.ws \cap PolicyPagePermissions # {} =>
              \A pg \in {"wsUsers", "wsTeams", "wsRoles", "wsRole", "wsPolicies"} :
                Leads(account, pg)
<1>1. ASSUME NEW pg \in WorkspacePageNames
      PROVE  /\ pg \in Reachable(account) /\ Scope(pg) = "ws"
             /\ Permissions(account, pg, {Scope(pg)}) = account.ws
  BY PageSets DEF Reachable, When, Scope, Permissions
<1>2. WorkspacePageNames = {"workspace", "wsUsers", "wsTeams", "wsRoles", "wsRole",
                            "wsPolicies", "environments", "connections", "wsSettings"}
  BY DEF WorkspacePageNames
<1>3. account.ws \cap PolicyPagePermissions # {} => "policy:read" \in account.ws
  BY DEF PolicyPagePermissions, Coherent
<1>4. /\ PageReads("workspace", account.ws, FALSE) # {}
      /\ PageReads("environments", account.ws, FALSE) # {}
      /\ PageReads("connections", account.ws, FALSE) # {}
      /\ PageReads("wsSettings", account.ws, FALSE) # {}
      /\ PageReads("wsRoles", account.ws, FALSE) # {}
      /\ PageReads("wsRole", account.ws, FALSE) # {}
  BY AlwaysShown
<1>5. account.ws \cap PolicyPagePermissions # {} =>
        \A pg \in {"wsUsers", "wsTeams", "wsPolicies"} : PageReads(pg, account.ws, FALSE) # {}
  BY <1>3, ShownWith
<1>6. /\ IsWorkspacePathAllowed("workspace", account.ws)
      /\ account.ws \cap EnvironmentPagePermissions # {}
           => IsWorkspacePathAllowed("environments", account.ws)
      /\ account.ws \cap ConnectionPagePermissions # {}
           => IsWorkspacePathAllowed("connections", account.ws)
      /\ account.ws \cap SettingsPagePermissions # {}
           => IsWorkspacePathAllowed("wsSettings", account.ws)
      /\ account.ws \cap PolicyPagePermissions # {} =>
           \A pg \in {"wsUsers", "wsTeams", "wsRoles", "wsRole", "wsPolicies"} :
             IsWorkspacePathAllowed(pg, account.ws)
  BY DEF IsWorkspacePathAllowed
<1> QED BY <1>1, <1>2, <1>4, <1>5, <1>6 DEF Leads, LeadsNowhere

LEMMA AdminPagesLead ==
  ASSUME NEW account
  PROVE  /\ \A pg \in AccountPageNames : Leads(account, pg)
         /\ "instance" \in account.belongs =>
              \A pg \in AdministrationPageNames : Leads(account, pg)
<1>1. \A pg \in AccountPageNames \cup AdministrationPageNames : Scope(pg) = "none"
  BY PageSets DEF Scope
<1>2. /\ AccountPageNames \subseteq Reachable(account)
      /\ "instance" \in account.belongs => AdministrationPageNames \subseteq Reachable(account)
  BY DEF Reachable, When
<1> QED BY <1>1, <1>2, AlwaysShown DEF Leads, LeadsNowhere

\* The user menu of every page but the editor's, and the menu of the
\* administration.
LEMMA MenusLead ==
  ASSUME NEW account
  PROVE  /\ \A pg \in AppShellUserMenu("instance" \in account.belongs) : Leads(account, pg)
         /\ "instance" \in account.belongs =>
              \A pg \in AdministrationMenu : Leads(account, pg)
<1>1. /\ {"account", "index"} \subseteq AccountPageNames
      /\ AdministrationMenu \subseteq AdministrationPageNames \cup {"index"}
      /\ "administrators" \in AdministrationPageNames
  BY DEF AccountPageNames, AdministrationPageNames, AdministrationMenu
<1> QED BY <1>1, AdminPagesLead DEF AppShellUserMenu, UserMenu, When

\* For an account with any roles the pages can count on (Coherent): a menu
\* entry, a card or a row leads to a page the account can get to, that the
\* layout of the workspace lets it stay on, and that has something to show,
\* also while the permissions are not there yet (organizationItems,
\* isWorkspacePathAllowed, workspace-page-permissions.ts).
THEOREM NoLinkLeadsNowhere ==
  ASSUME NEW account, Coherent(account), NEW pg \in Reachable(account),
         NEW there, NEW to \in LinksOf(account, pg, Scopes(pg, there))
  PROVE  ~LeadsNowhere(account, to)
<1> DEFINE p == Permissions(account, pg, Scopes(pg, there))
           mine == AppShellUserMenu("instance" \in account.belongs)
<1> SUFFICES Leads(account, to)
  BY DEF Leads
<1>1. to \in mine => Leads(account, to)
  BY MenusLead
<1>2. /\ pg \in OrgPageNames => p \in SUBSET account.org
      /\ pg \in WorkspacePageNames \cup IdePanelNames => p \in SUBSET account.ws
  BY HasOf
<1> HIDE DEF p
<1>3. "ide" \notin Pages
  BY DEF Pages, AccountPageNames, AdministrationPageNames, OrgPageNames,
         WorkspacePageNames, IdePanelNames
<1>4. CASE pg \in OrgPageNames
  <2>1. "org" \in account.belongs /\ Scope(pg) = "org"
    BY <1>4, PageSets DEF Reachable, When, Coherent, Scope
  <2>2. to \in mine \/ (to \in OrgMenu(p) \cup OrgLinks(p)[pg] /\ to \in Pages)
    BY <2>1 DEF LinksOf, p
  <2>3. to \in OrgMenu(p) /\ to \in Pages => Leads(account, to)
    BY <1>2, <1>3, <1>4, <2>1, OrgPagesLead
       DEF OrgMenu, OrganizationItems, AccessControlItems, SettingsItems, When, Has
  <2>4. to \in OrgLinks(p)[pg] => Leads(account, to)
    <3>1. \A q \in TeamsLinks(p) \cup UsersLinks(p) : Leads(account, q)
      BY <2>1, OrgPagesLead DEF TeamsLinks, UsersLinks, When
    <3>2. \A q \in RolesLinks(p) \cup PoliciesLinks(p) : Leads(account, q)
      BY <1>2, <1>4, <2>1, OrgPagesLead DEF RolesLinks, PoliciesLinks, When, Has
    <3>3. OrgLinks(p)[pg] \subseteq TeamsLinks(p) \cup UsersLinks(p) \cup RolesLinks(p)
                                      \cup PoliciesLinks(p)
      BY <1>4 DEF OrgLinks, OrgPageNames
    <3> QED BY <3>1, <3>2, <3>3
  <2> QED BY <1>1, <2>2, <2>3, <2>4
<1>5. CASE pg \in WorkspacePageNames
  <2>1. account.ws # {} /\ "org" \in account.belongs /\ Scope(pg) = "ws"
    BY <1>5, PageSets DEF Reachable, When, Coherent, Scope
  <2>2. \/ to \in mine
        \/ to \in WorkspaceMenu(p) \cup WorkspaceLinks(p)[pg] /\ to \in Pages
    BY <2>1 DEF LinksOf, p
  <2>3. to \in WorkspaceMenu(p) /\ to \in Pages => Leads(account, to)
    <3>1. to \in WorkspacePrimaryItems(p) /\ to \in Pages => Leads(account, to)
      BY <1>2, <1>3, <1>5, <2>1, OrgPagesLead, WorkspacePagesLead
         DEF WorkspacePrimaryItems, When
    <3>2. to \in WorkspaceAccessControlItems(p) \cup WorkspaceSettingsItems(p)
            => Leads(account, to)
      BY <1>2, <1>5, <2>1, WorkspacePagesLead
         DEF WorkspaceAccessControlItems, WorkspaceSettingsItems, When
    <3> QED BY <3>1, <3>2 DEF WorkspaceMenu
  <2>4. to \in WorkspaceLinks(p)[pg] /\ to \in Pages => Leads(account, to)
    <3>1. "policy:read" \in p => account.ws \cap PolicyPagePermissions # {}
      BY <1>2, <1>5 DEF PolicyPagePermissions
    <3>2. \/ to \in OverviewCards(p)
          \/ to \in {"user", "team", "wsRole", "wsRoles"} /\ "policy:read" \in p
          \/ to \notin WorkspaceLinks(p)[pg]
      BY <1>5 DEF WorkspaceLinks, WorkspacePageNames, When, Has
    <3>3. to \in OverviewCards(p) => to \in WorkspaceMenu(p)
      BY DEF OverviewCards
    <3>4. "policy:read" \in p => \A q \in {"user", "team", "wsRole", "wsRoles"} :
                                   Leads(account, q)
      BY <2>1, <3>1, OrgPagesLead, WorkspacePagesLead
    <3> QED BY <2>3, <3>2, <3>3, <3>4
  <2> QED BY <1>1, <2>2, <2>3, <2>4
<1>6. CASE pg \in IdePanelNames
  <2>1. "org" \in account.belongs /\ Scope(pg) = "ide"
    BY <1>6, PageSets DEF Reachable, When, Coherent, Scope
  <2>2. to \in mine \/ to = "workspaces"
    BY <2>1 DEF LinksOf, IdeTopBarControls, AppShellUserMenu, UserMenu, When
  <2> QED BY <1>1, <2>1, <2>2, OrgPagesLead
<1>7. CASE pg \notin OrgPageNames \cup WorkspacePageNames \cup IdePanelNames
  <2>1. Scope(pg) = "none"
    BY <1>7 DEF Scope
  <2>2. pg \in AdministrationPageNames => "instance" \in account.belongs
    BY <1>7 DEF Reachable, When, AccountPageNames, AdministrationPageNames
  <2>3. \/ to \in mine
        \/ pg \in AdministrationPageNames /\ to \in AdministrationMenu
        \/ to = "administrators" /\ "instance" \in account.belongs
        \/ to = "settings" /\ "org" \in account.belongs
    BY <1>3, <2>1 DEF LinksOf, AdministrationChoiceCard, OrganizationChoiceCard,
                      LandingUserMenu, AppShellUserMenu, UserMenu, When
  <2>4. "administrators" \in AdministrationPageNames
    BY DEF AdministrationPageNames
  <2> QED BY <1>1, <2>2, <2>3, <2>4, MenusLead, AdminPagesLead, OrgPagesLead
<1> QED BY <1>4, <1>5, <1>6, <1>7

\* In every state of the console.
THEOREM LinksAllLead == Spec => []LinksLead
<1>1. BrokenLinks = {}
  <2> SUFFICES ASSUME NEW c \in Cases,
                      NEW to \in LinksOf(Grants[c[1]], c[2], Scopes(c[2], c[3])),
                      LeadsNowhere(Grants[c[1]], to)
               PROVE  FALSE
    BY DEF BrokenLinks
  <2>1. c[1] \in GrantNames /\ c[2] \in Reachable(Grants[c[1]])
    BY DEF Cases
  <2> QED BY <2>1, BuiltInRoles, NoLinkLeadsNowhere
<1>2. LinksLead
  BY <1>1 DEF LinksLead
<1> QED BY <1>2, PTL

-----------------------------------------------------------------------------
(* The types, and what a tab that nobody is signed in to may do.           *)

\* The records of the cache, by their parts.
Answer == [at : 0..MaxChanges, by : {0} \cup Accounts]
Fetch == [at : {"idle", "asked", "served"}, shows : Answer]
Sent == [at : {"nowhere", "sent", "committed"}, by : {0} \cup Accounts]

\* A tab without a token shows the login page, asks for nothing and may be
\* signed in to once more; a call that was sent has a change left to make.
SignedOut ==
  /\ token = 0 <=> page = "login"
  /\ token = 0 => fetch = Idle
TypeInv ==
  /\ grant \in GrantNames /\ token \in {0} \cup Accounts
  /\ switches \in 0..Switches /\ page \in Pages \cup {"login"}
  /\ open \in BOOLEAN /\ loaded \subseteq {"org", "ws", "ide"}
  /\ changes \in 0..MaxChanges
  /\ have \in Answer /\ invalid \in BOOLEAN /\ old \in BOOLEAN
  /\ fetch \in Fetch /\ mutation \in Sent
  /\ lost \in BOOLEAN /\ raced \in BOOLEAN
  /\ SignedOut
  /\ token = 0 => switches < Switches
  /\ mutation.at = "sent" => changes < MaxChanges

\* A success leads to a page of the console or leaves the user where he is.
LEMMA CallsLand == \A c : Call(c).next \in Pages \cup {"same"}
<1>1. ASSUME NEW keys, NEW place
      PROVE  /\ Invalidates(keys).next = "same"
             /\ ThenGoTo(Invalidates(keys), place).next = place
  BY DEF Invalidates, ThenGoTo
<1>2. {"index", "roles", "workspace", "workspaces", "wsRoles"} \subseteq Pages
  BY DEF Pages, AccountPageNames, OrgPageNames, WorkspacePageNames
<1>3. \A c \in DOMAIN OrgCalls : OrgCalls[c].next \in Pages \cup {"same"}
  <2>1. UpdateOrg.next = "same" /\ UpdateRuntime.next = "same" /\ DeleteOrg.next = "index"
    BY DEF UpdateOrg, UpdateRuntime, DeleteOrg, Invalidates, ThenGoTo
  <2>2. /\ DeleteThisRole.next = "roles" /\ CreateWorkspace.next = "workspace"
        /\ \A c \in {CreateTeam, AddTeamMember, RemoveTeamMember, UpdateTeam, AddTeam,
                    RemoveTeam, InviteUser, ResendInvitation, RevokeInvitation,
                    UpdateMemberRole} : c.next = "same"
    BY <1>1 DEF DeleteThisRole, CreateWorkspace, CreateTeam, AddTeamMember,
                RemoveTeamMember, UpdateTeam, AddTeam, RemoveTeam, InviteUser,
                ResendInvitation, RevokeInvitation, UpdateMemberRole
  <2>3. \A c \in {CreateRole, DeleteRole, UpdateRole, CreatePolicy, RevokePolicy,
                 ClearHistory, ClearFavorites} : c.next = "same"
    BY <1>1 DEF CreateRole, DeleteRole, UpdateRole, CreatePolicy, RevokePolicy,
                ClearHistory, ClearFavorites
  <2> QED BY <1>2, <2>1, <2>2, <2>3 DEF OrgCalls
<1>4. \A c \in DOMAIN WorkspaceCalls : WorkspaceCalls[c].next \in Pages \cup {"same"}
  <2>1. UpdateConnection.next = "same"
    BY DEF UpdateConnection, Invalidates
  <2> QED BY <1>1, <1>2, <2>1
          DEF WorkspaceCalls, AddWsMember, RemoveWsMember, AddWsTeam, RemoveWsTeam,
              InvalidateWorkspaceUserQueries, CreateWsRole, DeleteWsRole,
              DeleteThisWsRole, UpdateWsRole, CreateWsPolicy, RevokeWsPolicy,
              CreateEnvironment, UpdateEnvironment, DeleteEnvironment,
              DeleteConnection, UpdateWorkspace, DeleteWorkspace
<1>5. \A c \in DOMAIN AdminCalls : AdminCalls[c].next = "same"
  BY <1>1 DEF AdminCalls, UpdateProfile, UpdatePassword, AddAdmin, RemoveAdmin,
              CreateAccount, CreateOrg, UpdateInstance
<1>6. \A c \in DOMAIN IdeCalls : IdeCalls[c].next = "same"
  <2>1. \A c \in {SaveAs, SubmitExport, RecordHistory, CreateFavorite,
                 IdeCreateEnvironment, IdeRenameEnvironment, IdeDeleteEnvironment,
                 CreateConnection, IdeDeleteConnection, Connect, Disconnect} :
          c.next = "same"
    BY <1>1 DEF SaveAs, SubmitExport, RecordHistory, CreateFavorite,
                IdeCreateEnvironment, IdeRenameEnvironment, IdeDeleteEnvironment,
                CreateConnection, IdeDeleteConnection, Connect, Disconnect
  <2>2. \A c \in {RefreshSchema, SchemaEdit, CreateItem, DeleteFile, RenameFile,
                 DuplicateFile, DeleteHistory, UpdateFavorite, DeleteFavorite,
                 CancelExport, RetryExport} : c.next = "same"
    BY <1>1 DEF RefreshSchema, SchemaEdit, InvalidateConnectionSchemaQueries,
                CreateItem, DeleteFile, RenameFile, DuplicateFile, DeleteHistory,
                UpdateFavorite, DeleteFavorite, CancelExport, RetryExport
  <2> QED BY <1>1, <2>1, <2>2 DEF IdeCalls
<1> QED BY <1>1, <1>3, <1>4, <1>5, <1>6 DEF Call

\* The layout of a workspace turns back to a page of the console.
LEMMA LandsOnPage ==
  /\ "index" \in Pages /\ "login" \notin Pages
  /\ \A pg \in Pages : \A scopes : Lands(pg, scopes) \in Pages
<1>1. {"index", "workspace"} \subseteq Pages /\ "login" \notin Pages
  BY DEF Pages, AccountPageNames, AdministrationPageNames, OrgPageNames,
         WorkspacePageNames, IdePanelNames
<1> QED BY <1>1 DEF Lands

LEMMA ScopeType == \A pg : Scope(pg) \in {"org", "ws", "ide", "none"}
BY DEF Scope

\* The login page uses no key.
LEMMA LoginUsesNothing == \A o, scopes : ~Active("login", o, scopes)
BY LandsOnPage DEF Active, ReadIn, Cases

LEMMA CacheTypes ==
  /\ None \in Answer /\ Idle \in Fetch /\ Idle.at = "idle"
  /\ \A account \in {0} \cup Accounts :
       Asked(account) \in Fetch /\ Asked(account) # Idle
  /\ [at |-> "nowhere", by |-> 0] \in Sent
<1>1. 0 \in 0..MaxChanges
  BY BoundsAreNatural
<1> QED BY <1>1 DEF None, Idle, Asked, Answer, Fetch, Sent

\* A component asks for its key on a page of a tab that is signed in to.
LEMMA UseType ==
  ASSUME TypeInv, page # "login", NEW pg, NEW o, NEW scopes,
         Use(pg, o, scopes) \/ UNCHANGED <<fetch, raced>>
  PROVE  fetch' \in Fetch /\ raced' \in BOOLEAN
BY CacheTypes DEF Use, TypeInv

LEMMA TypeInit == Init => TypeInv
<1> SUFFICES ASSUME Init PROVE TypeInv
  OBVIOUS
<1>1. grant \in GrantNames
  BY DEF Init, Focuses
<1>2. 1 \in Accounts /\ 0 \in 0..Switches /\ 0 \in 0..MaxChanges
  BY BoundsAreNatural DEF Accounts
<1>3. fetch \in Fetch
  BY <1>2, CacheTypes DEF Init
<1>4. SignedOut
  BY LandsOnPage DEF Init, SignedOut
<1>5. /\ token = 1 /\ switches = 0 /\ page = "index" /\ changes = 0 /\ have = None
      /\ open = FALSE /\ invalid = FALSE /\ old = FALSE /\ lost = FALSE /\ raced = FALSE
      /\ loaded = {} /\ mutation = [at |-> "nowhere", by |-> 0]
  BY DEF Init
<1>6. /\ token \in {0} \cup Accounts /\ token # 0 /\ mutation.at # "sent"
      /\ have \in Answer /\ mutation \in Sent
  BY <1>2, <1>5, CacheTypes
<1> QED BY <1>1, <1>2, <1>3, <1>4, <1>5, <1>6, LandsOnPage DEF TypeInv

\* What the user does on a page.
LEMMA UserType ==
  TypeInv /\ ((\E pg \in Pages : Visit(pg)) \/ ToggleDialog \/ PermissionsArrive) => TypeInv'
<1>1. ASSUME TypeInv, NEW pg \in Pages, Visit(pg) PROVE TypeInv'
  <2>1. page # "login" /\ page' \in Pages /\ page' # "login"
    BY <1>1, LandsOnPage DEF Visit
  <2>2. fetch' \in Fetch /\ raced' \in BOOLEAN
    BY <1>1, <2>1, UseType DEF Visit
  <2>3. SignedOut'
    BY <1>1, <2>1 DEF TypeInv, SignedOut, Visit
  <2> QED BY <1>1, <2>1, <2>2, <2>3 DEF Visit, TypeInv
<1>2. ASSUME TypeInv, ToggleDialog PROVE TypeInv'
  <2>1. fetch' \in Fetch /\ raced' \in BOOLEAN
    BY <1>2, UseType DEF ToggleDialog
  <2>2. SignedOut'
    BY <1>2 DEF TypeInv, SignedOut, ToggleDialog
  <2> QED BY <1>2, <2>1, <2>2 DEF ToggleDialog, TypeInv
<1>3. ASSUME TypeInv, PermissionsArrive PROVE TypeInv'
  <2>1. page # "login" /\ page \in Pages
    BY <1>3 DEF PermissionsArrive, TypeInv
  <2>2. page' \in Pages /\ page' # "login"
    BY <1>3, <2>1, LandsOnPage DEF PermissionsArrive
  <2>3. fetch' \in Fetch /\ raced' \in BOOLEAN
    BY <1>3, <2>1, UseType DEF PermissionsArrive
  <2>4. loaded' \subseteq {"org", "ws", "ide"}
    BY <1>3, ScopeType DEF PermissionsArrive, TypeInv
  <2>5. SignedOut'
    BY <1>3, <2>1, <2>2 DEF TypeInv, SignedOut, PermissionsArrive
  <2> QED BY <1>3, <2>2, <2>3, <2>4, <2>5 DEF PermissionsArrive, TypeInv
<1> QED BY <1>1, <1>2, <1>3

\* The call is sent, committed, refused or its answer lost: the one change it
\* may make was still to be made.
LEMMA CallType ==
  TypeInv /\ (Submit \/ Commit \/ Refuse \/ LoseAnswer) => TypeInv'
<1> SUFFICES ASSUME TypeInv, Submit \/ Commit \/ Refuse \/ LoseAnswer PROVE TypeInv'
  OBVIOUS
<1>1. mutation' \in Sent /\ changes' \in 0..MaxChanges /\ lost' \in BOOLEAN
  <2>1. CASE Submit
    BY <2>1 DEF Submit, Sent, TypeInv
  <2>2. CASE Commit
    BY <2>2, BoundsAreNatural DEF Commit, Sent, TypeInv
  <2>3. CASE Refuse \/ LoseAnswer
    BY <2>3, CacheTypes DEF Refuse, LoseAnswer, TypeInv
  <2> QED BY <2>1, <2>2, <2>3
<1>2. mutation'.at = "sent" => changes' < MaxChanges
  BY DEF Submit, Commit, Refuse, LoseAnswer, Sent, TypeInv
<1>3. UNCHANGED <<grant, token, switches, page, open, loaded, have, invalid, old, fetch, raced>>
  BY DEF Submit, Commit, Refuse, LoseAnswer
<1>4. SignedOut'
  BY <1>3 DEF TypeInv, SignedOut
<1> QED BY <1>1, <1>2, <1>3, <1>4 DEF TypeInv

\* Requests are served, answered or given up; answers grow old and go.
LEMMA FetchType ==
  TypeInv /\ (Serve \/ Receive \/ Fail \/ GrowOld \/ Collect) => TypeInv'
<1> SUFFICES ASSUME TypeInv, Serve \/ Receive \/ Fail \/ GrowOld \/ Collect PROVE TypeInv'
  OBVIOUS
<1>1. UNCHANGED <<grant, token, switches, page, open, loaded, changes, mutation, lost, raced>>
  BY DEF Serve, Receive, Fail, GrowOld, Collect
<1>2. /\ fetch' \in Fetch /\ have' \in Answer
      /\ invalid' \in BOOLEAN /\ old' \in BOOLEAN
  <2>1. CASE Serve
    BY <2>1 DEF Serve, Fetch, Answer, TypeInv
  <2>2. CASE Receive
    BY <2>2, CacheTypes DEF Receive, Fetch, TypeInv
  <2>3. CASE Fail \/ GrowOld \/ Collect
    BY <2>3, CacheTypes DEF Fail, GrowOld, Collect, TypeInv
  <2> QED BY <2>1, <2>2, <2>3
<1>3. fetch = Idle => fetch' = Idle
  BY CacheTypes DEF Serve, Receive, Fail, GrowOld, Collect
<1>4. SignedOut'
  BY <1>1, <1>3 DEF TypeInv, SignedOut
<1> QED BY <1>1, <1>2, <1>4 DEF TypeInv

\* A success that comes after the sign-out starts no request.
LEMMA SettleType == TypeInv /\ Settle => TypeInv'
<1> SUFFICES ASSUME TypeInv, Settle PROVE TypeInv'
  OBVIOUS
<1>1. UNCHANGED <<grant, token, switches, loaded, changes, lost>>
  BY DEF Settle
<1>2. /\ page = "login" => page' = "login"
      /\ page # "login" => page' \in Pages
  <2>1. page # "login" => page \in Pages
    BY DEF TypeInv
  <2>2. \/ page' = page
        \/ page # "login" /\ Call(focus.call).next # "same"
           /\ page' = Lands(Call(focus.call).next, loaded)
    BY DEF Settle
  <2> QED BY <2>1, <2>2, CallsLand, LandsOnPage
<1>3. open' \in BOOLEAN /\ invalid' \in BOOLEAN /\ old' \in BOOLEAN
  BY DEF Settle, TypeInv
<1>4. mutation' = [at |-> "nowhere", by |-> 0]
  BY DEF Settle
<1>5. have' \in Answer
  <2>1. have' \in {[at |-> changes, by |-> mutation.by], None, have}
    BY DEF Settle
  <2>2. [at |-> changes, by |-> mutation.by] \in Answer
    BY DEF Answer, Sent, TypeInv
  <2> QED BY <2>1, <2>2, CacheTypes DEF TypeInv
<1>6. fetch' \in {Asked(token), Idle, fetch} /\ raced' \in BOOLEAN
  BY DEF Settle, TypeInv
<1>7. fetch' \in Fetch
  BY <1>6, CacheTypes DEF TypeInv
<1>8. page = "login" => fetch' \in {Idle, fetch}
  BY <1>2, LoginUsesNothing DEF Settle
<1>9. SignedOut'
  BY <1>1, <1>2, <1>8, LandsOnPage DEF TypeInv, SignedOut
<1> QED BY <1>1, <1>2, <1>3, <1>4, <1>5, <1>6, <1>7, <1>9, CacheTypes DEF TypeInv

\* Signing in and out empties the cache and restarts at the landing page.
LEMMA SignType ==
  ASSUME TypeInv, Leave \/ (\E account \in Accounts : Login(account) \/ AcceptInvitation(account))
  PROVE  TypeInv'
<1>1. /\ ClearCache /\ open' = FALSE
      /\ UNCHANGED <<grant, changes, mutation, lost>>
  BY DEF Leave, Login, AcceptInvitation
<1>2. /\ have' \in Answer /\ invalid' \in BOOLEAN /\ old' \in BOOLEAN
      /\ raced' \in BOOLEAN /\ loaded' \subseteq {"org", "ws", "ide"}
  BY <1>1, CacheTypes DEF ClearCache
<1>3. CASE Leave
  <2>1. /\ token' = 0 /\ page' = "login" /\ fetch' = Idle /\ switches' = switches
        /\ switches < Switches
    BY <1>3 DEF Leave
  <2> QED BY <1>1, <1>2, <2>1, CacheTypes DEF SignedOut, TypeInv
<1>4. ASSUME NEW account \in Accounts, Login(account) \/ AcceptInvitation(account)
      PROVE  TypeInv'
  <2>1. switches < Switches /\ switches' = switches + 1
    BY <1>4 DEF Login, AcceptInvitation, SignedOut, TypeInv
  <2>2. switches' \in 0..Switches
    BY <2>1, BoundsAreNatural DEF TypeInv
  <2>3. token' \in Accounts /\ token' # 0
    <3>1. 0 \notin Accounts
      BY DEF Accounts
    <3>2. CASE Login(account)
      BY <3>1, <3>2 DEF Login
    <3>3. CASE AcceptInvitation(account)
      BY <3>1, <3>3 DEF AcceptInvitation, TypeInv
    <3> QED BY <1>4, <3>2, <3>3
  <2>4. page' = "index" /\ fetch' \in {Asked(token'), Idle}
    BY <1>4 DEF Login, AcceptInvitation
  <2>5. fetch' \in Fetch
    BY <2>3, <2>4, CacheTypes
  <2>6. SignedOut'
    BY <2>3, <2>4, LandsOnPage DEF SignedOut
  <2> QED BY <1>1, <1>2, <2>2, <2>3, <2>4, <2>5, <2>6, LandsOnPage DEF TypeInv
<1> QED BY <1>3, <1>4

LEMMA TypeStep == TypeInv /\ [Next]_vars => TypeInv'
<1> SUFFICES ASSUME TypeInv, [Next]_vars PROVE TypeInv'
  OBVIOUS
<1>1. CASE UNCHANGED vars
  BY <1>1 DEF vars, TypeInv, SignedOut
<1>2. Logout \/ AuthInvalidated => Leave
  BY DEF Logout, AuthInvalidated
<1>3. CASE Next
  BY <1>2, <1>3, UserType, CallType, FetchType, SettleType, SignType DEF Next
<1> QED BY <1>1, <1>3

\* The variables keep their types, whatever the pages lead to and whenever a
\* success, a sign-in or a refused token comes.
THEOREM TypeCorrect == Spec => []TypeOK
<1>1. TypeInv => TypeOK
  BY DEF TypeInv, TypeOK, Answer, Fetch, Sent
<1> QED BY <1>1, TypeInit, TypeStep, PTL DEF Spec

\* A tab without a token is on the login page, a tab with one is not, and
\* nothing is asked for without a token: no late success, timer or menu starts
\* a request after the sign-out (RootComponent, clearAuthScopedQueryCache).
THEOREM SignedOutIsQuiet == Spec => []SignedOut
<1>1. TypeInv => SignedOut
  BY DEF TypeInv
<1> QED BY <1>1, TypeInit, TypeStep, PTL DEF Spec
=============================================================================
