------------------------------- MODULE Console -------------------------------
(***************************************************************************)
(* One browser tab of the console. A behaviour follows one query of the    *)
(* cache and one call that may change what it holds (focus), chosen among  *)
(* all pairs that have to do with each other, for an account with one of   *)
(* the grants of ConsoleServer; or, with no pair, it only walks through    *)
(* the pages. A page that neither reads the key nor offers the call is no  *)
(* different from the landing page and is left out of the behaviour.       *)
(***************************************************************************)
EXTENDS Naturals, ConsoleQueries, AdminPages, IdePanels

CONSTANTS
  MaxChanges,   \* how often the call is made
  Switches      \* how often the account is switched

ASSUME BoundsAreNatural == MaxChanges \in Nat /\ Switches \in Nat

VARIABLES
  grant,     \* what the accounts may do: a name of Grants
  focus,     \* the key and the call this behaviour is about
  token,     \* the account whose access token is stored, 0 without one
  switches,  \* sign-ins so far
  page, open,  \* the page, and whether its dialog is open
  loaded,    \* scopes whose effective permissions are cached
  changes,   \* committed calls
  have,      \* the cached answer: the changes it shows, and whose it is
  invalid, old,  \* invalidated; older than its staleTime
  fetch,     \* a request for the key under way
  mutation,  \* the call: nowhere, sent, or committed with the answer under way
  lost,      \* the answer to a committed call was lost
  raced      \* a call settled during a request that was not started again

Accounts == 1..2
vars == <<grant, focus, token, switches, page, open, loaded, changes, have,
          invalid, old, fetch, mutation, lost, raced>>

(***************************************************************************)
(* All pages                                                               *)
(***************************************************************************)
Call(name) ==
  IF name \in DOMAIN OrgCalls THEN OrgCalls[name]
  ELSE IF name \in DOMAIN WorkspaceCalls THEN WorkspaceCalls[name]
  ELSE IF name \in DOMAIN AdminCalls THEN AdminCalls[name]
  ELSE IF name \in DOMAIN IdeCalls THEN IdeCalls[name] ELSE Invalidates({})
CallNames ==
  DOMAIN OrgCalls \cup DOMAIN WorkspaceCalls \cup DOMAIN AdminCalls \cup DOMAIN IdeCalls

Pages ==
  AccountPageNames \cup AdministrationPageNames \cup OrgPageNames
    \cup WorkspacePageNames \cup IdePanelNames

Scope(pg) ==
  IF pg \in OrgPageNames THEN "org"
  ELSE IF pg \in WorkspacePageNames THEN "ws"
  ELSE IF pg \in IdePanelNames THEN "ide" ELSE "none"

\* effectivePermissions.data?.permissions of a page: nothing until it is there.
Permissions(account, pg, scopes) ==
  IF Scope(pg) \notin scopes THEN {}
  ELSE IF Scope(pg) = "org" THEN account.org ELSE account.ws

Layout(pg) ==
  IF pg \in OrgPageNames THEN OrgLayoutReads
  ELSE IF pg \in WorkspacePageNames THEN WorkspaceLayoutReads
  ELSE IF pg \in IdePanelNames THEN IdeFrameReads
  ELSE IF pg \in AdministrationPageNames THEN AdministrationLayoutReads
  ELSE SettingsLayoutReads

PageReads(pg, p, opened) ==
  IF pg \in OrgPageNames THEN OrgReads(p, opened)[pg]
  ELSE IF pg \in WorkspacePageNames THEN WorkspacePageReads(p, opened)[pg]
  ELSE IF pg \in IdePanelNames THEN IdeReads(p, opened)[pg] ELSE AdminReads[pg]
PageOffers(pg, p, opened) ==
  IF pg \in OrgPageNames THEN OrgOffers(p, opened)[pg]
  ELSE IF pg \in WorkspacePageNames THEN WorkspacePageOffers(p, opened)[pg]
  ELSE IF pg \in IdePanelNames THEN IdeOffers(p, opened)[pg] \cup ToolbarOffers(p, opened)
  ELSE AdminOffers(opened)[pg]

Scopes(pg, there) == When(there, {Scope(pg)})
Reads(account, pg, there, o) ==
  Layout(pg) \cup PageReads(pg, Permissions(account, pg, Scopes(pg, there)), o)
Offers(account, pg, there, o) ==
  PageOffers(pg, Permissions(account, pg, Scopes(pg, there)), o)

\* What the account can get to: the layouts of the administration and the
\* server's lists of organizations and workspaces keep it from the rest.
Reachable(account) ==
  AccountPageNames
    \cup When("instance" \in account.belongs, AdministrationPageNames)
    \cup When("org" \in account.belongs, OrgPageNames)
    \cup When(account.ws # {}, WorkspacePageNames \cup IdePanelNames)

\* Where the menus and the rows of a page lead. The organization's card on the
\* landing page and the card of the administration are a menu too.
LinksOf(account, pg, scopes) ==
  LET p == Permissions(account, pg, scopes)
      isInstanceAdmin == "instance" \in account.belongs
  IN  IF Scope(pg) = "org"
      THEN ((OrgMenu(p) \cup OrgLinks(p)[pg]) \cap Pages)
             \cup AppShellUserMenu(isInstanceAdmin)
      ELSE IF Scope(pg) = "ws"
      THEN ((WorkspaceMenu(p) \cup WorkspaceLinks(p)[pg]) \cap Pages)
             \cup AppShellUserMenu(isInstanceAdmin)
      ELSE IF Scope(pg) = "ide"
      THEN IdeTopBarControls(isInstanceAdmin, When("ide" \in scopes, account.org))
      ELSE IF pg \in AdministrationPageNames
      THEN AdministrationMenu \cup AppShellUserMenu(isInstanceAdmin)
      ELSE IF pg = "index"
      THEN AdministrationChoiceCard(isInstanceAdmin) \cup LandingUserMenu(isInstanceAdmin)
             \cup (When("org" \in account.belongs,
                        OrganizationChoiceCard(account.org)) \cap Pages)
      ELSE AppShellUserMenu(isInstanceAdmin)

\* All of it for every grant, with the permissions there or not and the dialog
\* open or not, as sets of tuples.
Cases ==
  {c \in GrantNames \X Pages \X BOOLEAN \X BOOLEAN : c[2] \in Reachable(Grants[c[1]])}
ReadIn ==
  {r \in Cases \X Keys :
     r[2] \in Reads(Grants[r[1][1]], r[1][2], r[1][3], r[1][4])}
OfferedIn ==
  {r \in Cases \X CallNames :
     r[2] \in Offers(Grants[r[1][1]], r[1][2], r[1][3], r[1][4])}

\* The call changes rows the key lists; its success tells the cache of the key.
Changes(k, c) == Lists(k) \cap Endpoint(c).writes # {}
Tells(k, c) == k \in Call(c).invalidates \cup Call(c).sets \cup Call(c).removes
Related(k, c) == Changes(k, c) \/ Tells(k, c)

NoFocus == [key |-> "none", call |-> "none"]
\* When a page reads the key and when it offers the call. Pages of one layout
\* for which this is the same are interchangeable, and a behaviour has one.
ReadWhen(g, pg, k) ==
  {b \in BOOLEAN \X BOOLEAN : <<<<g, pg, b[1], b[2]>>, k>> \in ReadIn}
OfferedWhen(g, pg, c) ==
  {b \in BOOLEAN \X BOOLEAN : <<<<g, pg, b[1], b[2]>>, c>> \in OfferedIn}
Alike(g, k, c, pg) ==
  {q \in Reachable(Grants[g]) :
     /\ Layout(q) = Layout(pg)
     /\ ReadWhen(g, q, k) = ReadWhen(g, pg, k)
     /\ OfferedWhen(g, q, c) = OfferedWhen(g, pg, c)}

Focuses ==
  {f \in GrantNames \X Keys \X CallNames :
     /\ Related(f[2], f[3])
     /\ \E pg \in Pages : ReadWhen(f[1], pg, f[2]) # {}
     /\ \E pg \in Pages : OfferedWhen(f[1], pg, f[3]) # {}}

\* The pages of a behaviour: all of them when it only walks through the pages.
Ways ==
  {<<g, "none", "none", pg>> : g \in GrantNames, pg \in Pages}
    \cup {<<f[1], f[2], f[3], pg>> : f \in Focuses, pg \in {"index"}}
    \cup UNION {{<<f[1], f[2], f[3], CHOOSE q \in Alike(f[1], f[2], f[3], pg) : TRUE>> :
                   pg \in {q \in Reachable(Grants[f[1]]) :
                             ReadWhen(f[1], q, f[2]) # {} \/ OfferedWhen(f[1], q, f[3]) # {}}}
                : f \in Focuses}

(***************************************************************************)
(* The query cache                                                         *)
(***************************************************************************)
None == [at |-> 0, by |-> 0]
Idle == [at |-> "idle", shows |-> None]
Asked(account) == [at |-> "asked", shows |-> [at |-> 0, by |-> account]]

Active(pg, o, scopes) ==
  <<<<grant, pg, Scope(pg) \in scopes, o>>, focus.key>> \in ReadIn

\* A component that starts to use the key asks for it unless what is cached
\* will do or somebody has asked already.
Use(pg, o, scopes) ==
  IF Active(pg, o, scopes) /\ fetch = Idle /\ (have = None \/ invalid \/ old)
  THEN fetch' = Asked(token) /\ raced' = FALSE
  ELSE UNCHANGED <<fetch, raced>>

\* As if what is cached were only marked as invalid.
ClearCacheInvalidates ==
  /\ invalid' = (have # None)
  /\ raced' = FALSE
  /\ loaded' = {}
  /\ UNCHANGED <<have, old>>
\* clearAuthScopedQueryCache: requests under way answer to nobody.
ClearCache ==
  /\ have' = None
  /\ invalid' = FALSE
  /\ old' = FALSE
  /\ raced' = FALSE
  /\ loaded' = {}

Init ==
  /\ \/ grant \in GrantNames /\ focus = NoFocus
     \/ \E f \in Focuses : grant = f[1] /\ focus = [key |-> f[2], call |-> f[3]]
  /\ token = 1
  /\ switches = 0
  /\ page = "index"
  /\ open = FALSE
  /\ loaded = {}
  /\ changes = 0
  /\ have = None
  /\ invalid = FALSE
  /\ old = FALSE
  /\ fetch = IF Active("index", FALSE, {}) THEN Asked(1) ELSE Idle
  /\ mutation = [at |-> "nowhere", by |-> 0]
  /\ lost = FALSE
  /\ raced = FALSE

(***************************************************************************)
(* The user                                                                *)
(***************************************************************************)
\* Where a link leads: the layout of a workspace turns back to its overview.
Lands(pg, scopes) ==
  IF Scope(pg) = "ws" /\ "ws" \in scopes
       /\ ~IsWorkspacePathAllowed(pg, Grants[grant].ws)
  THEN "workspace" ELSE pg

Visit(pg) ==
  /\ page # "login"
  /\ <<grant, focus.key, focus.call, pg>> \in Ways
  /\ pg \in Reachable(Grants[grant])
  /\ page' = Lands(pg, loaded)
  /\ page' # page
  /\ open' = FALSE
  /\ Use(page', FALSE, loaded)
  /\ UNCHANGED <<grant, focus, token, switches, loaded, changes, have, invalid,
                 old, mutation, lost>>

ToggleDialog ==
  /\ page # "login"
  /\ open' = ~open
  /\ IF Active(page, open, loaded) THEN UNCHANGED <<fetch, raced>>
     ELSE Use(page, open', loaded)
  /\ UNCHANGED <<grant, focus, token, switches, page, loaded, changes, have,
                 invalid, old, mutation, lost>>

PermissionsArrive ==
  /\ page # "login"
  /\ Scope(page) \notin loaded \cup {"none"}
  /\ loaded' = loaded \cup {Scope(page)}
  /\ page' = Lands(page, loaded')
  /\ open' = (open /\ page' = page)
  /\ IF Active(page, open, loaded) THEN UNCHANGED <<fetch, raced>>
     ELSE Use(page', open', loaded')
  /\ UNCHANGED <<grant, focus, token, switches, changes, have, invalid, old,
                 mutation, lost>>

\* The button of the call is not pending.
Submit ==
  /\ page # "login"
  /\ <<<<grant, page, Scope(page) \in loaded, open>>, focus.call>> \in OfferedIn
  /\ mutation.at = "nowhere"
  /\ changes < MaxChanges
  /\ mutation' = [at |-> "sent", by |-> token]
  /\ UNCHANGED <<grant, focus, token, switches, page, open, loaded, changes,
                 have, invalid, old, fetch, lost, raced>>

(***************************************************************************)
(* The server and the network                                              *)
(***************************************************************************)
Commit ==
  /\ mutation.at = "sent"
  /\ changes' = changes + 1
  /\ mutation' = [mutation EXCEPT !.at = "committed"]
  /\ UNCHANGED <<grant, focus, token, switches, page, open, loaded, have,
                 invalid, old, fetch, lost, raced>>

Refuse ==
  /\ mutation.at = "sent"
  /\ mutation' = [at |-> "nowhere", by |-> 0]
  /\ UNCHANGED <<grant, focus, token, switches, page, open, loaded, changes,
                 have, invalid, old, fetch, lost, raced>>

Serve ==
  /\ fetch.at = "asked"
  /\ fetch' = [at |-> "served", shows |-> [fetch.shows EXCEPT !.at = changes]]
  /\ UNCHANGED <<grant, focus, token, switches, page, open, loaded, changes,
                 have, invalid, old, mutation, lost, raced>>

Receive ==
  /\ fetch.at = "served"
  /\ have' = fetch.shows
  /\ invalid' = FALSE
  /\ old' = FALSE
  /\ fetch' = Idle
  /\ UNCHANGED <<grant, focus, token, switches, page, open, loaded, changes,
                 mutation, lost, raced>>

\* Retried and given up, or answered with an error.
Fail ==
  /\ fetch # Idle
  /\ fetch' = Idle
  /\ UNCHANGED <<grant, focus, token, switches, page, open, loaded, changes,
                 have, invalid, old, mutation, lost, raced>>

(***************************************************************************)
(* The call has succeeded: onSuccess runs, on whatever page the user is by *)
(* now. What is cached and shown is asked for again, from the start even   *)
(* when it is being asked for; a first answer that is under way is waited  *)
(* for instead, and what is not shown is only marked.                      *)
(***************************************************************************)
Settle ==
  LET c == Call(focus.call)
      k == focus.key
      invalidated == k \in c.invalidates /\ have # None
      Lead == IF c.next = "same" THEN page ELSE Lands(c.next, loaded)
  IN
  /\ mutation.at = "committed"
  /\ mutation' = [at |-> "nowhere", by |-> 0]
  /\ page' = IF page = "login" THEN page ELSE Lead
  /\ open' \in {FALSE, open /\ page' = page}
  /\ have' = IF k \in c.sets THEN [at |-> changes, by |-> mutation.by]
             ELSE IF k \in c.removes THEN None ELSE have
  /\ invalid' = ((invalid \/ invalidated) /\ k \notin c.sets \cup c.removes)
  /\ old' = (old /\ k \notin c.sets \cup c.removes)
  /\ IF \/ invalidated /\ Active(page, open, loaded)
        \/ /\ page' # page /\ Active(page', FALSE, loaded)
           /\ fetch = Idle \/ k \in c.removes
           /\ have' = None \/ invalid' \/ old'
     THEN fetch' = Asked(token) /\ raced' = FALSE
     ELSE IF k \in c.removes THEN fetch' = Idle /\ raced' = FALSE
     ELSE raced' = (raced \/ fetch # Idle) /\ UNCHANGED fetch
  /\ UNCHANGED <<grant, focus, token, switches, loaded, changes, lost>>

\* The connection breaks before the answer: to the page the call has failed.
LoseAnswer ==
  /\ mutation.at = "committed"
  /\ mutation' = [at |-> "nowhere", by |-> 0]
  /\ lost' = TRUE
  /\ UNCHANGED <<grant, focus, token, switches, page, open, loaded, changes,
                 have, invalid, old, fetch, raced>>

(***************************************************************************)
(* Time                                                                    *)
(***************************************************************************)
GrowOld ==
  /\ have # None /\ ~old
  /\ old' = TRUE
  /\ UNCHANGED <<grant, focus, token, switches, page, open, loaded, changes,
                 have, invalid, fetch, mutation, lost, raced>>

\* Nothing on the page uses the key, for gcTime.
Collect ==
  /\ have # None /\ fetch = Idle
  /\ ~Active(page, open, loaded)
  /\ have' = None
  /\ invalid' = FALSE
  /\ old' = FALSE
  /\ UNCHANGED <<grant, focus, token, switches, page, open, loaded, changes,
                 fetch, mutation, lost, raced>>

(***************************************************************************)
(* Signing in and out                                                      *)
(***************************************************************************)
Leave ==
  /\ token # 0
  /\ switches < Switches
  /\ token' = 0
  /\ page' = "login"
  /\ open' = FALSE
  /\ ClearCache
  /\ fetch' = Idle
  /\ UNCHANGED <<grant, focus, switches, changes, mutation, lost>>

\* The logout call settles, either way.
Logout == page # "login" /\ Leave

\* A request is answered 401: apiRequest drops the token, the root component
\* the cache.
AuthInvalidated == (fetch.at = "asked" \/ mutation.at = "sent") /\ Leave

Login(account) ==
  /\ page = "login"
  /\ switches' = switches + 1
  /\ token' = account
  /\ page' = "index"
  /\ open' = FALSE
  /\ ClearCache
  /\ fetch' = IF Active("index", FALSE, {}) THEN Asked(account) ELSE Idle
  /\ UNCHANGED <<grant, focus, changes, mutation, lost>>

\* Accepting an invitation, signed in or with a new account, loads the console
\* anew in the organization; nothing else is under way then.
AcceptInvitation(account) ==
  /\ page \in {"login", "index"}
  /\ mutation.at = "nowhere"
  /\ switches < Switches
  /\ switches' = switches + 1
  /\ token' \in {token, account} \ {0}
  /\ page' = "index"
  /\ open' = FALSE
  /\ ClearCache
  /\ fetch' = IF Active("index", FALSE, {}) THEN Asked(token') ELSE Idle
  /\ UNCHANGED <<grant, focus, changes, mutation, lost>>

Next ==
  \/ \E pg \in Pages : Visit(pg)
  \/ ToggleDialog
  \/ PermissionsArrive
  \/ Submit
  \/ Commit
  \/ Refuse
  \/ Settle
  \/ LoseAnswer
  \/ Serve
  \/ Receive
  \/ Fail
  \/ GrowOld
  \/ Collect
  \/ Logout
  \/ AuthInvalidated
  \/ \E account \in Accounts : Login(account) \/ AcceptInvitation(account)

Spec == Init /\ [][Next]_vars

(***************************************************************************)
(* Properties                                                              *)
(***************************************************************************)
\* The variables are what they are said to be.
TypeOK ==
  /\ grant \in GrantNames
  /\ token \in {0} \cup Accounts
  /\ switches \in 0..Switches
  /\ page \in Pages \cup {"login"}
  /\ open \in BOOLEAN
  /\ loaded \subseteq {"org", "ws", "ide"}
  /\ changes \in 0..MaxChanges
  /\ have \in [at : 0..MaxChanges, by : {0} \cup Accounts]
  /\ invalid \in BOOLEAN
  /\ old \in BOOLEAN
  /\ fetch \in [at : {"idle", "asked", "served"},
               shows : [at : 0..MaxChanges, by : {0} \cup Accounts]]
  /\ mutation \in [at : {"nowhere", "sent", "committed"}, by : {0} \cup Accounts]
  /\ lost \in BOOLEAN
  /\ raced \in BOOLEAN

(***************************************************************************)
(* What changes a key without its success telling the cache, apart from    *)
(* the keys that have another variant: a page may show what was there      *)
(* before for as long as the answer counts as fresh.                       *)
(***************************************************************************)
\* The pages of a team and of a member tell only the keys of those two pages.
TeamMemberCalls == {"addTeamMember", "removeTeamMember", "addTeam", "removeTeam"}
DeleteConnectionCalls == {"deleteConnection", "ideDeleteConnection"}
DeleteEnvironmentCalls == {"deleteEnvironment", "ideDeleteEnvironment"}
\* What a workspace counts of what is in it.
CountedCalls ==
  {"createEnvironment", "ideCreateEnvironment", "createConnection"}
    \cup DeleteEnvironmentCalls \cup DeleteConnectionCalls
PolicyCalls == {"createPolicy", "revokePolicy"}

\* (No grant both administers the instance and writes an organization, so
\* nobody sees the list of all organizations stale.)
KnownStale ==
  [instanceAccounts |-> {"updateProfile"},
   instanceOrganizations |-> {"deleteOrg", "createTeam"},
   accountOrganizations |-> {"createOrg", "createTeam"},
   orgMembers |-> {"updateMemberRole"} \cup PolicyCalls, orgMember |-> PolicyCalls,
   orgPolicies |-> {"updateMemberRole"}, orgMemberTeams |-> {"updateTeam"},
   orgRole |-> {"deleteRole"}, wsRole |-> {"deleteWsRole"},
   wsPolicies |-> DeleteEnvironmentCalls \cup DeleteConnectionCalls,
   wsTeams |-> TeamMemberCalls,
   wsEffectiveMembers |-> TeamMemberCalls \cup {"addWsTeam", "removeWsTeam"},
   orgWorkspaces |-> CountedCalls, orgWorkspace |-> CountedCalls \cup {"deleteWorkspace"},
   ideSessions |-> {"removeTeamMember", "removeTeam", "removeWsMember", "addWsTeam",
                    "removeWsTeam", "updateConnection"},
   directory |-> {"updateConnection"}, relationships |-> {"updateConnection"},
   schemaObject |-> {"updateConnection"},
   generateStatement |-> {"refreshSchema", "schemaEdit", "updateConnection"},
   privateSearch |-> {"saveAs", "createItem", "deleteFile", "renameFile", "duplicateFile"},
   workspaceHistory |-> {"clearHistory"} \cup DeleteConnectionCalls,
   favorites |-> {"clearFavorites"} \cup DeleteConnectionCalls,
   jobs |-> {"submitExport"}]

\* The success tells the cache of another variant of the key than this one.
ToldOtherVariant(k, c) ==
  /\ ~Tells(k, c)
  /\ \E V \in Variants : k \in V /\ V \cap Call(c).invalidates # {}

\* The page shows an answer it has no reason to ask for again: nothing is
\* under way, the call was answered, and no answer was overtaken or lost.
Settled ==
  /\ page # "login"
  /\ Active(page, open, loaded)
  /\ have # None /\ ~invalid /\ ~old /\ fetch = Idle
  /\ mutation.at # "committed" /\ ~lost /\ ~raced

\* What a page shows when everything has come to rest is what the server has:
\* every call that changes the rows of a key tells the cache so, on every page
\* that offers it, whatever the user did before it was answered (onSuccess of
\* the mutations, query-keys.ts).
ShownIsFresh ==
  \/ ~Settled
  \/ focus.key \in DOMAIN KnownStale /\ focus.call \in KnownStale[focus.key]
  \/ ToldOtherVariant(focus.key, focus.call)
  \/ have.at = changes

\* The requests a page makes although the server refuses them. No route
\* delivers a single policy; private files and exports are for members of the
\* workspace, shared files for those with a permission on them, and the panels
\* ask neither way; editing a connection tests it with the permission to create
\* one.
KnownRefusals(account) ==
  {"orgPolicy"}
    \cup When("ws" \notin account.belongs,
             {"privateBrowser", "privateSearch", "saveAs", "createItem",
              "renameFile", "duplicateFile", "deleteFile", "jobs", "cancelExport"})
    \cup When("wsfile:read" \notin account.ws, {"sharedBrowser", "sharedSearch"})
    \cup When("conn:create" \notin account.ws, {"testConnection"})

Refused(account, request) ==
  /\ request \notin KnownRefusals(account)
  /\ ~Accepts(account, Endpoint(request).needs)
RefusedIn ==
  {r[1] : r \in {s \in ReadIn \cup OfferedIn : Refused(Grants[s[1][1]], s[2])}}

\* No page asks for, or offers, what the server then refuses: the permissions
\* a page tests are the ones the route requires (pages against routes.go).
OfferedIsAllowed ==
  <<grant, page, Scope(page) \in loaded, open>> \notin RefusedIn

LeadsNowhere(account, pg) ==
  \/ pg \notin Reachable(account)
  \/ PageReads(pg, Permissions(account, pg, {Scope(pg)}), FALSE) = {}
  \/ Scope(pg) = "ws" /\ ~IsWorkspacePathAllowed(pg, account.ws)
BrokenLinks ==
  {c \in Cases :
     \E pg \in LinksOf(Grants[c[1]], c[2], Scopes(c[2], c[3])) :
       LeadsNowhere(Grants[c[1]], pg)}

\* A menu entry, a card or a row leads to a page the account can be on and
\* that has something to show (organizationItems, isWorkspacePathAllowed,
\* workspace-page-permissions.ts against the pages' own conditions).
LinksLead ==
  <<grant, page, Scope(page) \in loaded, open>> \notin BrokenLinks

\* What the cache holds was answered to the account that is signed in, but for
\* what a call of the one before fills in when it is answered late
\* (clearAuthScopedQueryCache: user-scoped data must not survive logout/login
\* account switches).
OwnUnlessSet ==
  /\ have # None /\ have.by # token => focus.key \in Call(focus.call).sets
  /\ fetch # Idle => fetch.shows.by = token

-----------------------------------------------------------------------------
(* What a comment says and the code does not keep (see the README).        *)

\* "Scope keys intentionally omit list filters so mutations can invalidate
\* every cached variant of a resource collection" (query-keys.ts:3): also the
\* variants that spell an identifier in another way.
VariantsInvalidated ==
  Settled /\ ToldOtherVariant(focus.key, focus.call) => have.at = changes
=============================================================================
