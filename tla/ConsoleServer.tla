---------------------------- MODULE ConsoleServer ----------------------------
(***************************************************************************)
(* What the console has to know of the server: the permissions of the      *)
(* built-in roles, and for every endpoint the console calls the            *)
(* requirement its route or its handler states and the tables it writes. A *)
(* list has a table of its own beside the one of its members (teams and    *)
(* team), and how many rows there are is one more where another answer     *)
(* counts them (teamCount). One organization, one workspace, one of each   *)
(* thing in them; what is in an organization or a workspace goes with it,  *)
(* and of a deletion only the thing itself is written here. The grant of   *)
(* the account stays what it is, whatever roles and memberships change.    *)
(***************************************************************************)
\* ScopePermissions["org"] without what only the Owner has.
AdministratorPermissions ==
  {"org:read", "org:write", "org:invite",
   "ws:create", "ws:delete", "ws:read", "ws:write",
   "wsfile:read", "wsfile:create", "wsfile:write", "wsfile:delete",
   "env:read", "env:write", "env:create", "env:delete", "env:deploy",
   "conn:read", "conn:update", "conn:create", "conn:delete", "conn:execute",
   "conn:dql", "conn:dml", "conn:ddl", "policy:read", "policy:modify"}
OwnerPermissions ==
  AdministratorPermissions \cup {"org:delete", "org:transfer_ownership"}
BaselinePermissions == {"org:read"}

\* ResourcePermissions["workspace"]: what a workspace can pass on of them.
WorkspaceApplicable ==
  AdministratorPermissions
    \ {"org:read", "org:write", "org:invite", "ws:create"}
WorkspaceAdminPermissions == WorkspaceApplicable \ {"ws:delete"}
WorkspaceMemberPermissions == {"ws:read"}

(***************************************************************************)
(* An account as the server sees it: the permissions it has in the         *)
(* organization and in the workspace, whether it belongs to either, and    *)
(* whether it administers the instance. Only the built-in roles are        *)
(* considered; every member has at least Baseline Access.                  *)
(***************************************************************************)
Grants ==
  [owner |->
     [org |-> OwnerPermissions, ws |-> WorkspaceApplicable,
      belongs |-> {"org", "ws"}, owns |-> TRUE],
   administrator |->
     [org |-> AdministratorPermissions, ws |-> WorkspaceApplicable,
      belongs |-> {"org"}, owns |-> FALSE],
   baseline |->
     [org |-> BaselinePermissions, ws |-> {}, belongs |-> {"org"}, owns |-> FALSE],
   workspaceAdmin |->
     [org |-> BaselinePermissions, ws |-> WorkspaceAdminPermissions,
      belongs |-> {"org", "ws"}, owns |-> FALSE],
   workspaceMember |->
     [org |-> BaselinePermissions, ws |-> WorkspaceMemberPermissions,
      belongs |-> {"org", "ws"}, owns |-> FALSE],
   instanceAdmin |->
     [org |-> {}, ws |-> {}, belongs |-> {"instance"}, owns |-> FALSE]]

GrantNames == DOMAIN Grants

\* requireAccount, requireInstanceAdmin, orgCtx, requireOrgPermission,
\* requireWorkspacePermission and requireOrgRole.
Public == [at |-> "public"]
Account == [at |-> "account"]
InstanceAdmin == [at |-> "instance"]
OrgMember == [at |-> "member"]
Org(perm) == [at |-> "org", any |-> {perm}]
Workspace(perm) == [at |-> "ws", any |-> {perm}]
AnyOf(perms) == [at |-> "ws", any |-> perms]
Accessible == AnyOf(WorkspaceApplicable)
OrgOwner == [at |-> "owner"]
WorkspaceMember == [at |-> "wsMember"]
Missing == [at |-> "nowhere"]

Accepts(account, needs) ==
  \/ needs.at \in {"public", "account"}
  \/ needs.at = "instance" /\ "instance" \in account.belongs
  \/ needs.at = "member" /\ "org" \in account.belongs
  \/ needs.at = "org" /\ needs.any \cap account.org # {}
  \/ needs.at = "ws" /\ needs.any \cap account.ws # {}
  \/ needs.at = "owner" /\ account.owns
  \/ needs.at = "wsMember" /\ "ws" \in account.belongs

\* ensureWorkspaceJobAccess: of every job endpoint, whatever the route says.
JobAccess == WorkspaceMember

Get(needs) == [needs |-> needs, writes |-> {}]
Change(needs, tables) == [needs |-> needs, writes |-> tables]

(***************************************************************************)
(* What a call writes beside the row it is about                           *)
(***************************************************************************)
\* replaceOrgMemberBuiltinRole: the role of a member is a binding on the
\* organization, deleted and inserted where policies are.
MemberBindings == {"bindings"}
CreatedTeam == {"teams", "teamCount"}
\* removeTeamMember drops the account's sessions in the team's workspaces.
RemovedTeamMember == {"teamMembers", "dbSessions"}
\* removeWorkspaceMember drops the sessions of the account.
RemovedWsMember == {"wsMembers", "dbSessions"}
\* addWorkspaceTeam and removeWorkspaceTeam drop those of the team's members.
ChangedWsTeam == {"wsTeams", "dbSessions"}
CreatedEnvironment == {"environments", "environmentCount"}
\* Bindings on what was deleted are listed no more.
DeletedEnvironment == {"environments", "environmentCount", "wsBindings"}
CreatedConnection == {"connections", "connectionCount"}
\* The history of the connection goes with it, favorites lose it.
DeletedConnection ==
  {"connections", "connectionCount", "wsBindings", "history", "favorites"}
\* Another database behind the connection; by force, its sessions are dropped.
UpdatedConnection == {"connections", "dsn", "schema", "dbSessions"}

AccountEndpoints ==
  [setupStatus |-> Get(Public),
   session |-> Get(Account),
   accountOrganizations |-> Get(Account),
   updateProfile |-> Change(Account, {"me", "accounts"}),
   updatePassword |-> Change(Account, {})]

InstanceEndpoints ==
  [instanceAdmins |-> Get(InstanceAdmin),
   instanceAccounts |-> Get(InstanceAdmin),
   instanceOrganizations |-> Get(InstanceAdmin),
   instanceSettings |-> Get(InstanceAdmin),
   instanceConfiguration |-> Get(InstanceAdmin),
   addAdmin |-> Change(InstanceAdmin, {"admins"}),
   removeAdmin |-> Change(InstanceAdmin, {"admins", "me"}),
   createAccount |-> Change(InstanceAdmin, {"accounts"}),
   createOrg |-> Change(InstanceAdmin, {"orgs"}),
   updateInstance |-> Change(InstanceAdmin, {"settings"})]

OrgEndpoints ==
  [org |-> Get(OrgMember),
   orgPermissions |-> Get(OrgMember),
   orgRuntimeSettings |-> Get(Org("org:read")),
   orgMembers |-> Get(Org("org:read")),
   orgMember |-> Get(Org("org:read")),
   orgMemberTeams |-> Get(Org("org:read")),
   orgInvitations |-> Get(Org("org:invite")),
   orgTeams |-> Get(Org("org:read")),
   orgTeam |-> Get(Org("org:read")),
   orgTeamMembers |-> Get(Org("org:read")),
   orgRoles |-> Get(Org("policy:read")),
   orgRole |-> Get(Org("policy:read")),
   orgPolicies |-> Get(Org("policy:read")),
   orgPolicy |-> Get(Missing),
   updateOrg |-> Change(Org("org:write"), {"orgs", "org"}),
   deleteOrg |-> Change(Org("org:delete"), {"orgs", "org"}),
   updateRuntime |-> Change(Org("org:write"), {"orgSettings"}),
   clearHistory |-> Change(Org("org:write"), {"history"}),
   clearFavorites |-> Change(Org("org:write"), {"favorites"}),
   inviteUser |-> Change(Org("org:invite"), {"invitations"}),
   resendInvitation |-> Change(Org("org:invite"), {"invitations"}),
   revokeInvitation |-> Change(Org("org:invite"), {"invitations"}),
   updateMemberRole |-> Change(OrgOwner, MemberBindings),
   createTeam |-> Change(Org("org:write"), CreatedTeam),
   updateTeam |-> Change(Org("org:write"), {"teams", "team"}),
   addTeamMember |-> Change(Org("org:write"), {"teamMembers"}),
   removeTeamMember |-> Change(Org("org:write"), RemovedTeamMember),
   addTeam |-> Change(Org("org:write"), {"teamMembers"}),
   removeTeam |-> Change(Org("org:write"), RemovedTeamMember),
   createRole |-> Change(Org("policy:modify"), {"roles"}),
   updateRole |-> Change(Org("policy:modify"), {"roles", "role"}),
   deleteRole |-> Change(Org("policy:modify"), {"roles", "role"}),
   deleteThisRole |-> Change(Org("policy:modify"), {"roles", "role"}),
   createPolicy |-> Change(Org("policy:modify"), {"bindings"}),
   revokePolicy |-> Change(Org("policy:modify"), {"bindings"}),
   orgWorkspaces |-> Get(OrgMember),
   createWorkspace |-> Change(Org("ws:create"), {"workspaces"})]

WorkspaceEndpoints ==
  [orgWorkspace |-> Get(Accessible),
   wsMembers |-> Get(Workspace("policy:read")),
   wsEffectiveMembers |-> Get(Workspace("policy:read")),
   wsTeams |-> Get(Workspace("policy:read")),
   wsRoles |-> Get(Workspace("policy:read")),
   wsRole |-> Get(Workspace("policy:read")),
   wsPolicies |-> Get(Workspace("policy:read")),
   orgEnvironments |-> Get(OrgMember),
   connections |-> Get(OrgMember),
   connectionDsn |-> Get(Workspace("conn:update")),
   updateWorkspace |-> Change(Workspace("ws:write"), {"workspaces", "workspace"}),
   deleteWorkspace |-> Change(Workspace("ws:delete"), {"workspaces", "workspace"}),
   addWsMember |-> Change(Workspace("policy:modify"), {"wsMembers"}),
   removeWsMember |-> Change(Workspace("policy:modify"), RemovedWsMember),
   addWsTeam |-> Change(Workspace("policy:modify"), ChangedWsTeam),
   removeWsTeam |-> Change(Workspace("policy:modify"), ChangedWsTeam),
   createWsRole |-> Change(Workspace("policy:modify"), {"wsRoles"}),
   updateWsRole |-> Change(Workspace("policy:modify"), {"wsRoles", "wsRole"}),
   deleteWsRole |-> Change(Workspace("policy:modify"), {"wsRoles", "wsRole"}),
   deleteThisWsRole |-> Change(Workspace("policy:modify"), {"wsRoles", "wsRole"}),
   createWsPolicy |-> Change(Workspace("policy:modify"), {"wsBindings"}),
   revokeWsPolicy |-> Change(Workspace("policy:modify"), {"wsBindings"}),
   createEnvironment |-> Change(Workspace("env:create"), CreatedEnvironment),
   renameEnvironment |-> Change(Workspace("env:write"), {"environments"}),
   deleteEnvironment |-> Change(Workspace("env:delete"), DeletedEnvironment),
   createConnection |-> Change(Workspace("conn:create"), CreatedConnection),
   testConnection |-> Change(Workspace("conn:create"), {}),
   updateConnection |-> Change(Workspace("conn:update"), UpdatedConnection),
   deleteConnection |-> Change(Workspace("conn:delete"), DeletedConnection)]

Runnable == {"conn:execute", "conn:dql", "conn:dml", "conn:ddl"}
IdeEndpoints ==
  [ideEnvironments |-> Get(OrgMember),
   ideConnections |-> Get(OrgMember),
   ideSessions |-> Get(OrgMember),
   privateBrowser |-> Get(WorkspaceMember),
   privateSearch |-> Get(WorkspaceMember),
   sharedBrowser |-> Get(Workspace("wsfile:read")),
   sharedSearch |-> Get(Workspace("wsfile:read")),
   workspaceHistory |-> Get(OrgMember),
   favorites |-> Get(OrgMember),
   jobs |-> Get(JobAccess),
   directory |-> Get(AnyOf(Runnable)),
   schemaSpec |-> Get(AnyOf(Runnable)),
   schemaObject |-> Get(AnyOf(Runnable)),
   relationships |-> Get(AnyOf(Runnable)),
   generateStatement |-> Get(AnyOf(Runnable)),
   preview |-> Get(AnyOf({"conn:execute", "conn:dql"})),
   previewCount |-> Get(AnyOf({"conn:execute", "conn:dql"})),
   ideCreateEnvironment |-> Change(Workspace("env:create"), CreatedEnvironment),
   ideRenameEnvironment |-> Change(Workspace("env:write"), {"environments"}),
   ideDeleteEnvironment |-> Change(Workspace("env:delete"), DeletedEnvironment),
   ideDeleteConnection |-> Change(Workspace("conn:delete"), DeletedConnection),
   connect |-> Change(AnyOf(Runnable), {"dbSessions"}),
   disconnect |-> Change(OrgMember, {"dbSessions"}),
   refreshSchema |-> Change(AnyOf(Runnable), {"schema"}),
   schemaEdit |-> Change(AnyOf({"conn:execute", "conn:ddl"}), {"schema"}),
   saveAs |-> Change(WorkspaceMember, {"files"}),
   createItem |-> Change(WorkspaceMember, {"files"}),
   renameFile |-> Change(WorkspaceMember, {"files"}),
   duplicateFile |-> Change(WorkspaceMember, {"files"}),
   deleteFile |-> Change(WorkspaceMember, {"files"}),
   recordHistory |-> Change(OrgMember, {"history"}),
   deleteHistory |-> Change(OrgMember, {"history"}),
   createFavorite |-> Change(OrgMember, {"favorites"}),
   updateFavorite |-> Change(OrgMember, {"favorites"}),
   deleteFavorite |-> Change(OrgMember, {"favorites"}),
   submitExport |-> Change(AnyOf({"conn:execute", "conn:dql"}), {"jobs"}),
   cancelExport |-> Change(JobAccess, {"jobs"}),
   retryExport |-> Change(AnyOf({"conn:execute", "conn:dql"}), {"jobs"})]

Endpoint(name) ==
  IF name \in DOMAIN AccountEndpoints THEN AccountEndpoints[name]
  ELSE IF name \in DOMAIN InstanceEndpoints THEN InstanceEndpoints[name]
  ELSE IF name \in DOMAIN OrgEndpoints THEN OrgEndpoints[name]
  ELSE IF name \in DOMAIN WorkspaceEndpoints THEN WorkspaceEndpoints[name]
  ELSE IdeEndpoints[name]
=============================================================================
