---------------------------- MODULE ConsoleQueries ----------------------------
(***************************************************************************)
(* The queries of the console: for each key of its query cache the tables  *)
(* whose rows the answer lists or counts, in the terms of ConsoleServer.   *)
(* Names that an answer has from other tables are left out. A key stands for all its  *)
(* pages and filters: a mutation invalidates them together. Where a        *)
(* component asks with the workspace's or the account's number and another *)
(* with its text from the address, the cache has two entries, and so has   *)
(* this module (connections and ideConnections).                           *)
(***************************************************************************)
\* ListAccountOrgsPage and ListOrganizationsPage count the teams.
OrganizationRows == {"orgs", "teamCount"}
\* listOrgMembers and GetOrgMember read the role of a member from role_bindings.
MemberRows == {"members", "bindings"}
\* ListAccountTeamsPage: the teams of an account, with what they are.
AccountTeamRows == {"teamMembers", "team"}
\* ListWorkspaceTeamsPage counts the members of each.
WorkspaceTeamRows == {"wsTeams", "teamMembers"}
\* PopulateWorkspaceCounts.
WorkspaceCounts == {"environmentCount", "connectionCount"}

AuthQueries ==
  [setupStatus |-> {}, session |-> {"me", "orgs", "settings"},
   accountOrganizations |-> OrganizationRows]

InstanceQueries ==
  [instanceOrganizations |-> OrganizationRows, instanceAccounts |-> {"accounts"},
   instanceAdmins |-> {"admins"}, instanceSettings |-> {"settings"},
   instanceConfiguration |-> {}]

OrganizationQueries ==
  [orgPermissions |-> {}, org |-> {"org"}, orgRuntimeSettings |-> {"orgSettings"},
   orgMembers |-> MemberRows, orgInvitations |-> {"invitations"},
   orgMember |-> MemberRows,
   orgMemberTeams |-> AccountTeamRows,
   orgTeams |-> {"teams"}, orgTeam |-> {"team"}, orgTeamMembers |-> {"teamMembers"},
   orgRoles |-> {"roles"}, orgRole |-> {"role"},
   wsRoles |-> {"wsRoles"}, wsRole |-> {"wsRole"},
   orgPolicy |-> {}, orgPolicies |-> {"bindings"}]

WorkspaceQueries ==
  [orgWorkspaces |-> {"workspaces"} \cup WorkspaceCounts,
   orgWorkspace |-> {"workspace"} \cup WorkspaceCounts,
   wsMembers |-> {"wsMembers"},
   wsEffectiveMembers |-> {"wsMembers", "wsTeams", "teamMembers"},
   wsTeams |-> WorkspaceTeamRows, wsPolicies |-> {"wsBindings"},
   orgEnvironments |-> {"environments"}, ideEnvironments |-> {"environments"},
   connections |-> {"connections"}, ideConnections |-> {"connections"},
   connectionDsn |-> {"dsn"}, jobs |-> {"jobs"}]

SchemaQueries ==
  [directory |-> {"schema"}, schemaSpec |-> {}, relationships |-> {"schema"},
   schemaObject |-> {"schema"}, generateStatement |-> {"schema"},
   preview |-> {}, previewCount |-> {}, ideSessions |-> {"dbSessions"}]

FileQueries ==
  [privateBrowser |-> {"files"}, sharedBrowser |-> {"sharedFiles"},
   privateSearch |-> {"files"}, sharedSearch |-> {"sharedFiles"}]

HistoryQueries == [workspaceHistory |-> {"history"}]
FavoriteQueries == [favorites |-> {"favorites"}]

Lists(key) ==
  IF key \in DOMAIN AuthQueries THEN AuthQueries[key]
  ELSE IF key \in DOMAIN InstanceQueries THEN InstanceQueries[key]
  ELSE IF key \in DOMAIN OrganizationQueries THEN OrganizationQueries[key]
  ELSE IF key \in DOMAIN WorkspaceQueries THEN WorkspaceQueries[key]
  ELSE IF key \in DOMAIN SchemaQueries THEN SchemaQueries[key]
  ELSE IF key \in DOMAIN FileQueries THEN FileQueries[key]
  ELSE IF key \in DOMAIN HistoryQueries THEN HistoryQueries[key]
  ELSE FavoriteQueries[key]

Keys ==
  DOMAIN AuthQueries \cup DOMAIN InstanceQueries \cup DOMAIN OrganizationQueries
    \cup DOMAIN WorkspaceQueries \cup DOMAIN SchemaQueries \cup DOMAIN FileQueries
    \cup DOMAIN HistoryQueries \cup DOMAIN FavoriteQueries

\* The keys that are one collection under two spellings of an identifier.
Variants ==
  {{"connections", "ideConnections"}, {"orgEnvironments", "ideEnvironments"},
   {"orgMemberTeams", "orgMemberTeamsByNumber"}}
=============================================================================
