---------------------------- MODULE WorkspacePages ----------------------------
(***************************************************************************)
(* The pages of a workspace of an organization, in the form of OrgPages;   *)
(* p is what the console has cached of the permissions in the workspace.   *)
(***************************************************************************)
EXTENDS OrgPages

(***************************************************************************)
(* Which pages the menu shows, and which the layout lets a path lead to    *)
(***************************************************************************)
EnvironmentPagePermissions ==
  {"env:read", "env:write", "env:create", "env:delete", "env:deploy",
   "conn:read", "conn:update", "conn:create", "conn:delete", "conn:execute",
   "conn:dql", "conn:dml", "conn:ddl"}
ConnectionPagePermissions ==
  {"conn:read", "conn:update", "conn:create", "conn:delete", "conn:execute",
   "conn:dql", "conn:dml", "conn:ddl"}
PolicyPagePermissions == {"policy:read", "policy:modify"}
SettingsPagePermissions == {"ws:read", "ws:write"}

WorkspacePrimaryItems(p) ==
  {"workspaces", "workspace", "ide"}
    \cup When(p \cap EnvironmentPagePermissions # {}, {"environments"})
    \cup When(p \cap ConnectionPagePermissions # {}, {"connections"})
WorkspaceAccessControlItems(p) ==
  When(p \cap PolicyPagePermissions # {}, {"wsUsers", "wsTeams", "wsPolicies", "wsRoles"})
WorkspaceSettingsItems(p) ==
  When(p \cap SettingsPagePermissions # {}, {"wsSettings"})
WorkspaceMenu(p) ==
  WorkspacePrimaryItems(p) \cup WorkspaceAccessControlItems(p)
    \cup WorkspaceSettingsItems(p)

IsWorkspacePathAllowed(place, p) ==
  /\ place = "environments" => p \cap EnvironmentPagePermissions # {}
  /\ place = "connections" => p \cap ConnectionPagePermissions # {}
  /\ place \in {"wsUsers", "wsTeams", "wsRoles", "wsRole", "wsPolicies"}
       => p \cap PolicyPagePermissions # {}
  /\ place = "wsSettings" => p \cap SettingsPagePermissions # {}

(***************************************************************************)
(* Overview                                                                *)
(***************************************************************************)
WorkspaceReads(p, dialog) == {"orgWorkspace"}
\* The cards of the overview: pages of the menu, without the teams and the roles.
OverviewCards(p) ==
  WorkspaceMenu(p) \ {"workspaces", "workspace", "ide", "wsTeams", "wsRoles"}

(***************************************************************************)
(* Members and teams                                                       *)
(***************************************************************************)
\* The switch that includes inherited members counts as a dialog.
WsUsersReads(p, dialog) ==
  When(Has(p, "policy:read"), {"wsMembers"})
    \cup When(dialog /\ Has(p, "policy:read"), {"wsEffectiveMembers"})
    \cup When(dialog /\ Has(p, "policy:modify"), {"orgMembers"})
InvalidateWorkspaceUserQueries == Invalidates({"wsMembers", "wsEffectiveMembers"})
AddWsMember == InvalidateWorkspaceUserQueries
RemoveWsMember == InvalidateWorkspaceUserQueries
WsUserPicker(p, dialog) == When(dialog /\ Has(p, "policy:modify"), {"addWsMember"})
WorkspaceUserRow(p) ==
  When(Has(p, "policy:read") /\ Has(p, "policy:modify"), {"removeWsMember"})

WsTeamsReads(p, dialog) ==
  When(Has(p, "policy:read"), {"wsTeams"})
    \cup When(dialog /\ Has(p, "policy:modify"), {"orgTeams"})
AddWsTeam == Invalidates({"wsTeams"})
RemoveWsTeam == Invalidates({"wsTeams"})
WsTeamPicker(p, dialog) == When(dialog /\ Has(p, "policy:modify"), {"addWsTeam"})
WorkspaceTeamRow(p) ==
  When(Has(p, "policy:read") /\ Has(p, "policy:modify"), {"removeWsTeam"})

(***************************************************************************)
(* Roles and policies                                                      *)
(***************************************************************************)
WsRolesReads(p, dialog) ==
  {"orgPermissions"} \cup When(Has(p, "policy:read"), {"wsRoles"})
CreateWsRole == Invalidates({"wsRoles"})
DeleteWsRole == Invalidates({"wsRoles"})
WsRolesOffers(p, dialog) == When(dialog /\ Has(p, "policy:modify"), {"createWsRole"})
WsRoleRow(p) ==
  When(Has(p, "policy:read") /\ Has(p, "policy:modify"), {"deleteWsRole"})

WsRoleReads(p, dialog) ==
  {"orgPermissions"} \cup When(Has(p, "policy:read"), {"wsRole"})
DeleteThisWsRole == ThenGoTo(Invalidates({"wsRoles", "wsRole"}), "wsRoles")
UpdateWsRole == Invalidates({"wsRoles", "wsRole"})
WsRoleOffers(p, dialog) ==
  When(dialog /\ Has(p, "policy:read") /\ Has(p, "policy:modify"),
       {"updateWsRole", "deleteThisWsRole"})

WsPoliciesReads(p, dialog) ==
  When(Has(p, "policy:read"), {"wsPolicies"})
    \cup When(dialog /\ Has(p, "policy:modify"),
             {"org", "orgMembers", "orgTeams", "wsRoles",
              "orgEnvironments", "connections"})
CreateWsPolicy == Invalidates({"wsPolicies"})
RevokeWsPolicy == Invalidates({"wsPolicies"})
WsPoliciesOffers(p, dialog) == When(dialog /\ Has(p, "policy:modify"), {"createWsPolicy"})
WsPolicyRow(p) ==
  When(Has(p, "policy:read") /\ Has(p, "policy:modify"), {"revokeWsPolicy"})

(***************************************************************************)
(* Environments, connections and settings                                  *)
(***************************************************************************)
EnvironmentsReads(p, dialog) == {"orgEnvironments"}
CreateEnvironment == Invalidates({"orgEnvironments"})
UpdateEnvironment == Invalidates({"orgEnvironments"})
DeleteEnvironment == Invalidates({"orgEnvironments"})
EnvironmentsOffers(p, dialog) ==
  When(dialog /\ Has(p, "env:create"), {"createEnvironment"})
    \cup When(dialog /\ Has(p, "env:write"), {"renameEnvironment"})
EnvironmentRow(p) == When(Has(p, "env:delete"), {"deleteEnvironment"})

ConnectionsReads(p, dialog) ==
  {"connections", "orgEnvironments"}
    \cup When(dialog /\ Has(p, "conn:update"), {"org", "connectionDsn"})
DeleteConnection == Invalidates({"connections"})
\* useEditConnectionForm drops what it read of the DSN once it is saved. It is
\* given the workspace's number, so the list it invalidates is the editor's,
\* also when this page, whose list has the workspace's text, opened it.
UpdateConnection ==
  [Invalidates({"ideConnections"}) EXCEPT !.removes = {"connectionDsn"}]
\* The dialog tests a connection by the route for new ones.
EditConnectionDialog(p, dialog) ==
  When(dialog /\ Has(p, "conn:update"), {"updateConnection", "testConnection"})
ConnectionsOffers(p, dialog) == EditConnectionDialog(p, dialog)
ConnectionRow(p) == When(Has(p, "conn:delete"), {"deleteConnection"})

WsSettingsReads(p, dialog) == {"orgWorkspace"}
UpdateWorkspace == Invalidates({"orgWorkspace", "orgWorkspaces"})
DeleteWorkspace == ThenGoTo(Invalidates({"orgWorkspaces"}), "workspaces")
WsGeneralSettings(p) == When(Has(p, "ws:write"), {"updateWorkspace"})
WsDangerZone(p, dialog) == When(dialog /\ Has(p, "ws:delete"), {"deleteWorkspace"})

(***************************************************************************)
(* All of them                                                             *)
(***************************************************************************)
WorkspacePageNames ==
  {"workspace", "wsUsers", "wsTeams", "wsRoles", "wsRole", "wsPolicies",
   "environments", "connections", "wsSettings"}

WorkspacePageReads(p, dialog) ==
  [workspace |-> WorkspaceReads(p, dialog), wsUsers |-> WsUsersReads(p, dialog),
   wsTeams |-> WsTeamsReads(p, dialog), wsRoles |-> WsRolesReads(p, dialog),
   wsRole |-> WsRoleReads(p, dialog), wsPolicies |-> WsPoliciesReads(p, dialog),
   environments |-> EnvironmentsReads(p, dialog),
   connections |-> ConnectionsReads(p, dialog),
   wsSettings |-> WsSettingsReads(p, dialog)]

WorkspacePageOffers(p, dialog) ==
  [workspace |-> {},
   wsUsers |-> WsUserPicker(p, dialog) \cup WorkspaceUserRow(p),
   wsTeams |-> WsTeamPicker(p, dialog) \cup WorkspaceTeamRow(p),
   wsRoles |-> WsRolesOffers(p, dialog) \cup WsRoleRow(p),
   wsRole |-> WsRoleOffers(p, dialog),
   wsPolicies |-> WsPoliciesOffers(p, dialog) \cup WsPolicyRow(p),
   environments |-> EnvironmentsOffers(p, dialog) \cup EnvironmentRow(p),
   connections |-> ConnectionsOffers(p, dialog) \cup ConnectionRow(p),
   wsSettings |-> WsGeneralSettings(p) \cup WsDangerZone(p, dialog)]

WorkspaceLinks(p) ==
  [workspace |-> OverviewCards(p),
   wsUsers |-> When(Has(p, "policy:read"), {"user"}),
   wsTeams |-> When(Has(p, "policy:read"), {"team"}),
   wsRoles |-> When(Has(p, "policy:read"), {"wsRole"}),
   wsRole |-> When(Has(p, "policy:read"), {"wsRoles"}), wsPolicies |-> {},
   environments |-> {}, connections |-> {}, wsSettings |-> {}]

WorkspaceCalls ==
  [addWsMember |-> AddWsMember, removeWsMember |-> RemoveWsMember,
   addWsTeam |-> AddWsTeam, removeWsTeam |-> RemoveWsTeam,
   createWsRole |-> CreateWsRole, deleteWsRole |-> DeleteWsRole,
   deleteThisWsRole |-> DeleteThisWsRole, updateWsRole |-> UpdateWsRole,
   createWsPolicy |-> CreateWsPolicy, revokeWsPolicy |-> RevokeWsPolicy,
   createEnvironment |-> CreateEnvironment, renameEnvironment |-> UpdateEnvironment,
   deleteEnvironment |-> DeleteEnvironment, updateConnection |-> UpdateConnection,
   deleteConnection |-> DeleteConnection, updateWorkspace |-> UpdateWorkspace,
   deleteWorkspace |-> DeleteWorkspace]
=============================================================================
