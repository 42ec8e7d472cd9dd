------------------------------ MODULE OrgPages ------------------------------
(***************************************************************************)
(* The pages of an organization. For each: the queries it has enabled and  *)
(* the calls a user can make from it, given the permissions the console    *)
(* has cached and whether the page's dialog is open; and for each call       *)
(* what its success does to the query cache and where it leads.            *)
(***************************************************************************)
EXTENDS ConsoleServer

\* onSuccess of a mutation: the keys it invalidates, the keys it fills with
\* the answer, the keys it removes, and the page it navigates to.
Invalidates(keys) ==
  [invalidates |-> keys, sets |-> {}, removes |-> {}, next |-> "same"]
ThenGoTo(call, place) == [call EXCEPT !.next = place]

Has(p, perm) == perm \in p
When(condition, things) == IF condition THEN things ELSE {}

(***************************************************************************)
(* OrganizationLayout                                                      *)
(***************************************************************************)
OrgLayoutReads == {"setupStatus", "session", "org"}
WorkspaceLayoutReads == OrgLayoutReads \cup {"orgWorkspace"}

\* As if policies and roles were in the menu of everybody.
AccessControlItemsForReaders(p) ==
  When(Has(p, "org:read"), {"users", "teams", "policies", "roles"})
AccessControlItems(p) ==
  When(Has(p, "org:read"), {"users", "teams"})
    \cup When(Has(p, "policy:read"), {"policies", "roles"})
SettingsItems(p) ==
  When(p \cap {"org:read", "org:write", "org:delete"} # {}, {"settings"})
OrganizationItems == {"workspaces", "ide"}
OrgMenu(p) == OrganizationItems \cup AccessControlItems(p) \cup SettingsItems(p)

(***************************************************************************)
(* Teams                                                                   *)
(***************************************************************************)
TeamsReads(p, dialog) == When(Has(p, "org:read"), {"orgTeams"})
\* As if the success of createTeam forgot the list.
CreateTeamSilent == Invalidates({})
CreateTeam == Invalidates({"orgTeams"})
\* As if the dialog did not ask for the permission to write.
TeamsOffersToReaders(p, dialog) ==
  When(dialog /\ Has(p, "org:read"), {"createTeam"})
TeamsOffers(p, dialog) ==
  When(dialog /\ Has(p, "org:read") /\ Has(p, "org:write"), {"createTeam"})
TeamsLinks(p) == When(Has(p, "org:read"), {"team", "users"})

TeamReads(p, dialog) ==
  When(Has(p, "org:read"), {"orgTeam", "orgTeamMembers"})
    \cup When(dialog /\ Has(p, "org:read"), {"orgMembers"})
\* The teams of the member are invalidated under the account's number; the
\* member's page keeps them under its text from the address.
AddTeamMember == Invalidates({"orgTeamMembers", "orgMemberTeamsByNumber"})
RemoveTeamMember == Invalidates({"orgTeamMembers", "orgMemberTeamsByNumber"})
UpdateTeam == Invalidates({"orgTeam", "orgTeams"})
TeamEditor(p, dialog) ==
  When(dialog /\ Has(p, "org:read") /\ Has(p, "org:write"), {"updateTeam"})
TeamMembership(p, dialog) ==
  When(dialog /\ Has(p, "org:read") /\ Has(p, "org:write"),
       {"addTeamMember", "removeTeamMember"})

(***************************************************************************)
(* Members and invitations                                                 *)
(***************************************************************************)
UsersReads(p, dialog) ==
  When(Has(p, "org:read"), {"orgMembers"})
    \cup When(Has(p, "org:read") /\ Has(p, "org:invite"), {"orgInvitations"})
InviteUser == Invalidates({"orgInvitations"})
UsersOffers(p, dialog) ==
  When(dialog /\ Has(p, "org:read") /\ Has(p, "org:invite"), {"inviteUser"})
ResendInvitation == Invalidates({"orgInvitations"})
RevokeInvitation == Invalidates({"orgInvitations"})
PendingInvitations(p) ==
  When(Has(p, "org:read") /\ Has(p, "org:invite"),
       {"resendInvitation", "revokeInvitation"})
UsersLinks(p) == When(Has(p, "org:read"), {"user", "teams"})

UserReads(p, dialog) ==
  When(Has(p, "org:read"), {"orgMember", "orgMemberTeams"})
    \cup When(dialog /\ Has(p, "org:read"), {"orgTeams"})
AddTeam == Invalidates({"orgMemberTeams", "orgTeamMembers"})
RemoveTeam == Invalidates({"orgMemberTeams", "orgTeamMembers"})
UpdateMemberRole == Invalidates({"orgMember"})
MemberRole(p) ==
  When(Has(p, "org:read") /\ Has(p, "org:transfer_ownership"), {"updateMemberRole"})
UserTeams(p, dialog) ==
  When(dialog /\ Has(p, "org:read") /\ Has(p, "org:write"),
       {"addTeam", "removeTeam"})

(***************************************************************************)
(* Roles. Only a custom role can be changed: the rows of built-in roles    *)
(* offer nothing.                                                          *)
(***************************************************************************)
RolesReads(p, dialog) ==
  {"orgPermissions"} \cup When(Has(p, "policy:read"), {"orgRoles"})
CreateRole == Invalidates({"orgRoles"})
DeleteRole == Invalidates({"orgRoles"})
RolesOffers(p, dialog) == When(dialog /\ Has(p, "policy:modify"), {"createRole"})
RoleRow(p) == When(Has(p, "policy:read") /\ Has(p, "policy:modify"), {"deleteRole"})
RolesLinks(p) == When(Has(p, "policy:read"), {"role", "policies"})

RoleReads(p, dialog) ==
  {"orgPermissions"} \cup When(Has(p, "policy:read"), {"orgRole"})
DeleteThisRole == ThenGoTo(Invalidates({"orgRoles", "orgRole"}), "roles")
UpdateRole == Invalidates({"orgRoles", "orgRole"})
RoleOffers(p, dialog) ==
  When(dialog /\ Has(p, "policy:read") /\ Has(p, "policy:modify"),
       {"updateRole", "deleteThisRole"})

(***************************************************************************)
(* Policies                                                                *)
(***************************************************************************)
PoliciesReads(p, dialog) ==
  When(Has(p, "policy:read"), {"orgPolicies"})
    \cup When(dialog /\ Has(p, "policy:modify"), {"orgMembers", "orgTeams", "orgRoles"})
CreatePolicy == Invalidates({"orgPolicies"})
RevokePolicy == Invalidates({"orgPolicies"})
PoliciesOffers(p, dialog) == When(dialog /\ Has(p, "policy:modify"), {"createPolicy"})
PolicyRow(p) ==
  When(Has(p, "policy:read") /\ Has(p, "policy:modify"), {"revokePolicy"})
PoliciesLinks(p) == When(Has(p, "policy:read"), {"policy", "roles"})

\* The role and the members of the team are read once the policy is there.
PolicyReads(p, dialog) ==
  {"orgPermissions"} \cup When(Has(p, "policy:read"), {"orgPolicy"})
\* The button to revoke waits for the policy, which no endpoint delivers.
PolicyOffers(p, dialog) == {}

(***************************************************************************)
(* Settings and workspaces of an organization                              *)
(***************************************************************************)
SettingsReads(p, dialog) == {"org"}
UpdateOrg ==
  [Invalidates({"accountOrganizations", "instanceOrganizations", "session"})
     EXCEPT !.sets = {"org"}]
DeleteOrg ==
  [ThenGoTo(Invalidates({"accountOrganizations", "session"}), "index")
     EXCEPT !.removes = {"org"}]
GeneralSettings(p) == When(Has(p, "org:write"), {"updateOrg"})
DangerZone(p, dialog) == When(dialog /\ Has(p, "org:delete"), {"deleteOrg"})

RuntimeReads(p) == When(Has(p, "org:read"), {"orgRuntimeSettings"})
UpdateRuntime == [Invalidates({}) EXCEPT !.sets = {"orgRuntimeSettings"}]
ClearHistory == Invalidates({})
ClearFavorites == Invalidates({})
RuntimeForm(p) ==
  When(Has(p, "org:read") /\ Has(p, "org:write"), {"updateRuntime"})
DataControls(p, dialog) ==
  When(dialog /\ Has(p, "org:read") /\ Has(p, "org:write"),
       {"clearHistory", "clearFavorites"})

WorkspacesReads(p, dialog) == {"orgWorkspaces"}
CreateWorkspace == ThenGoTo(Invalidates({"orgWorkspaces"}), "workspace")
WorkspacesOffers(p, dialog) == When(dialog /\ Has(p, "ws:create"), {"createWorkspace"})

(***************************************************************************)
(* All of them                                                             *)
(***************************************************************************)
OrgPageNames ==
  {"teams", "team", "users", "user", "roles", "role", "policies", "policy",
   "settings", "workspaces"}

OrgReads(p, dialog) ==
  [teams |-> TeamsReads(p, dialog), team |-> TeamReads(p, dialog),
   users |-> UsersReads(p, dialog), user |-> UserReads(p, dialog),
   roles |-> RolesReads(p, dialog), role |-> RoleReads(p, dialog),
   policies |-> PoliciesReads(p, dialog), policy |-> PolicyReads(p, dialog),
   settings |-> SettingsReads(p, dialog) \cup RuntimeReads(p),
   workspaces |-> WorkspacesReads(p, dialog)]

OrgOffers(p, dialog) ==
  [teams |-> TeamsOffers(p, dialog),
   team |-> TeamEditor(p, dialog) \cup TeamMembership(p, dialog),
   users |-> UsersOffers(p, dialog) \cup PendingInvitations(p),
   user |-> MemberRole(p) \cup UserTeams(p, dialog),
   roles |-> RolesOffers(p, dialog) \cup RoleRow(p), role |-> RoleOffers(p, dialog),
   policies |-> PoliciesOffers(p, dialog) \cup PolicyRow(p),
   policy |-> PolicyOffers(p, dialog),
   settings |-> GeneralSettings(p) \cup DangerZone(p, dialog)
                  \cup RuntimeForm(p) \cup DataControls(p, dialog),
   workspaces |-> WorkspacesOffers(p, dialog)]

\* The rows a list leads to are there when the list is.
OrgLinks(p) ==
  [teams |-> TeamsLinks(p), team |-> TeamsLinks(p) \ {"team"},
   users |-> UsersLinks(p), user |-> UsersLinks(p) \ {"user"},
   roles |-> RolesLinks(p), role |-> RolesLinks(p) \ {"role"},
   policies |-> PoliciesLinks(p), policy |-> PoliciesLinks(p) \ {"policy"},
   settings |-> {}, workspaces |-> {}]

OrgCalls ==
  [createTeam |-> CreateTeam, addTeamMember |-> AddTeamMember,
   removeTeamMember |-> RemoveTeamMember, updateTeam |-> UpdateTeam,
   addTeam |-> AddTeam, removeTeam |-> RemoveTeam,
   inviteUser |-> InviteUser, resendInvitation |-> ResendInvitation,
   revokeInvitation |-> RevokeInvitation, updateMemberRole |-> UpdateMemberRole,
   createRole |-> CreateRole, deleteRole |-> DeleteRole, updateRole |-> UpdateRole,
   deleteThisRole |-> DeleteThisRole, createPolicy |-> CreatePolicy,
   revokePolicy |-> RevokePolicy, updateOrg |-> UpdateOrg, deleteOrg |-> DeleteOrg,
   updateRuntime |-> UpdateRuntime, clearHistory |-> ClearHistory,
   clearFavorites |-> ClearFavorites, createWorkspace |-> CreateWorkspace]
=============================================================================
