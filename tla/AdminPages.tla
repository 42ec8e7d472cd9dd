------------------------------ MODULE AdminPages ------------------------------
(***************************************************************************)
(* The pages outside an organization, in the form of OrgPages: the landing *)
(* page, signing in, the account's own settings, and the administration of *)
(* the instance.                                                           *)
(***************************************************************************)
EXTENDS OrgPages

(***************************************************************************)
(* Landing page. The organizations are read apart from the session when    *)
(* personal spaces are on or there is not exactly one of them; otherwise   *)
(* the page leads straight into the IDE.                                   *)
(***************************************************************************)
LandingReads == {"setupStatus", "session", "accountOrganizations"}
\* The settings link of a card, from the permissions in that organization.
OrganizationChoiceCard(p) == {"ide"} \cup When(Has(p, "org:read"), {"settings"})
AdministrationChoiceCard(isInstanceAdmin) ==
  When(isInstanceAdmin, {"administrators"})

\* buildUserMenuItems: the same menu everywhere; the editor's also leads to
\* the organization, and the landing page does not lead to itself.
UserMenu(isInstanceAdmin, canAccessOrgSettings) ==
  {"account", "index"} \cup When(isInstanceAdmin, {"administrators"})
    \cup When(canAccessOrgSettings, {"workspaces"})
LandingUserMenu(isInstanceAdmin) == UserMenu(isInstanceAdmin, FALSE) \ {"index"}
AppShellUserMenu(isInstanceAdmin) == UserMenu(isInstanceAdmin, FALSE)
\* p is what the editor has of the permissions in the organization.
IdeTopBarControls(isInstanceAdmin, p) == UserMenu(isInstanceAdmin, Has(p, "org:read"))

(***************************************************************************)
(* The account                                                             *)
(***************************************************************************)
SettingsLayoutReads == {"setupStatus", "session"}
AccountReads == {"session"}
UpdateProfile == Invalidates({"session"})
UpdatePassword == Invalidates({})
AccountOffers == {"updateProfile", "updatePassword"}
MyOrganizationsReads == {"accountOrganizations"}

(***************************************************************************)
(* Administration of the instance                                          *)
(***************************************************************************)
AdministrationLayoutReads == {"setupStatus", "session"}
AdministrationMenu == {"index", "administrators", "accounts", "organizations", "instance"}

AdministratorsReads == {"instanceAdmins"}
AddAdmin == Invalidates({"instanceAdmins"})
RemoveAdmin == Invalidates({"instanceAdmins", "session"})
AdministratorsOffers(dialog) == {"removeAdmin"} \cup When(dialog, {"addAdmin"})

AccountsReads == {"instanceAccounts"}
CreateAccount == Invalidates({"instanceAccounts"})
AccountsOffers(dialog) == When(dialog, {"createAccount"})

OrganizationsReads == {"instanceOrganizations"}
CreateOrg == Invalidates({"instanceOrganizations", "session"})
OrganizationsOffers(dialog) == When(dialog, {"createOrg"})

InstanceReads == {"instanceSettings", "instanceConfiguration"}
UpdateInstance == Invalidates({"instanceSettings", "session"})
InstanceOffers == {"updateInstance"}

(***************************************************************************)
(* All of them                                                             *)
(***************************************************************************)
AccountPageNames == {"index", "account", "myOrganizations"}
AdministrationPageNames == {"administrators", "accounts", "organizations", "instance"}

AdminReads ==
  [index |-> LandingReads, account |-> AccountReads,
   myOrganizations |-> MyOrganizationsReads, administrators |-> AdministratorsReads,
   accounts |-> AccountsReads, organizations |-> OrganizationsReads,
   instance |-> InstanceReads]

AdminOffers(dialog) ==
  [index |-> {}, account |-> AccountOffers, myOrganizations |-> {},
   administrators |-> AdministratorsOffers(dialog), accounts |-> AccountsOffers(dialog),
   organizations |-> OrganizationsOffers(dialog), instance |-> InstanceOffers]

AdminCalls ==
  [updateProfile |-> UpdateProfile, updatePassword |-> UpdatePassword,
   addAdmin |-> AddAdmin, removeAdmin |-> RemoveAdmin,
   createAccount |-> CreateAccount, createOrg |-> CreateOrg,
   updateInstance |-> UpdateInstance]
=============================================================================
