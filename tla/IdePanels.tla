------------------------------ MODULE IdePanels ------------------------------
(***************************************************************************)
(* The panels of the editor, in the form of OrgPages: one page per panel   *)
(* or view, each with the editor's frame around it. The editor has the     *)
(* workspace's number where the pages of the console have its text from    *)
(* the address, and query keys compare the two as different: the editor's  *)
(* lists of environments and connections are entries of their own          *)
(* (ideEnvironments, ideConnections) although they hold the same rows.     *)
(* History and favorites are kept by the server (mode "backend").          *)
(***************************************************************************)
EXTENDS WorkspacePages

RunnablePermissions == {"conn:execute", "conn:dql", "conn:dml", "conn:ddl"}
\* A connection is listed, and can be connected to, for whom it is runnable.
HasConnection(p) == p \cap RunnablePermissions # {}

(***************************************************************************)
(* The frame                                                               *)
(***************************************************************************)
IdePageReads == {"setupStatus", "session"}
WorkspaceIdeReads == {"orgWorkspaces"}
ActivityBarReads == {"orgRuntimeSettings"}
SessionSyncReads == {"ideConnections", "ideSessions"}
ToolbarReads == {"ideEnvironments", "ideConnections"}
IdeFrameReads ==
  IdePageReads \cup WorkspaceIdeReads \cup ActivityBarReads
    \cup SessionSyncReads \cup ToolbarReads

\* Saving as a new file needs no more than the editor; exporting and
\* recording what was run need a connection.
SaveAs == Invalidates({"privateBrowser"})
SubmitExport == Invalidates({})
RecordHistory == Invalidates({"workspaceHistory"})
CreateFavorite == Invalidates({"favorites"})
ToolbarOffers(p, dialog) ==
  When(dialog, {"createFavorite"})
    \cup When(dialog /\ HasConnection(p), {"submitExport"})
    \cup When(HasConnection(p), {"recordHistory"})

(***************************************************************************)
(* Explorer: environments, connections, and the schema of a connection     *)
(***************************************************************************)
DatabaseReads(p, dialog) ==
  When(dialog /\ Has(p, "conn:update"), {"org", "connectionDsn"})
IdeCreateEnvironment == Invalidates({"orgEnvironments", "ideEnvironments"})
IdeRenameEnvironment == Invalidates({"ideEnvironments"})
IdeDeleteEnvironment == Invalidates({"ideEnvironments"})
DatabasePanelOffers(p, dialog) ==
  When(dialog /\ Has(p, "env:create"), {"ideCreateEnvironment"})
EnvironmentMenu(p, dialog) ==
  When(dialog /\ Has(p, "env:write"), {"ideRenameEnvironment"})
    \cup When(dialog /\ Has(p, "env:delete"), {"ideDeleteEnvironment"})

CreateConnection == Invalidates({"ideConnections"})
IdeDeleteConnection == Invalidates({"ideConnections"})
ConnectionForm(p, dialog) ==
  When(dialog /\ Has(p, "conn:create"), {"createConnection", "testConnection"})
ConnectionMenu(p, dialog) ==
  EditConnectionDialog(p, dialog)
    \cup When(dialog /\ Has(p, "conn:delete"), {"ideDeleteConnection"})

Connect == Invalidates({"ideSessions"})
Disconnect == Invalidates({"ideSessions"})
ConnectionActions(p) == When(HasConnection(p), {"connect", "disconnect"})

InvalidateConnectionSchemaQueries ==
  Invalidates({"directory", "schemaObject", "relationships"})
RefreshSchema == InvalidateConnectionSchemaQueries
SchemaEdit == InvalidateConnectionSchemaQueries
SchemaTreeReads(p) == When(HasConnection(p), {"directory", "schemaSpec"})
SchemaObjectReads(p, dialog) == When(dialog /\ HasConnection(p), {"schemaObject"})
CanMutate(p) == p \cap {"conn:execute", "conn:ddl"} # {}
SchemaTreeOffers(p, dialog) ==
  When(HasConnection(p), {"refreshSchema"})
    \cup When(dialog /\ HasConnection(p) /\ CanMutate(p), {"schemaEdit"})
StatementReads(p, dialog) == When(dialog /\ HasConnection(p), {"generateStatement"})

ObjectDetailReads(p) == When(HasConnection(p), {"schemaObject", "schemaSpec"})
ObjectPreviewReads(p) == When(HasConnection(p), {"preview", "previewCount"})
DiagramReads(p) ==
  When(HasConnection(p), {"schemaSpec", "directory", "relationships", "schemaObject"})
RefreshOffers(p) == When(HasConnection(p), {"refreshSchema", "connect"})

(***************************************************************************)
(* Files, search, history, favorites and exports                           *)
(***************************************************************************)
FilesReads == {"privateBrowser", "sharedBrowser"}
CreateItem == Invalidates({"privateBrowser"})
DeleteFile == Invalidates({"privateBrowser"})
RenameFile == Invalidates({"privateBrowser", "privateRecent"})
DuplicateFile == Invalidates({"privateBrowser", "privateRecent"})
FilesOffers(dialog) ==
  {"renameFile", "deleteFile"} \cup When(dialog, {"createItem", "duplicateFile"})
SaveAsOffers(dialog) == When(dialog, {"saveAs"})

\* The field of the search holds enough to search for.
SearchReads(dialog) == When(dialog, {"privateSearch", "sharedSearch"})

HistoryReads == {"workspaceHistory", "favorites", "ideConnections", "ideEnvironments"}
DeleteHistory == Invalidates({"workspaceHistory"})
HistoryOffers == {"deleteHistory", "deleteFavorite"}
FavoritesReads == {"favorites"}
UpdateFavorite == Invalidates({"favorites"})
DeleteFavorite == Invalidates({"favorites"})
FavoritesOffers(dialog) == {"deleteFavorite"} \cup When(dialog, {"updateFavorite"})

ExportsReads == {"jobs"}
CancelExport == Invalidates({"jobs"})
RetryExport == Invalidates({"jobs"})
ExportsOffers(p) ==
  {"cancelExport"} \cup When(HasConnection(p), {"retryExport"})

(***************************************************************************)
(* All of them                                                             *)
(***************************************************************************)
IdePanelNames ==
  {"ideDatabase", "ideFiles", "ideSearch", "ideHistory", "ideFavorites",
   "ideExports", "ideObject", "ideDiagram"}

IdeReads(p, dialog) ==
  [ideDatabase |-> DatabaseReads(p, dialog) \cup SchemaTreeReads(p)
                     \cup SchemaObjectReads(p, dialog) \cup StatementReads(p, dialog),
   ideFiles |-> FilesReads, ideSearch |-> SearchReads(dialog),
   ideHistory |-> HistoryReads, ideFavorites |-> FavoritesReads,
   ideExports |-> ExportsReads,
   ideObject |-> ObjectDetailReads(p) \cup ObjectPreviewReads(p),
   ideDiagram |-> DiagramReads(p)]

IdeOffers(p, dialog) ==
  [ideDatabase |-> DatabasePanelOffers(p, dialog) \cup EnvironmentMenu(p, dialog)
                     \cup ConnectionForm(p, dialog) \cup ConnectionMenu(p, dialog)
                     \cup ConnectionActions(p) \cup SchemaTreeOffers(p, dialog),
   ideFiles |-> FilesOffers(dialog) \cup SaveAsOffers(dialog), ideSearch |-> {},
   ideHistory |-> HistoryOffers, ideFavorites |-> FavoritesOffers(dialog),
   ideExports |-> ExportsOffers(p),
   ideObject |-> RefreshOffers(p), ideDiagram |-> RefreshOffers(p)]

IdeCalls ==
  [saveAs |-> SaveAs, submitExport |-> SubmitExport,
   recordHistory |-> RecordHistory, createFavorite |-> CreateFavorite,
   ideCreateEnvironment |-> IdeCreateEnvironment,
   ideRenameEnvironment |-> IdeRenameEnvironment,
   ideDeleteEnvironment |-> IdeDeleteEnvironment,
   createConnection |-> CreateConnection, testConnection |-> Invalidates({}),
   ideDeleteConnection |-> IdeDeleteConnection,
   connect |-> Connect, disconnect |-> Disconnect,
   refreshSchema |-> RefreshSchema, schemaEdit |-> SchemaEdit,
   createItem |-> CreateItem, deleteFile |-> DeleteFile,
   renameFile |-> RenameFile, duplicateFile |-> DuplicateFile,
   deleteHistory |-> DeleteHistory, updateFavorite |-> UpdateFavorite,
   deleteFavorite |-> DeleteFavorite, cancelExport |-> CancelExport,
   retryExport |-> RetryExport]
=============================================================================
