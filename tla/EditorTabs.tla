----------------------------- MODULE EditorTabs -----------------------------
(***************************************************************************)
(* Tabs and the panes that show them: what EditorLayout keeps in a tree    *)
(* and EditorPanes without one, and what is to hold of both.               *)
(***************************************************************************)
EXTENDS SequencesExt

CONSTANTS Tab,
          NoTab

VARIABLES tabs,        \* open tabs
          panes,       \* panes[g]: the tabs of group g and the active one
          focus,       \* activeGroupId: the focused group
          drag,        \* draggingTab: the tab being dragged and its group
          losable,     \* tabs whose content or query would be lost if closed
          asking       \* pendingCloseTabId: the group that asks, and the tab

tabVars == <<tabs, panes, focus, drag, losable, asking>>

Live == DOMAIN panes
Held(x) == ToSet(x.tabs)
Shows(g, t) == g \in Live /\ t \in Held(panes[g])
ShownIn(P, t) == \E g \in DOMAIN P : t \in Held(P[g])

\* activeTabId: the tab the user looks at. The focus is always on a pane, so that
\* the fallback to the first one is left out.
ActiveTab == IF focus \in Live THEN panes[focus].active ELSE NoTab

\* A tab is open exactly when a pane shows it: no move, split or close loses
\* the last pane of an open tab or leaves a pane with a tab that is gone.
OpenIffShown == tabs = {t \in Tab : ShownIn(panes, t)}

\* Closing tabs beside the one the user looks at, in its pane or in others,
\* by this user or in another window, leaves the user looking at it
\* in the same pane.
ViewSurvivesClose ==
  [][tabs' # tabs /\ tabs' \subseteq tabs
       /\ focus \in DOMAIN panes' /\ ActiveTab \in Held(panes'[focus])
       => focus' = focus /\ ActiveTab' = ActiveTab]_tabVars
=============================================================================
