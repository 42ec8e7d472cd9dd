---------------------------- MODULE EditorLayout ----------------------------
(***************************************************************************)
(* The editor panes of one workspace in one window: a tree of splits whose *)
(* leaves are groups, each an ordered list of tabs with one of them        *)
(* active. A tab may be shown by several groups; it is open as long as one *)
(* shows it. Beside the user, another window opens and closes consoles.    *)
(*                                                                         *)
(* A group has a number, and a new one takes a number nothing refers to.   *)
(* The tree is kept as the set of its splits, each with the groups below   *)
(* it, and the order of the groups; EditorTree has it as the nested nodes  *)
(* of the source. Sizes of panes and the ids of splits are left out. The   *)
(* dialog is modal, and a drag occupies the pointer.                       *)
(***************************************************************************)
EXTENDS Naturals, FiniteSetsExt, EditorTabs

CONSTANT MaxGroups     \* bound: groups at a time

ASSUME MaxGroupsAssumption == MaxGroups \in Nat \ {0}

VARIABLES splits,      \* the splits of the tree: what they run along, their groups
          order        \* <<g, h>>: group g is to the left of group h, or above it

vars == <<tabs, splits, order, panes, focus, drag, losable, asking>>

NoPane == [tab |-> NoTab, group |-> 0]

(***************************************************************************)
(* What a group shows.                                                     *)
(***************************************************************************)

\* createGroup
Pane(ts) == [tabs |-> ts, active |-> IF ts = <<>> THEN NoTab ELSE Last(ts)]

Holds(x, t) == t \in Held(x)
Holders(P, t) == {g \in DOMAIN P : Holds(P[g], t)}

\* addTab: no effect in a group that holds the tab already.
AddTab(P, g, t) ==
  IF Holds(P[g], t) THEN P
  ELSE [P EXCEPT ![g] = [tabs |-> Append(@.tabs, t), active |-> t]]

\* As if only the group that takes a tab in turned to it.
SetActiveNowhere(P, t) == P
\* setActive, in every group that holds the tab.
SetActive(P, t) ==
  [g \in DOMAIN P |-> IF Holds(P[g], t) THEN [P[g] EXCEPT !.active = t] ELSE P[g]]

\* indexOf, and filter, in a group that holds t, which is once (TreeIsSound).
Index(ts, t) == CHOOSE i \in DOMAIN ts : ts[i] = t
Without(ts, t) == RemoveAt(ts, Index(ts, t))

\* A group without t; the tab after it, or else before it, becomes active.
Drop(x, t) ==
  LET i == Index(x.tabs, t)
      rest == Without(x.tabs, t)
  IN IF ~Holds(x, t) THEN x
     ELSE [tabs |-> rest,
           active |-> IF x.active # t THEN x.active
                      ELSE IF rest = <<>> THEN NoTab
                      ELSE rest[IF i <= Len(rest) THEN i ELSE i - 1]]

\* A group after the tabs of T have been closed in it, from left to right.
Closed(x, T) ==
  LET after[i \in 0 .. Len(x.tabs)] ==
        IF i = 0 THEN x
        ELSE IF x.tabs[i] \in T THEN Drop(after[i - 1], x.tabs[i]) ELSE after[i - 1]
  IN after[Len(x.tabs)]

\* moveTabBetweenGroups: out of one group, into the other before or after a
\* tab of it; an instance the target group had is merged with it.
TakeOut(x, t) ==
  LET rest == Without(x.tabs, t)
  IN IF ~Holds(x, t) THEN x
     ELSE [tabs |-> rest,
           active |-> IF x.active # t THEN x.active
                      ELSE IF rest = <<>> THEN NoTab ELSE Head(rest)]
PutIn(x, t, target, after) ==
  LET rest == IF Holds(x, t) THEN Without(x.tabs, t) ELSE x.tabs
      at == IF target \notin ToSet(rest) THEN Len(rest) + 1
            ELSE IF after THEN Index(rest, target) + 1 ELSE Index(rest, target)
  IN [tabs |-> InsertAt(rest, at, t), active |-> t]
Moved(from, t, to, target, after) ==
  LET out == [g \in Live |->
                IF g = from THEN TakeOut(panes[g], t) ELSE panes[g]]
  IN [out EXCEPT ![to] = PutIn(@, t, target, after)]

(***************************************************************************)
(* The tree.                                                               *)
(***************************************************************************)

Split(dir, G) == [dir |-> dir, groups |-> G]

\* firstGroup, in the order R of the groups G.
FirstGroup(G, R) == CHOOSE g \in G : \A h \in G : <<h, g>> \notin R

\* As if a split left with one child stayed.
ForksAtOne(s, G) == s.groups \cap G # {}
\* At least two children of a split have groups of G.
Parts == {s.groups : s \in splits} \cup {{g} : g \in Live}
Forks(s, G) ==
  \A part \in Parts :
    part \subseteq s.groups /\ part # s.groups => ~(s.groups \cap G \subseteq part)

\* normalize: empty groups go (one stays), splits of one child are unwrapped.
Remaining(P) ==
  LET full == {g \in DOMAIN P : P[g].tabs # <<>>}
  IN IF full = {} /\ DOMAIN P # {} THEN {FirstGroup(DOMAIN P, order)} ELSE full
Normalized(G) == {Split(s.dir, s.groups \cap G) : s \in {r \in splits : Forks(r, G)}}

\* The tree and the panes after tabs have left some of them.
Tidied(P) ==
  /\ panes' = [g \in Remaining(P) |-> P[g]]
  /\ splits' = Normalized(Remaining(P))
  /\ order' = order \cap (Remaining(P) \X Remaining(P))

\* removeTab, removeTabFromGroup
RemoveTab(t) == Tidied([g \in Live |-> Drop(panes[g], t)])
RemoveTabFromGroup(g, t) ==
  Tidied([h \in Live |-> IF h = g THEN Drop(panes[h], t) ELSE panes[h]])

\* directionToSplit
Orientation(side) == IF side \in {"left", "right"} THEN "row" ELSE "column"
Before(side) == side \in {"left", "up"}

\* splitGroup: the new group goes beside group g, as a sibling where the
\* parent runs the same way and in a split of its own elsewhere.
Below(s, g) == g \in s.groups
ParentRuns(g, dir) ==
  \E s \in splits : /\ s.dir = dir /\ Below(s, g)
                    /\ \A r \in splits : Below(r, g) => s.groups \subseteq r.groups
SplitGroup(g, side, new) ==
  {IF Below(s, g) THEN Split(s.dir, s.groups \cup {new}) ELSE s : s \in splits}
    \cup IF ParentRuns(g, Orientation(side)) THEN {}
         ELSE {Split(Orientation(side), {g, new})}
Beside(g, side, new) ==
  order \cup {<<h, new>> : h \in {k \in Live : <<k, g>> \in order}}
        \cup {<<new, h>> : h \in {k \in Live : <<g, k>> \in order}}
        \cup {IF Before(side) THEN <<new, g>> ELSE <<g, new>>}

\* placeTabAtEdge: beside all groups, as a sibling of the root's children if
\* the root is a row.
RowAtRoot == Split("row", Live) \in splits
PlaceTabAtEdge(new) ==
  (IF RowAtRoot THEN splits \ {Split("row", Live)} ELSE splits)
    \cup {Split("row", Live \cup {new})}
Edge(side, new) ==
  order \cup IF side = "right" THEN Live \X {new} ELSE {new} \X Live

(***************************************************************************)
(* The store's tab actions.                                                *)
(***************************************************************************)

Init ==
  /\ tabs = {} /\ panes = <<>> /\ splits = {} /\ order = {} /\ focus = 0
  /\ drag = NoPane /\ losable = {} /\ asking = NoPane

Groups == 1 .. MaxGroups
FreshGroups == Groups \ (Live \cup {focus, drag.group, asking.group})
FreshGroup == CHOOSE g \in FreshGroups : \A h \in FreshGroups : g <= h

\* ensureWorkspaceLayout: the layout, created on demand with one empty group,
\* and the focused group or else the first.
EnsuredPanes ==
  IF Live = {} THEN [g \in {FreshGroup} |-> Pane(<<>>)] ELSE panes
EnsuredGroup ==
  IF Live = {} THEN FreshGroup
  ELSE IF focus \in Live THEN focus ELSE FirstGroup(Live, order)

\* openTab, and openConsole with a tab that is new.
OpenTab(t) ==
  /\ tabs' = tabs \cup {t}
  /\ panes' = SetActive(AddTab(EnsuredPanes, EnsuredGroup, t), t)
  /\ focus' = EnsuredGroup
  /\ UNCHANGED <<splits, order, drag, losable, asking>>

\* A new group with one tab, which takes the focus.
NewPane(t) ==
  /\ FreshGroups # {}
  /\ panes' = [g \in Live \cup {FreshGroup} |->
                 IF g = FreshGroup THEN Pane(<<t>>) ELSE panes[g]]
  /\ focus' = FreshGroup

OpenTabToSide(t) ==
  /\ \E g \in Live : panes[g].tabs # <<>>
  /\ tabs' = tabs \cup {t}
  /\ NewPane(t)
  /\ splits' = PlaceTabAtEdge(FreshGroup)
  /\ order' = Edge("right", FreshGroup)
  /\ UNCHANGED <<drag, losable, asking>>

\* ensureTab: another window has opened a console.
EnsureTab(t) ==
  /\ t \notin tabs
  /\ tabs' = tabs \cup {t}
  /\ panes' = AddTab(EnsuredPanes, EnsuredGroup, t)
  /\ focus' = IF focus # 0 THEN focus ELSE EnsuredGroup
  /\ UNCHANGED <<splits, order, drag, losable, asking>>

\* As if the first group took the focus.
FocusFirst == focus' = FirstGroup(Live', order')
\* The focused group if it is still there, or else the first.
FocusAfter ==
  focus' = IF focus \in Live' THEN focus ELSE FirstGroup(Live', order')

\* closeTab: another window has closed the console, or it was saved as a file.
CloseTab(t) ==
  /\ t \in tabs
  /\ tabs' = tabs \ {t}
  /\ RemoveTab(t)
  /\ FocusAfter
  /\ losable' = losable \ {t}
  /\ UNCHANGED <<drag, asking>>

\* As if the tab were released with its first pane.
ClosedInstanceReleases(g, t) ==
  /\ RemoveTabFromGroup(g, t)
  /\ FocusAfter
  /\ tabs' = tabs \ {t}
  /\ losable' = losable \ {t}
  /\ UNCHANGED <<drag>>
\* closeTabInstance: the tab is released when no other pane shows it.
ClosedInstance(g, t) ==
  /\ RemoveTabFromGroup(g, t)
  /\ FocusAfter
  /\ tabs' = IF Holders(panes', t) = {} THEN tabs \ {t} ELSE tabs
  /\ losable' = losable \cap tabs'
  /\ UNCHANGED <<drag>>

\* As if the last pane counted as one of several.
NeedsConfirmationNever(t) == t \in losable /\ Cardinality(Holders(panes, t)) > 1
\* requiresCloseConfirmation: a running query, unsaved changes or console
\* content, in the last pane of the tab.
NeedsConfirmation(t) == t \in losable /\ Cardinality(Holders(panes, t)) <= 1

\* handleCloseRequest of one group's tab bar.
RequestClose(g, t) ==
  /\ Shows(g, t)
  /\ \/ /\ NeedsConfirmation(t)
        /\ asking' = [tab |-> t, group |-> g]
        /\ UNCHANGED <<tabs, splits, order, panes, focus, drag, losable>>
     \/ /\ ~NeedsConfirmation(t)
        /\ ClosedInstance(g, t)
        /\ UNCHANGED asking

\* tabsToClose, in the menu of tab t; "others" and "right" are disabled when
\* there is nothing to close.
TabsToClose(scope, ts, t) ==
  IF scope = "right" THEN {ts[i] : i \in Index(ts, t) + 1 .. Len(ts)}
  ELSE IF scope = "all" THEN ToSet(ts) ELSE ToSet(ts) \ {t}
Scopes(g) == {TabsToClose(scope, panes[g].tabs, t) :
                scope \in {"others", "right", "all"}, t \in Held(panes[g])} \ {{}}

\* handleCloseMany: the tabs are closed from left to right; those that need a
\* confirmation stay, and the last of them is asked about.
LastOf(ts, T) ==
  CHOOSE u \in T : \A v \in T : Index(ts, v) <= Index(ts, u)
CloseMany(g, toClose) ==
  /\ LET kept == {u \in toClose : NeedsConfirmation(u)}
     IN /\ Tidied([panes EXCEPT ![g] = Closed(@, toClose \ kept)])
        /\ asking' = IF kept = {} THEN asking
                     ELSE [tab |-> LastOf(panes[g].tabs, kept), group |-> g]
  /\ FocusAfter
  /\ tabs' = {u \in tabs : Holders(panes', u) # {}}
  /\ losable' = losable \cap tabs'
  /\ UNCHANGED <<drag>>

\* The dialog shows as long as its tab is open and its group on screen; when
\* another window closes the tab, the request to close it stays behind.
DialogOpen ==
  asking # NoPane /\ asking.tab \in tabs /\ asking.group \in Live
\* Close anyway.
ConfirmClose ==
  /\ DialogOpen
  /\ ClosedInstance(asking.group, asking.tab)
  /\ asking' = NoPane
DismissClose ==
  /\ DialogOpen
  /\ asking' = NoPane
  /\ UNCHANGED <<tabs, splits, order, panes, focus, drag, losable>>

\* setActiveInGroup
SetActiveInGroup(g, t) ==
  /\ Shows(g, t)
  /\ panes' = [panes EXCEPT ![g].active = t]
  /\ focus' = g
  /\ UNCHANGED <<tabs, splits, order, losable, asking>>
SetActiveTab(g, t) == SetActiveInGroup(g, t) /\ UNCHANGED drag

FocusGroup(g) ==
  /\ g \in Live /\ g # focus
  /\ focus' = g
  /\ UNCHANGED <<tabs, splits, order, panes, drag, losable, asking>>

SplitActiveTab(g, t, side) ==
  /\ Shows(g, t)
  /\ NewPane(t)
  /\ splits' = SplitGroup(g, side, FreshGroup)
  /\ order' = Beside(g, side, FreshGroup)
  /\ UNCHANGED <<tabs, drag, losable, asking>>

(***************************************************************************)
(* Dragging a tab: it activates the tab and remembers where it came from;  *)
(* every group it passes over takes it in at once.                         *)
(***************************************************************************)

DragStart(g, t) ==
  /\ SetActiveInGroup(g, t)
  /\ drag' = [tab |-> t, group |-> g]

\* moveTab, over a tab of group g (onDragOverReorder), or over the free part of
\* its bar (handleBarDragOver), which stands for after its last tab.
DragOver(g, target, after) ==
  /\ drag # NoPane /\ drag.tab \in tabs
  /\ Shows(g, target)
  /\ ~(drag.tab = target /\ drag.group = g)
  /\ Tidied(Moved(drag.group, drag.tab, g, target, after))
  /\ panes' # panes
  /\ focus' = g
  /\ UNCHANGED <<tabs, drag, losable, asking>>

\* The edge drop zones duplicate the tab (splitToEdge).
DropAtEdge(side) ==
  /\ drag # NoPane
  /\ Holders(panes, drag.tab) # {}
  /\ NewPane(drag.tab)
  /\ splits' = PlaceTabAtEdge(FreshGroup)
  /\ order' = Edge(side, FreshGroup)
  /\ UNCHANGED <<tabs, drag, losable, asking>>

DragEnd ==
  /\ drag # NoPane
  /\ drag' = NoPane
  /\ UNCHANGED <<tabs, splits, order, panes, focus, losable, asking>>

\* Something to lose comes and goes: edits, saves, queries.
Work(t) ==
  /\ t \in tabs
  /\ losable' = IF t \in losable THEN losable \ {t} ELSE losable \cup {t}
  /\ UNCHANGED <<tabs, splits, order, panes, focus, drag, asking>>

\* The menus of the tabs.
TabMenu(g, t) ==
  \/ RequestClose(g, t)
  \/ \E side \in {"right", "down"} : SplitActiveTab(g, t, side)
CloseMenu(g) == \E toClose \in Scopes(g) : CloseMany(g, toClose)

TabItem(g, t) == TabMenu(g, t) \/ SetActiveTab(g, t) \/ DragStart(g, t)

PointerStep ==
  \/ \E t \in Tab : OpenTab(t) \/ OpenTabToSide(t)
  \/ \E g \in Groups, t \in tabs : TabItem(g, t)
  \/ \E g \in Live : FocusGroup(g) \/ CloseMenu(g)

DragStep ==
  \/ \E g \in Groups, t \in tabs, after \in BOOLEAN : DragOver(g, t, after)
  \/ \E side \in {"left", "right"} : DropAtEdge(side)
  \/ DragEnd

UserStep ==
  \/ ~DialogOpen /\ drag = NoPane /\ PointerStep
  \/ DragStep
  \/ ConfirmClose \/ DismissClose

Next ==
  \/ UserStep
  \/ \E t \in Tab : Work(t) \/ EnsureTab(t) \/ CloseTab(t)

Spec == Init /\ [][Next]_vars

(***************************************************************************)
(* Properties.                                                             *)
(***************************************************************************)

\* What is named exists: the focus is a pane or nothing, and what could be lost is
\* kept of open tabs only.
TypeOK ==
  /\ tabs \subseteq Tab
  /\ focus \in Groups \cup {0}
  /\ drag.tab \in Tab \cup {NoTab} /\ asking.tab \in Tab \cup {NoTab}
  /\ losable \subseteq tabs

\* The splits S are those of a tree over the groups G: each has two groups at
\* least, two of them lie one below the other or apart, and one is the root.
Nested(S, G) ==
  /\ \A s \in S : /\ s.dir \in {"row", "column"} /\ s.groups \subseteq G
                  /\ \E g, h \in s.groups : g # h
  /\ \A r, s \in S :
       \/ r = s
       \/ r.groups # s.groups /\ (r.groups \subseteq s.groups \/ s.groups \subseteq r.groups)
       \/ r.groups \cap s.groups = {}
  /\ (\E g, h \in G : g # h) => \E s \in S : s.groups = G

\* R is an order of G in which what is not in a split lies before or after all
\* of its groups.
Total(R, G) ==
  /\ R \subseteq G \X G
  /\ \A g, h \in G : <<g, h>> \in R <=> (g # h /\ <<h, g>> \notin R)
  /\ \A g, h, k \in G : <<g, h>> \in R /\ <<h, k>> \in R => <<g, k>> \in R
Ordered(S, R, G) ==
  /\ Total(R, G)
  /\ \A s \in S : \A g, h \in s.groups : \A k \in G \ s.groups :
       <<g, k>> \in R => <<h, k>> \in R

\* The tree stays a tree of panes, through every order of splits, moves and
\* closes: no empty pane beside others, no split of one, no pane twice, no tab
\* twice in a pane, an active tab in every pane that has tabs, and the focus on
\* a pane that exists (normalize, splitGroup, placeTabAtEdge,
\* moveTabBetweenGroups).
TreeIsSound ==
  /\ Nested(splits, Live) /\ Ordered(splits, order, Live)
  /\ IF Live = {} THEN focus = 0 ELSE focus \in Live
  /\ \A g \in Live :
       /\ IsInjective(panes[g].tabs)
       /\ IF panes[g].tabs = <<>>
          THEN panes[g].active = NoTab /\ Live = {g}
          ELSE Holds(panes[g], panes[g].active)

\* What can be lost is only closed by another window, or by the user who has
\* been asked.
LossNeedsConsent ==
  [][\A t \in losable \ tabs' :
       UserStep => DialogOpen /\ asking.tab = t]_vars

\* The panes without the tree and the order of tabs (see EditorPanes).
Panes == INSTANCE EditorPanes WITH GroupId <- Groups, NoGroup <- 0

\* The tree keeps the promises about panes: every operation on it, with its
\* clean-up, does to the panes what the operation is for and nothing else.
ImplementsPanes == Panes!Spec
=============================================================================
