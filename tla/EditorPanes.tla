---------------------------- MODULE EditorPanes ----------------------------
(***************************************************************************)
(* What the editor promises about tabs and panes, without the tree: a pane *)
(* shows a set of tabs, one of them active. Where panes lie, the order of  *)
(* tabs, and which neighbour becomes active when the active tab goes, are  *)
(* left open. EditorLayout implements it.                                  *)
(***************************************************************************)
EXTENDS EditorTabs

CONSTANTS GroupId, NoGroup   \* ids of panes

PaneRow == [tabs : Seq(Tab), active : Tab \cup {NoTab}]
Rows(P) == DOMAIN P \subseteq GroupId /\ P \in [DOMAIN P -> PaneRow]
Place == [tab : Tab \cup {NoTab}, group : GroupId \cup {NoGroup}]
Nowhere == [tab |-> NoTab, group |-> NoGroup]

Fresh == GroupId \ (Live \cup {focus, drag.group, asking.group})

\* Q is P but for the order of tabs in each pane.
Alike(P, Q) ==
  /\ DOMAIN Q = DOMAIN P
  /\ \A g \in DOMAIN P : Held(Q[g]) = Held(P[g]) /\ Q[g].active = P[g].active
  /\ Rows(Q)

\* Without any pane, a first one is made on demand; a tab goes to the focused
\* pane, or else to some pane.
Target(g) ==
  IF Live = {} THEN g \in Fresh
  ELSE IF focus \in Live THEN g = focus ELSE g \in Live

\* Pane g shows t on top; the others are as they were.
With(P, g, t) ==
  [h \in DOMAIN P \cup {g} |->
     IF h # g THEN P[h]
     ELSE [tabs |-> IF g \in DOMAIN P THEN Append(P[g].tabs, t) ELSE <<t>>,
           active |-> t]]

\* P becomes Q when each pane g loses the tabs of lost[g]: a pane keeps its
\* active tab unless it lost it, and panes left empty go, but for one when
\* nothing else is left.
ActiveAfter(x, gone, y) ==
  IF x.active \notin gone THEN y.active = x.active
  ELSE IF Held(y) = {} THEN y.active = NoTab ELSE y.active \in Held(y)
Shrinks(P, lost, Q) ==
  LET left == {g \in DOMAIN P : ~(Held(P[g]) \subseteq lost[g])}
  IN /\ IF left = {} THEN \E g \in DOMAIN P : DOMAIN Q = {g}
        ELSE DOMAIN Q = left
     /\ \A g \in DOMAIN Q : /\ Held(Q[g]) = Held(P[g]) \ lost[g]
                            /\ ActiveAfter(P[g], lost[g], Q[g])
     /\ Rows(Q)

\* The focus stays where it is as long as its pane does.
Refocus == IF focus \in DOMAIN panes' THEN focus' = focus
           ELSE focus' \in DOMAIN panes'

-----------------------------------------------------------------------------

Init ==
  /\ tabs = {} /\ panes = [g \in {} |-> {}] /\ focus = NoGroup
  /\ drag = Nowhere /\ losable = {} /\ asking = Nowhere

\* Every pane that shows t turns to it.
Turned(t) ==
  [h \in Live |-> IF Shows(h, t) THEN [panes[h] EXCEPT !.active = t] ELSE panes[h]]
OpenTab(t) ==
  /\ tabs' = tabs \cup {t}
  /\ UNCHANGED <<drag, losable, asking>>
  /\ Target(focus')
  /\ Alike(With(Turned(t), focus', t), panes')

\* A console that another window has opened.
EnsureTab(t) ==
  /\ t \notin tabs /\ tabs' = tabs \cup {t}
  /\ UNCHANGED <<drag, losable, asking>>
  /\ \E g \in GroupId :
       /\ focus' = IF focus # NoGroup THEN focus ELSE g
       /\ Target(g)
       /\ Alike(With(panes, g, t), panes')

\* A new pane for t: a split, an edge, or a tab opened to the side.
NewPane(t) ==
  /\ focus' # focus /\ UNCHANGED <<drag, losable, asking>>
  /\ focus' \in Fresh
  /\ Alike(With(panes, focus', t), panes')

OpenTabToSide(t) ==
  /\ tabs' = tabs \cup {t}
  /\ \E g \in Live : Held(panes[g]) # {}
  /\ NewPane(t)

SplitActiveTab(t) ==
  /\ tabs' = tabs
  /\ NewPane(t)
  /\ ShownIn(panes, t)

DropAtEdge == drag # Nowhere /\ SplitActiveTab(drag.tab)

\* Another window has closed the tab.
CloseTab(t) ==
  /\ t \in tabs /\ tabs' = tabs \ {t}
  /\ losable' = losable \ {t}
  /\ UNCHANGED <<drag, asking>>
  /\ Shrinks(panes, [g \in Live |-> {t}], panes')
  /\ Refocus

\* Pane g closes the tabs of T; those no other pane shows are released.
ClosedIn(g, T) ==
  /\ losable' = losable \cap tabs'
  /\ UNCHANGED drag
  /\ tabs' = {t \in tabs : t \in T => ShownIn(panes', t)}
  /\ Shrinks(panes, [h \in Live |-> IF h = g THEN T ELSE {}], panes')
  /\ Refocus

\* The last pane of something that would be lost.
InOnePane(P, t) ==
  \A g, h \in DOMAIN P : t \in Held(P[g]) /\ t \in Held(P[h]) => g = h
NeedsConfirmation(t) == t \in losable /\ InOnePane(panes, t)

\* Closing some tabs of pane g: what needs a confirmation stays, and one such
\* tab is asked about.
Close(g, T) ==
  LET kept == {t \in T : NeedsConfirmation(t)}
  IN /\ tabs' \subseteq tabs /\ UNCHANGED drag
     /\ losable' = losable \cap tabs'
     /\ IF kept = {} THEN asking' = asking
        ELSE \E t \in kept : asking' = [tab |-> t, group |-> g]
     /\ ClosedIn(g, T \ kept)

DialogOpen == asking # Nowhere /\ asking.tab \in tabs /\ asking.group \in Live

ConfirmClose ==
  /\ asking' = Nowhere
  /\ DialogOpen
  /\ ClosedIn(asking.group, {asking.tab})

DismissClose ==
  /\ asking' = Nowhere
  /\ DialogOpen
  /\ UNCHANGED <<tabs, panes, focus, drag, losable>>

\* A drag begins with the tab being activated.
SetActiveTab(g, t) ==
  /\ focus' = g
  /\ UNCHANGED <<tabs, losable, asking>>
  /\ drag' \in {drag, [tab |-> t, group |-> g]}
  /\ Shows(g, t)
  /\ Alike(With(panes, g, t), panes')

FocusGroup(g) ==
  /\ focus' = g
  /\ UNCHANGED <<tabs, drag, losable, asking>>
  /\ g \in Live /\ UNCHANGED panes

\* A dragged tab is taken in by every pane it passes over.
DragOver(g) ==
  /\ drag # Nowhere /\ drag.tab \in tabs
  /\ focus' = g
  /\ UNCHANGED <<tabs, drag, losable, asking>>
  /\ g \in Live
  /\ Shrinks(With(panes, g, drag.tab),
             [h \in Live |-> IF h = drag.group /\ h # g THEN {drag.tab} ELSE {}],
             panes')

DragEnd ==
  /\ drag' = Nowhere
  /\ UNCHANGED <<tabs, focus, losable, asking>>
  /\ UNCHANGED panes

Work(t) ==
  /\ t \in tabs
  /\ losable' = IF t \in losable THEN losable \ {t} ELSE losable \cup {t}
  /\ UNCHANGED <<tabs, focus, drag, asking>>
  /\ UNCHANGED panes

UserStep ==
  \/ DragEnd \/ ConfirmClose \/ DismissClose \/ DropAtEdge
  \/ \E g \in GroupId : FocusGroup(g) \/ DragOver(g)
  \/ \E g \in GroupId, t \in Tab : SetActiveTab(g, t)
  \/ \E t \in Tab : OpenTab(t) \/ OpenTabToSide(t) \/ SplitActiveTab(t)
  \/ \E g \in Live : \E T \in SUBSET Held(panes[g]) : Close(g, T)

OtherStep == \E t \in Tab : Work(t) \/ EnsureTab(t) \/ CloseTab(t)

Next == OtherStep \/ UserStep

Spec == Init /\ [][Next]_tabVars

-----------------------------------------------------------------------------

\* The types.
TypeOK ==
  /\ tabs \subseteq Tab
  /\ Rows(panes)
  /\ focus \in GroupId \cup {NoGroup}
  /\ drag \in Place /\ asking \in Place
  /\ losable \subseteq tabs

\* No empty pane beside others, an active tab in every pane that has tabs, and
\* the focus on a pane that exists.
Sound(P) ==
  \A g \in DOMAIN P : IF Held(P[g]) = {}
                      THEN P[g].active = NoTab /\ DOMAIN P = {g}
                      ELSE P[g].active \in Held(P[g])
PanesSound ==
  /\ Sound(panes)
  /\ IF Live = {} THEN focus = NoGroup ELSE focus \in Live

\* What can be lost is only closed by another window, or by the user who has
\* been asked.
LossNeedsConsent ==
  [][\A t \in losable \ tabs' :
       UserStep => DialogOpen /\ asking.tab = t]_tabVars
=============================================================================
