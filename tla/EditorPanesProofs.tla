------------------------- MODULE EditorPanesProofs -------------------------
(***************************************************************************)
(* What the panes of EditorPanes keep, for any tabs and any panes.         *)
(***************************************************************************)
EXTENDS EditorPanes, SequenceTheorems, TLAPS

TypeInv == TypeOK /\ PanesSound /\ OpenIffShown

\* What a pane holds.
LEMMA HeldFacts ==
  /\ \A x \in PaneRow : Held(x) \subseteq Tab
  /\ \A x \in PaneRow, t \in Tab :
       LET y == [tabs |-> Append(x.tabs, t), active |-> t]
       IN y \in PaneRow /\ Held(y) = Held(x) \cup {t}
  /\ \A t \in Tab :
       LET y == [tabs |-> <<t>>, active |-> t]
       IN y \in PaneRow /\ Held(y) = {t}
  /\ \A x \in PaneRow, t \in Tab :
       LET y == [x EXCEPT !.active = t]
       IN y \in PaneRow /\ Held(y) = Held(x) /\ y.active = t
<1>1. \A s : ToSet(s) = {s[i] : i \in DOMAIN s}
  BY DEF ToSet
<1>2. ASSUME NEW x \in PaneRow PROVE Held(x) \subseteq Tab
  <2>1. x.tabs \in Seq(Tab)
    BY DEF PaneRow
  <2>2. \A i \in DOMAIN x.tabs : x.tabs[i] \in Tab
    BY <2>1, ElementOfSeq, LenProperties
  <2> QED BY <1>1, <2>2 DEF Held
<1>3. ASSUME NEW x \in PaneRow, NEW t \in Tab
      PROVE  /\ [tabs |-> Append(x.tabs, t), active |-> t] \in PaneRow
             /\ Held([tabs |-> Append(x.tabs, t), active |-> t]) = Held(x) \cup {t}
  <2> DEFINE s == x.tabs
             a == Append(s, t)
  <2>1. s \in Seq(Tab) /\ a \in Seq(Tab)
    BY DEF PaneRow
  <2>2. /\ DOMAIN s = 1 .. Len(s) /\ Len(s) \in Nat
        /\ DOMAIN a = 1 .. Len(s) + 1 /\ a[Len(s) + 1] = t
        /\ \A i \in 1 .. Len(s) : a[i] = s[i]
    BY <2>1, AppendProperties, LenProperties
  <2> HIDE DEF a
  <2>3. ToSet(a) \subseteq ToSet(s) \cup {t}
    <3> SUFFICES ASSUME NEW i \in 1 .. Len(s) + 1 PROVE a[i] \in ToSet(s) \cup {t}
      BY <1>1, <2>2
    <3>1. i \in 1 .. Len(s) \/ i = Len(s) + 1
      BY <2>2
    <3> QED BY <1>1, <2>2, <3>1
  <2>4. \A i \in DOMAIN s : s[i] \in ToSet(a)
    <3> SUFFICES ASSUME NEW i \in 1 .. Len(s) PROVE s[i] \in ToSet(a)
      BY <2>2
    <3>1. i \in DOMAIN a /\ a[i] = s[i]
      BY <2>2
    <3> QED BY <1>1, <3>1
  <2>5. t \in ToSet(a)
    <3>1. Len(s) + 1 \in DOMAIN a
      BY <2>2
    <3> QED BY <1>1, <2>2, <3>1
  <2>6. ToSet(a) = ToSet(s) \cup {t}
    BY <1>1, <2>3, <2>4, <2>5
  <2>7. [tabs |-> a, active |-> t] \in PaneRow
    BY <2>1 DEF PaneRow
  <2> QED BY <2>6, <2>7 DEF Held, a
<1>4. ASSUME NEW t \in Tab
      PROVE  /\ [tabs |-> <<t>>, active |-> t] \in PaneRow
             /\ Held([tabs |-> <<t>>, active |-> t]) = {t}
  <2>1. [tabs |-> <<t>>, active |-> t] \in PaneRow
    BY DEF PaneRow
  <2>2. ToSet(<<t>>) = {t}
    BY <1>1
  <2> QED BY <2>1, <2>2 DEF Held
<1>5. ASSUME NEW x \in PaneRow, NEW t \in Tab
      PROVE  /\ [x EXCEPT !.active = t] \in PaneRow
             /\ Held([x EXCEPT !.active = t]) = Held(x)
             /\ [x EXCEPT !.active = t].active = t
  BY DEF PaneRow, Held
<1> QED BY <1>2, <1>3, <1>4, <1>5

LEMMA HeldTabs ==
  ASSUME TypeInv
  PROVE  \A h \in Live : Held(panes[h]) \subseteq Tab
<1>1. \A h \in Live : panes[h] \in PaneRow
  BY DEF TypeInv, TypeOK, Rows, Live
<1> QED BY <1>1, HeldFacts

\* The order of tabs is nothing the other properties depend on.
LEMMA Reordering ==
  ASSUME NEW P, NEW Q, Alike(P, Q), Sound(P)
  PROVE  /\ Rows(Q) /\ Sound(Q) /\ DOMAIN Q = DOMAIN P
         /\ \A g \in DOMAIN P : Held(Q[g]) = Held(P[g])
         /\ \A t : ShownIn(Q, t) <=> ShownIn(P, t)
BY DEF Alike, Sound, ShownIn

\* A tab more in a pane, old or new, beside panes that show tabs.
LEMMA Putting ==
  ASSUME NEW P, Rows(P), Sound(P), NEW g \in GroupId, NEW t \in Tab,
         \A h \in DOMAIN P \ {g} : Held(P[h]) # {}
  PROVE  /\ Rows(With(P, g, t)) /\ Sound(With(P, g, t))
         /\ DOMAIN With(P, g, t) = DOMAIN P \cup {g}
         /\ t \in Held(With(P, g, t)[g])
         /\ \A u \in Tab : ShownIn(With(P, g, t), u) <=> ShownIn(P, u) \/ u = t
<1> DEFINE Q == With(P, g, t)
<1>1. /\ DOMAIN Q = DOMAIN P \cup {g}
      /\ \A h \in DOMAIN P \ {g} : Q[h] = P[h]
      /\ Q[g] = [tabs |-> IF g \in DOMAIN P THEN Append(P[g].tabs, t) ELSE <<t>>,
                 active |-> t]
  BY DEF With
<1>2. \A h \in DOMAIN P : P[h] \in PaneRow
  BY DEF Rows
<1>3. /\ Q[g] \in PaneRow /\ Q[g].active = t
      /\ Held(Q[g]) = IF g \in DOMAIN P THEN Held(P[g]) \cup {t} ELSE {t}
  <2>1. CASE g \in DOMAIN P
    BY <1>1, <1>2, <2>1, HeldFacts
  <2>2. CASE g \notin DOMAIN P
    BY <1>1, <2>2, HeldFacts
  <2> QED BY <2>1, <2>2
<1>4. Rows(Q)
  <2>1. \A h \in DOMAIN Q : Q[h] \in PaneRow
    BY <1>1, <1>2, <1>3
  <2>2. Q = [h \in DOMAIN Q |-> Q[h]]
    BY DEF With
  <2>3. Q \in [DOMAIN Q -> PaneRow]
    BY <2>1, <2>2
  <2>4. DOMAIN Q \subseteq GroupId
    BY <1>1 DEF Rows
  <2> QED BY <2>3, <2>4 DEF Rows
<1> HIDE DEF Q
<1>5. t \in Held(Q[g])
  BY <1>3
<1>6. Sound(Q)
  BY <1>1, <1>3, <1>5 DEF Sound
<1>7. \A u \in Tab : ShownIn(Q, u) <=> ShownIn(P, u) \/ u = t
  BY <1>1, <1>3 DEF ShownIn
<1> QED BY <1>1, <1>4, <1>5, <1>6, <1>7 DEF Q

\* Where there are tabs, every pane shows one.
LEMMA NoneEmpty ==
  ASSUME TypeInv, NEW g, tabs # {} \/ Live \subseteq {g}
  PROVE  \A h \in Live \ {g} : Held(panes[h]) # {}
<1> SUFFICES ASSUME NEW h \in Live, h # g, Held(panes[h]) = {} PROVE FALSE
  OBVIOUS
<1>1. Live = {h}
  BY DEF TypeInv, PanesSound, Sound, Live
<1>2. tabs # {}
  BY <1>1
<1>3. PICK u \in Tab : ShownIn(panes, u)
  BY <1>2 DEF TypeInv, OpenIffShown
<1> QED BY <1>1, <1>3 DEF ShownIn, Live

LEMMA Adding ==
  ASSUME TypeInv, NEW g \in GroupId, NEW t \in Tab, tabs # {} \/ Live \subseteq {g},
         NEW Q, Alike(With(panes, g, t), Q)
  PROVE  /\ Rows(Q) /\ Sound(Q) /\ DOMAIN Q = Live \cup {g}
         /\ \A u \in Tab : ShownIn(Q, u) <=> ShownIn(panes, u) \/ u = t
<1>1. Rows(panes) /\ Sound(panes)
  BY DEF TypeInv, TypeOK, PanesSound
<1>2. \A h \in DOMAIN panes \ {g} : Held(panes[h]) # {}
  BY NoneEmpty DEF Live
<1>3. /\ Sound(With(panes, g, t)) /\ DOMAIN With(panes, g, t) = Live \cup {g}
      /\ \A u \in Tab : ShownIn(With(panes, g, t), u) <=> ShownIn(panes, u) \/ u = t
  BY <1>1, <1>2, Putting DEF Live
<1> QED BY <1>3, Reordering

\* Panes that lose tabs stay panes, with an active tab wherever a tab is left;
\* what a pane is not to lose is shown as before.
LEMMA Shrinking ==
  ASSUME NEW P, Rows(P), Sound(P), NEW lost, NEW Q, Shrinks(P, lost, Q)
  PROVE  /\ Rows(Q) /\ Sound(Q)
         /\ DOMAIN Q \subseteq DOMAIN P /\ DOMAIN Q # {}
         /\ \A g \in DOMAIN Q : Held(Q[g]) = Held(P[g]) \ lost[g]
         /\ \A g \in DOMAIN P \ DOMAIN Q : Held(P[g]) \subseteq lost[g]
<1> DEFINE left == {g \in DOMAIN P : ~(Held(P[g]) \subseteq lost[g])}
<1>1. /\ IF left = {} THEN \E g \in DOMAIN P : DOMAIN Q = {g}
         ELSE DOMAIN Q = left
      /\ \A g \in DOMAIN Q : /\ Held(Q[g]) = Held(P[g]) \ lost[g]
                             /\ ActiveAfter(P[g], lost[g], Q[g])
      /\ Rows(Q)
  BY DEF Shrinks
<1>2. DOMAIN Q \subseteq DOMAIN P /\ DOMAIN Q # {}
  BY <1>1
<1>3. \A g \in DOMAIN P \ DOMAIN Q : Held(P[g]) \subseteq lost[g]
  BY <1>1
<1>4. Rows(Q)
  BY <1>1
<1>5. Sound(Q)
  <2> SUFFICES ASSUME NEW g \in DOMAIN Q
               PROVE  IF Held(Q[g]) = {} THEN Q[g].active = NoTab /\ DOMAIN Q = {g}
                      ELSE Q[g].active \in Held(Q[g])
    BY DEF Sound
  <2>1. Held(Q[g]) = Held(P[g]) \ lost[g] /\ ActiveAfter(P[g], lost[g], Q[g])
    BY <1>1
  <2>2. IF Held(P[g]) = {} THEN P[g].active = NoTab /\ DOMAIN P = {g}
        ELSE P[g].active \in Held(P[g])
    BY <1>2 DEF Sound
  <2>3. CASE Held(Q[g]) = {}
    <3>1. DOMAIN Q = {g}
      BY <1>1, <2>1, <2>3
    <3>2. Q[g].active = NoTab
      BY <2>1, <2>2, <2>3 DEF ActiveAfter
    <3> QED BY <2>3, <3>1, <3>2
  <2>4. CASE Held(Q[g]) # {}
    BY <2>1, <2>2, <2>4 DEF ActiveAfter
  <2> QED BY <2>3, <2>4
<1> QED BY <1>1, <1>2, <1>3, <1>4, <1>5

\* Where a new tab goes, in an editor without tabs, is its only pane.
LEMMA Landing ==
  ASSUME TypeInv, NEW g, Target(g)
  PROVE  /\ g \in GroupId /\ (tabs # {} \/ Live \subseteq {g})
         /\ (Live # {} => g = focus)
<1>1. Rows(panes) /\ Sound(panes) /\ OpenIffShown /\ tabs \subseteq Tab
  BY DEF TypeInv, TypeOK, PanesSound
<1>2. IF Live = {} THEN focus = NoGroup ELSE focus \in Live
  BY DEF TypeInv, PanesSound
<1>3. CASE Live = {}
  BY <1>3 DEF Target, Fresh
<1>4. CASE Live # {}
  <2>1. g = focus /\ g \in Live
    BY <1>2, <1>4 DEF Target
  <2>2. g \in GroupId
    BY <1>1, <2>1 DEF Rows, Live
  <2>3. ASSUME tabs = {} PROVE Held(panes[g]) = {}
    <3>1. Held(panes[g]) \subseteq Tab
      BY <2>1, HeldTabs
    <3> QED BY <1>1, <2>1, <2>3, <3>1 DEF OpenIffShown, ShownIn, Live
  <2>4. ASSUME tabs = {} PROVE Live = {g}
    BY <1>1, <2>1, <2>3, <2>4 DEF Sound, Live
  <2> QED BY <2>1, <2>2, <2>4
<1> QED BY <1>3, <1>4

\* What remains to be shown of a step, once the panes after it are known.
LEMMA After ==
  ASSUME Rows(panes'), Sound(panes'), Live' # {}, focus' \in Live',
         tabs' \subseteq Tab, losable' \subseteq tabs',
         drag' \in Place, asking' \in Place,
         \A t \in Tab : t \in tabs' <=> ShownIn(panes, t)'
  PROVE  TypeInv'
<1>1. focus' \in GroupId
  BY DEF Rows, Live
<1>2. TypeOK'
  BY <1>1 DEF TypeOK
<1>3. PanesSound'
  BY DEF PanesSound
<1>4. OpenIffShown'
  BY DEF OpenIffShown
<1> QED BY <1>2, <1>3, <1>4 DEF TypeInv

LEMMA InitInv == Init => TypeInv
<1> SUFFICES ASSUME Init PROVE TypeInv
  OBVIOUS
<1>1. Live = {}
  BY DEF Init, Live
<1>2. TypeOK
  <2>1. Rows(panes)
    BY DEF Init, Rows
  <2> QED BY <2>1 DEF Init, TypeOK, Place, Nowhere
<1>3. PanesSound
  BY <1>1 DEF Init, PanesSound, Sound, Live
<1>4. OpenIffShown
  BY <1>1 DEF Init, OpenIffShown, ShownIn, Live
<1> QED BY <1>2, <1>3, <1>4 DEF TypeInv

LEMMA OpenTabKeeps ==
  ASSUME TypeInv, NEW t \in Tab, OpenTab(t)
  PROVE  TypeInv'
<1> DEFINE f == focus'
           P == Turned(t)
<1>1. Target(f)
  BY DEF OpenTab
<1>2. f \in GroupId /\ (tabs # {} \/ Live \subseteq {f})
  BY <1>1, Landing
<1>3. Rows(panes) /\ Sound(panes) /\ OpenIffShown
  BY DEF TypeInv, TypeOK, PanesSound
<1>4. /\ DOMAIN P = Live
      /\ \A h \in Live : /\ P[h] \in PaneRow /\ Held(P[h]) = Held(panes[h])
                         /\ P[h].active = panes[h].active
                            \/ (P[h].active = t /\ t \in Held(P[h]))
  <2>1. DOMAIN P = Live
    BY DEF Turned
  <2>2. ASSUME NEW h \in Live
        PROVE  /\ P[h] \in PaneRow /\ Held(P[h]) = Held(panes[h])
               /\ P[h].active = panes[h].active
                  \/ (P[h].active = t /\ t \in Held(P[h]))
    <3>1. panes[h] \in PaneRow
      BY <1>3 DEF Rows, Live
    <3>2. P[h] = IF t \in Held(panes[h]) THEN [panes[h] EXCEPT !.active = t]
                 ELSE panes[h]
      BY DEF Turned, Shows
    <3> HIDE DEF P
    <3>3. CASE t \in Held(panes[h])
      BY <3>1, <3>2, <3>3, HeldFacts
    <3>4. CASE t \notin Held(panes[h])
      BY <3>1, <3>2, <3>4
    <3> QED BY <3>3, <3>4
  <2> QED BY <2>1, <2>2
<1>5. Rows(P)
  <2>1. P = [h \in DOMAIN P |-> P[h]]
    BY DEF Turned
  <2> HIDE DEF P
  <2> QED BY <1>3, <1>4, <2>1 DEF Rows, Live
<1>6. \A h \in DOMAIN P \ {f} : Held(P[h]) # {}
  BY <1>2, <1>4, NoneEmpty
<1>7. Alike(With(P, f, t), panes')
  BY DEF OpenTab
<1> HIDE DEF P, f
<1>8. Sound(P)
  BY <1>3, <1>4 DEF Sound, Live
<1>9. /\ Sound(With(P, f, t)) /\ DOMAIN With(P, f, t) = Live \cup {f}
      /\ \A u \in Tab : ShownIn(With(P, f, t), u) <=> ShownIn(P, u) \/ u = t
  BY <1>2, <1>4, <1>5, <1>6, <1>8, Putting
<1>10. /\ Rows(panes') /\ Sound(panes') /\ DOMAIN panes' = Live \cup {f}
       /\ \A u \in Tab : ShownIn(panes', u) <=> ShownIn(P, u) \/ u = t
  BY <1>7, <1>9, Reordering
<1>11. \A u \in Tab : u \in tabs' <=> ShownIn(panes, u)'
  <2>1. \A u : ShownIn(P, u) <=> ShownIn(panes, u)
    BY <1>4 DEF ShownIn, Live
  <2>2. \A u \in Tab : u \in tabs <=> ShownIn(panes, u)
    BY <1>3 DEF OpenIffShown
  <2> QED BY <1>10, <2>1, <2>2 DEF OpenTab
<1>12. Live' # {} /\ focus' \in Live'
  BY <1>10 DEF Live, f
<1>13. /\ tabs' \subseteq Tab /\ losable' \subseteq tabs'
       /\ drag' \in Place /\ asking' \in Place
  BY DEF OpenTab, TypeInv, TypeOK
<1> QED BY <1>10, <1>11, <1>12, <1>13, After

LEMMA EnsureTabKeeps ==
  ASSUME TypeInv, NEW t \in Tab, EnsureTab(t)
  PROVE  TypeInv'
<1>1. PICK g \in GroupId : /\ focus' = IF focus # NoGroup THEN focus ELSE g
                           /\ Target(g)
                           /\ Alike(With(panes, g, t), panes')
  BY DEF EnsureTab
<1>2. (tabs # {} \/ Live \subseteq {g}) /\ (Live # {} => g = focus)
  BY <1>1, Landing
<1>3. /\ Rows(panes') /\ Sound(panes') /\ DOMAIN panes' = Live \cup {g}
      /\ \A u \in Tab : ShownIn(panes', u) <=> ShownIn(panes, u) \/ u = t
  <2>1. Alike(With(panes, g, t), panes')
    BY <1>1
  <2> QED BY <1>2, <2>1, Adding
<1>4. Live' # {} /\ focus' \in Live'
  <2>1. IF Live = {} THEN focus = NoGroup ELSE focus \in Live
    BY DEF TypeInv, PanesSound
  <2>2. focus' \in Live \cup {g}
    BY <1>1, <2>1
  <2> QED BY <1>3, <2>2 DEF Live
<1>5. \A u \in Tab : u \in tabs' <=> ShownIn(panes, u)'
  BY <1>3 DEF TypeInv, OpenIffShown, EnsureTab
<1>6. /\ tabs' \subseteq Tab /\ losable' \subseteq tabs'
      /\ drag' \in Place /\ asking' \in Place
  BY DEF EnsureTab, TypeInv, TypeOK
<1> QED BY <1>3, <1>4, <1>5, <1>6, After

LEMMA NewPaneKeeps ==
  ASSUME TypeInv, NEW t \in Tab, NewPane(t), tabs' = tabs \cup {t},
         tabs # {}
  PROVE  TypeInv'
<1> DEFINE f == focus'
<1>1. f \in GroupId /\ Alike(With(panes, f, t), panes')
  BY DEF NewPane, Fresh
<1>2. /\ Rows(panes') /\ Sound(panes') /\ DOMAIN panes' = Live \cup {f}
      /\ \A u \in Tab : ShownIn(panes', u) <=> ShownIn(panes, u) \/ u = t
  <2> HIDE DEF f
  <2> QED BY <1>1, Adding
<1>3. Live' # {} /\ focus' \in Live'
  BY <1>2 DEF Live
<1>4. \A u \in Tab : u \in tabs' <=> ShownIn(panes, u)'
  BY <1>2 DEF TypeInv, OpenIffShown
<1>5. /\ tabs' \subseteq Tab /\ losable' \subseteq tabs'
      /\ drag' \in Place /\ asking' \in Place
  BY DEF NewPane, TypeInv, TypeOK
<1> QED BY <1>2, <1>3, <1>4, <1>5, After

LEMMA OpenTabToSideKeeps ==
  ASSUME TypeInv, NEW t \in Tab, OpenTabToSide(t)
  PROVE  TypeInv'
<1>1. PICK g \in Live : Held(panes[g]) # {}
  BY DEF OpenTabToSide
<1>2. Held(panes[g]) \subseteq Tab
  BY HeldTabs
<1>3. PICK u \in Tab : u \in Held(panes[g])
  BY <1>1, <1>2
<1>4. tabs # {}
  BY <1>3 DEF TypeInv, OpenIffShown, ShownIn, Live
<1> QED BY <1>4, NewPaneKeeps DEF OpenTabToSide

LEMMA SplitKeeps ==
  ASSUME TypeInv, NEW t \in Tab, SplitActiveTab(t)
  PROVE  TypeInv'
<1>1. t \in tabs
  BY DEF TypeInv, OpenIffShown, SplitActiveTab
<1>2. tabs' = tabs \cup {t}
  BY <1>1 DEF SplitActiveTab
<1> QED BY <1>1, <1>2, NewPaneKeeps DEF SplitActiveTab

\* A tab that every pane loses is closed; the others keep what they had.
LEMMA CloseTabKeeps ==
  ASSUME TypeInv, NEW t \in Tab, CloseTab(t)
  PROVE  TypeInv'
<1> DEFINE lost == [g \in Live |-> {t}]
<1>1. Rows(panes) /\ Sound(panes) /\ OpenIffShown /\ tabs \subseteq Tab
  BY DEF TypeInv, TypeOK, PanesSound
<1>2. Shrinks(panes, lost, panes')
  BY DEF CloseTab
<1>3. /\ Rows(panes') /\ Sound(panes')
      /\ DOMAIN panes' \subseteq Live /\ DOMAIN panes' # {}
      /\ \A g \in DOMAIN panes' : Held(panes'[g]) = Held(panes[g]) \ lost[g]
      /\ \A g \in Live \ DOMAIN panes' : Held(panes[g]) \subseteq lost[g]
  <2> DEFINE Q == panes'
  <2>1. Shrinks(panes, lost, Q)
    BY <1>2
  <2>2. /\ Rows(Q) /\ Sound(Q)
        /\ DOMAIN Q \subseteq DOMAIN panes /\ DOMAIN Q # {}
        /\ \A g \in DOMAIN Q : Held(Q[g]) = Held(panes[g]) \ lost[g]
        /\ \A g \in DOMAIN panes \ DOMAIN Q : Held(panes[g]) \subseteq lost[g]
    <3> HIDE DEF Q, lost
    <3> QED BY <1>1, <2>1, Shrinking
  <2> QED BY <2>2 DEF Live
<1>4. Live' # {} /\ focus' \in Live'
  BY <1>3 DEF CloseTab, Refocus, Live
<1>5. \A g \in Live : lost[g] = {t}
  OBVIOUS
<1>6. \A u \in Tab : u \in tabs' <=> ShownIn(panes, u)'
  <2> SUFFICES ASSUME NEW u \in Tab
               PROVE  u \in tabs' <=> \E g \in DOMAIN panes' : u \in Held(panes'[g])
    BY DEF ShownIn
  <2>1. u \in tabs <=> \E g \in Live : u \in Held(panes[g])
    BY <1>1 DEF OpenIffShown, ShownIn, Live
  <2>2. (\E g \in DOMAIN panes' : u \in Held(panes'[g]))
          <=> u # t /\ \E g \in Live : u \in Held(panes[g])
    BY <1>3, <1>5
  <2> QED BY <2>1, <2>2 DEF CloseTab
<1>7. /\ tabs' \subseteq Tab /\ losable' \subseteq tabs'
      /\ drag' \in Place /\ asking' \in Place
  BY DEF CloseTab, TypeInv, TypeOK
<1> QED BY <1>3, <1>4, <1>6, <1>7, After

\* A pane that closes tabs; those shown elsewhere stay open.
LEMMA ClosedInKeeps ==
  ASSUME TypeInv, NEW g, NEW T, ClosedIn(g, T), asking' \in Place
  PROVE  TypeInv'
<1> DEFINE lost == [h \in Live |-> IF h = g THEN T ELSE {}]
<1>1. Rows(panes) /\ Sound(panes) /\ OpenIffShown /\ tabs \subseteq Tab
  BY DEF TypeInv, TypeOK, PanesSound
<1>2. Shrinks(panes, lost, panes')
  BY DEF ClosedIn
<1>3. /\ Rows(panes') /\ Sound(panes')
      /\ DOMAIN panes' \subseteq Live /\ DOMAIN panes' # {}
      /\ \A h \in DOMAIN panes' : Held(panes'[h]) = Held(panes[h]) \ lost[h]
      /\ \A h \in Live \ DOMAIN panes' : Held(panes[h]) \subseteq lost[h]
  <2> DEFINE Q == panes'
  <2>1. Shrinks(panes, lost, Q)
    BY <1>2
  <2>2. /\ Rows(Q) /\ Sound(Q)
        /\ DOMAIN Q \subseteq DOMAIN panes /\ DOMAIN Q # {}
        /\ \A h \in DOMAIN Q : Held(Q[h]) = Held(panes[h]) \ lost[h]
        /\ \A h \in DOMAIN panes \ DOMAIN Q : Held(panes[h]) \subseteq lost[h]
    <3> HIDE DEF Q, lost
    <3> QED BY <1>1, <2>1, Shrinking
  <2> QED BY <2>2 DEF Live
<1>4. Live' # {} /\ focus' \in Live'
  BY <1>3 DEF ClosedIn, Refocus, Live
<1>5. \A h \in Live : lost[h] \subseteq T
  OBVIOUS
<1>6. \A u \in Tab : u \in tabs' <=> ShownIn(panes, u)'
  <2> SUFFICES ASSUME NEW u \in Tab
               PROVE  u \in tabs' <=> \E h \in DOMAIN panes' : u \in Held(panes'[h])
    BY DEF ShownIn
  <2>1. u \in tabs <=> \E h \in Live : u \in Held(panes[h])
    BY <1>1 DEF OpenIffShown, ShownIn, Live
  <2>2. u \in tabs'
          <=> u \in tabs /\ (u \in T => \E h \in DOMAIN panes' : u \in Held(panes'[h]))
    BY DEF ClosedIn, ShownIn
  <2>3. (\E h \in DOMAIN panes' : u \in Held(panes'[h])) => u \in tabs
    BY <1>3, <2>1
  <2>4. u \in tabs /\ u \notin T => \E h \in DOMAIN panes' : u \in Held(panes'[h])
    BY <1>3, <1>5, <2>1
  <2> QED BY <2>2, <2>3, <2>4
<1>7. /\ tabs' \subseteq Tab /\ losable' \subseteq tabs'
      /\ drag' \in Place
  BY DEF ClosedIn, TypeInv, TypeOK
<1> QED BY <1>3, <1>4, <1>6, <1>7, After

LEMMA SetActiveKeeps ==
  ASSUME TypeInv, NEW g, NEW t \in Tab, SetActiveTab(g, t)
  PROVE  TypeInv'
<1>1. Rows(panes) /\ Sound(panes) /\ OpenIffShown
  BY DEF TypeInv, TypeOK, PanesSound
<1>2. g \in Live /\ g \in GroupId /\ t \in Held(panes[g])
  BY <1>1 DEF SetActiveTab, Shows, Rows, Live
<1>3. t \in tabs
  BY <1>1, <1>2 DEF OpenIffShown, ShownIn, Live
<1>4. /\ Rows(panes') /\ Sound(panes') /\ DOMAIN panes' = Live
      /\ \A u \in Tab : ShownIn(panes', u) <=> ShownIn(panes, u) \/ u = t
  <2>1. Alike(With(panes, g, t), panes')
    BY DEF SetActiveTab
  <2>2. /\ Rows(panes') /\ Sound(panes') /\ DOMAIN panes' = Live \cup {g}
        /\ \A u \in Tab : ShownIn(panes', u) <=> ShownIn(panes, u) \/ u = t
    BY <1>2, <1>3, <2>1, Adding
  <2> QED BY <1>2, <2>2
<1>5. \A u \in Tab : u \in tabs' <=> ShownIn(panes, u)'
  BY <1>1, <1>3, <1>4 DEF OpenIffShown, SetActiveTab
<1>6. Live' # {} /\ focus' \in Live'
  BY <1>2, <1>4 DEF SetActiveTab, Live
<1>7. [tab |-> t, group |-> g] \in Place
  BY <1>2 DEF Place
<1>8. /\ tabs' \subseteq Tab /\ losable' \subseteq tabs'
      /\ drag' \in Place /\ asking' \in Place
  BY <1>7 DEF SetActiveTab, TypeInv, TypeOK
<1> QED BY <1>4, <1>5, <1>6, <1>8, After

\* The pane a tab is dragged from loses it only to a pane that has taken it in.
LEMMA DragOverKeeps ==
  ASSUME TypeInv, NEW g, DragOver(g)
  PROVE  TypeInv'
<1> DEFINE t == drag.tab
           Q == With(panes, g, t)
           lost == [h \in Live |-> IF h = drag.group /\ h # g THEN {t} ELSE {}]
<1>1. Rows(panes) /\ Sound(panes) /\ OpenIffShown /\ tabs \subseteq Tab
  BY DEF TypeInv, TypeOK, PanesSound
<1>2. /\ t \in Tab /\ t \in tabs /\ g \in Live /\ g \in GroupId
      /\ Shrinks(Q, lost, panes')
  BY <1>1 DEF DragOver, Rows, Live
<1>3. /\ Rows(Q) /\ Sound(Q) /\ DOMAIN Q = Live
      /\ t \in Held(Q[g])
      /\ \A u \in Tab : ShownIn(Q, u) <=> ShownIn(panes, u) \/ u = t
  <2>1. \A h \in DOMAIN panes \ {g} : Held(panes[h]) # {}
    BY <1>2, NoneEmpty DEF Live
  <2> HIDE DEF t
  <2> QED BY <1>1, <1>2, <2>1, Putting DEF Live
<1>5. /\ Rows(panes') /\ Sound(panes')
      /\ DOMAIN panes' \subseteq Live /\ DOMAIN panes' # {}
      /\ \A h \in DOMAIN panes' : Held(panes'[h]) = Held(Q[h]) \ lost[h]
      /\ \A h \in Live \ DOMAIN panes' : Held(Q[h]) \subseteq lost[h]
  <2> DEFINE R == panes'
  <2>1. Shrinks(Q, lost, R)
    BY <1>2
  <2>2. /\ Rows(R) /\ Sound(R)
        /\ DOMAIN R \subseteq DOMAIN Q /\ DOMAIN R # {}
        /\ \A h \in DOMAIN R : Held(R[h]) = Held(Q[h]) \ lost[h]
        /\ \A h \in DOMAIN Q \ DOMAIN R : Held(Q[h]) \subseteq lost[h]
    <3> HIDE DEF R, Q, lost
    <3> QED BY <1>3, <2>1, Shrinking
  <2> QED BY <1>3, <2>2
<1>6. lost[g] = {} /\ \A h \in Live : lost[h] \subseteq {t}
  BY <1>2
<1>7. g \in DOMAIN panes' /\ t \in Held(panes'[g])
  BY <1>2, <1>3, <1>5, <1>6
<1>8. Live' # {} /\ focus' \in Live'
  BY <1>7 DEF DragOver, Live
<1>9. \A u \in Tab : u \in tabs' <=> ShownIn(panes, u)'
  <2> SUFFICES ASSUME NEW u \in Tab PROVE u \in tabs <=> ShownIn(panes', u)
    BY DEF DragOver
  <2>1. u \in tabs <=> ShownIn(Q, u)
    BY <1>1, <1>2, <1>3 DEF OpenIffShown
  <2>2. CASE u = t
    BY <1>2, <1>7, <2>2 DEF ShownIn
  <2>3. CASE u # t
    <3> HIDE DEF Q, lost
    <3> QED BY <1>3, <1>5, <1>6, <2>1, <2>3 DEF ShownIn
  <2> QED BY <2>2, <2>3
<1>10. /\ tabs' \subseteq Tab /\ losable' \subseteq tabs'
       /\ drag' \in Place /\ asking' \in Place
  BY DEF DragOver, TypeInv, TypeOK
<1> QED BY <1>5, <1>8, <1>9, <1>10, After

\* Steps that leave the tabs and the panes alone.
LEMMA OthersKeep ==
  ASSUME TypeInv,
         \/ DismissClose \/ DragEnd \/ (\E g \in GroupId : FocusGroup(g))
         \/ (\E t \in Tab : Work(t)) \/ UNCHANGED tabVars
  PROVE  TypeInv'
<1>1. /\ UNCHANGED <<tabs, panes>>
      /\ losable' \subseteq tabs /\ focus' \in GroupId \cup {NoGroup}
      /\ drag' \in Place /\ asking' \in Place
      /\ focus' = focus \/ focus' \in Live
  BY DEF TypeInv, TypeOK, DismissClose, DragEnd, FocusGroup, Work, tabVars, Place, Nowhere
<1>2. TypeOK'
  BY <1>1 DEF TypeInv, TypeOK, Rows
<1>3. PanesSound'
  BY <1>1 DEF TypeInv, PanesSound, Sound, Live
<1>4. OpenIffShown'
  BY <1>1 DEF TypeInv, OpenIffShown, ShownIn
<1> QED BY <1>2, <1>3, <1>4 DEF TypeInv

LEMMA CloseKeeps ==
  ASSUME TypeInv, NEW g \in Live, NEW T \in SUBSET Held(panes[g]), Close(g, T)
  PROVE  TypeInv'
<1> DEFINE kept == {t \in T : NeedsConfirmation(t)}
<1>1. g \in GroupId /\ T \subseteq Tab
  BY HeldTabs DEF TypeInv, TypeOK, Rows, Live
<1>2. asking' \in Place
  <2>1. CASE kept = {}
    BY <2>1 DEF Close, TypeInv, TypeOK
  <2>2. CASE kept # {}
    <3>1. PICK t \in kept : asking' = [tab |-> t, group |-> g]
      BY <2>2 DEF Close
    <3> QED BY <1>1, <3>1 DEF Place
  <2> QED BY <2>1, <2>2
<1>3. ClosedIn(g, T \ kept)
  BY DEF Close
<1> QED BY <1>2, <1>3, ClosedInKeeps

LEMMA StepKeeps == TypeInv /\ [Next]_tabVars => TypeInv'
<1> SUFFICES ASSUME TypeInv, [Next]_tabVars PROVE TypeInv'
  OBVIOUS
<1>1. CASE DragEnd \/ DismissClose
  BY <1>1, OthersKeep
<1>2. CASE ConfirmClose
  <2>1. asking' \in Place
    BY <1>2 DEF ConfirmClose, Place, Nowhere
  <2> QED BY <1>2, <2>1, ClosedInKeeps DEF ConfirmClose
<1>3. CASE DropAtEdge
  <2>1. drag.tab \in Tab
    <3>1. ShownIn(panes, drag.tab)
      BY <1>3 DEF DropAtEdge, SplitActiveTab
    <3> QED BY <3>1, HeldTabs DEF ShownIn, Live
  <2> QED BY <1>3, <2>1, SplitKeeps DEF DropAtEdge
<1>4. ASSUME NEW g \in GroupId, FocusGroup(g) \/ DragOver(g) PROVE TypeInv'
  BY <1>4, OthersKeep, DragOverKeeps
<1>5. ASSUME NEW g \in GroupId, NEW t \in Tab, SetActiveTab(g, t) PROVE TypeInv'
  BY <1>5, SetActiveKeeps
<1>6. ASSUME NEW t \in Tab, OpenTab(t) \/ OpenTabToSide(t) \/ SplitActiveTab(t)
      PROVE  TypeInv'
  BY <1>6, OpenTabKeeps, OpenTabToSideKeeps, SplitKeeps
<1>7. ASSUME NEW g \in Live, NEW T \in SUBSET Held(panes[g]), Close(g, T)
      PROVE  TypeInv'
  BY <1>7, CloseKeeps
<1>8. ASSUME NEW t \in Tab, EnsureTab(t) \/ CloseTab(t) \/ Work(t) PROVE TypeInv'
  BY <1>8, EnsureTabKeeps, CloseTabKeeps, OthersKeep
<1>9. CASE UNCHANGED tabVars
  BY <1>9, OthersKeep
<1> QED BY <1>1, <1>2, <1>3, <1>4, <1>5, <1>6, <1>7, <1>8, <1>9
        DEF Next, UserStep, OtherStep

LEMMA AlwaysTypeInv == Spec => []TypeInv
<1>1. Init => TypeInv
  BY InitInv
<1>2. TypeInv /\ [Next]_tabVars => TypeInv'
  BY StepKeeps
<1> QED BY <1>1, <1>2, PTL DEF Spec

\* Types, and panes the tree can be built of: none empty beside others, the
\* focus on one that exists.
THEOREM PanesStaySound == Spec => [](TypeOK /\ PanesSound)
<1>1. TypeInv => TypeOK /\ PanesSound
  BY DEF TypeInv
<1> QED BY <1>1, AlwaysTypeInv, PTL

\* A tab is open exactly when some pane shows it: through every order of
\* splits, drags and closes, by the user and by other windows.
THEOREM EveryTabIsShown == Spec => []OpenIffShown
<1>1. TypeInv => OpenIffShown
  BY DEF TypeInv
<1> QED BY <1>1, AlwaysTypeInv, PTL

-----------------------------------------------------------------------------

\* A tab that several panes show outlives a close in one of them.
LEMMA ShownElsewhere ==
  ASSUME TypeInv, NEW g, NEW T, ClosedIn(g, T),
         NEW t \in tabs, ~InOnePane(panes, t)
  PROVE  t \in tabs'
<1> DEFINE lost == [h \in Live |-> IF h = g THEN T ELSE {}]
<1>1. PICK h \in Live : h # g /\ t \in Held(panes[h])
  BY DEF InOnePane, Live
<1>2. lost[h] = {}
  BY <1>1
<1>3. h \in DOMAIN panes' /\ Held(panes'[h]) = Held(panes[h])
  <2>1. Shrinks(panes, lost, panes')
    BY DEF ClosedIn
  <2>2. ~(Held(panes[h]) \subseteq lost[h])
    BY <1>1, <1>2
  <2> HIDE DEF lost
  <2>3. h \in DOMAIN panes'
    BY <1>1, <2>1, <2>2 DEF Shrinks, Live
  <2>4. Held(panes'[h]) = Held(panes[h]) \ lost[h]
    BY <2>1, <2>3 DEF Shrinks
  <2> QED BY <1>2, <2>3, <2>4
<1>4. ShownIn(panes', t)
  BY <1>1, <1>3 DEF ShownIn
<1> QED BY <1>4 DEF ClosedIn

\* What the user closes and could lose is what the dialog has asked about.
LEMMA UserAgrees ==
  ASSUME TypeInv, UserStep, NEW t \in losable, t \notin tabs'
  PROVE  DialogOpen /\ asking.tab = t
<1>1. t \in tabs
  BY DEF TypeInv, TypeOK
<1>2. CASE DragEnd \/ DismissClose \/ DropAtEdge
  BY <1>1, <1>2 DEF DragEnd, DismissClose, DropAtEdge, SplitActiveTab
<1>3. CASE ConfirmClose
  <2>1. DialogOpen /\ ClosedIn(asking.group, {asking.tab})
    BY <1>3 DEF ConfirmClose
  <2>2. t \in {asking.tab}
    BY <1>1, <2>1 DEF ClosedIn
  <2> QED BY <2>1, <2>2
<1>4. CASE \E g \in GroupId : FocusGroup(g) \/ DragOver(g)
  BY <1>1, <1>4 DEF FocusGroup, DragOver
<1>5. CASE \E g \in GroupId, u \in Tab : SetActiveTab(g, u)
  BY <1>1, <1>5 DEF SetActiveTab
<1>6. CASE \E u \in Tab : OpenTab(u) \/ OpenTabToSide(u) \/ SplitActiveTab(u)
  BY <1>1, <1>6 DEF OpenTab, OpenTabToSide, SplitActiveTab
<1>7. ASSUME NEW g \in Live, NEW T \in SUBSET Held(panes[g]), Close(g, T)
      PROVE  FALSE
  <2> DEFINE kept == {u \in T : NeedsConfirmation(u)}
  <2>1. ClosedIn(g, T \ kept)
    BY <1>7 DEF Close
  <2>2. t \in T \ kept
    BY <1>1, <2>1 DEF ClosedIn
  <2>3. ~InOnePane(panes, t)
    BY <2>2 DEF NeedsConfirmation
  <2> QED BY <1>1, <2>1, <2>3, ShownElsewhere
<1> QED BY <1>2, <1>3, <1>4, <1>5, <1>6, <1>7 DEF UserStep

\* Unsaved text and running queries go with a close of the user's only if the
\* dialog asked about that very tab, whatever was closed, dragged or opened
\* between the question and the answer.
THEOREM LossIsAgreed == Spec => LossNeedsConsent
<1> DEFINE Agreed == \A t \in losable \ tabs' :
                       UserStep => DialogOpen /\ asking.tab = t
<1>1. TypeInv /\ [Next]_tabVars => [Agreed]_tabVars
  BY UserAgrees
<1> QED BY <1>1, AlwaysTypeInv, PTL DEF Spec, LossNeedsConsent

-----------------------------------------------------------------------------

\* A pane that loses other tabs than its active one goes on showing that one.
LEMMA ViewStays ==
  ASSUME NEW lost, Shrinks(panes, lost, panes'), Refocus,
         focus \in DOMAIN panes', ActiveTab \in Held(panes'[focus])
  PROVE  focus' = focus /\ ActiveTab' = ActiveTab
<1>1. focus' = focus
  BY DEF Refocus
<1>2. focus \in Live
  BY DEF Shrinks, Live
<1>3. /\ Held(panes'[focus]) = Held(panes[focus]) \ lost[focus]
      /\ ActiveAfter(panes[focus], lost[focus], panes'[focus])
  BY DEF Shrinks
<1>4. panes'[focus].active = panes[focus].active
  BY <1>2, <1>3 DEF ActiveTab, ActiveAfter
<1> QED BY <1>1, <1>2, <1>4 DEF ActiveTab, Live

\* Whatever else closes, the user keeps looking at the same tab in the same
\* pane as long as that pane still shows it.
THEOREM ViewIsKept == Spec => ViewSurvivesClose
<1> DEFINE Kept == /\ tabs' # tabs /\ tabs' \subseteq tabs
                   /\ focus \in DOMAIN panes' /\ ActiveTab \in Held(panes'[focus])
                   => focus' = focus /\ ActiveTab' = ActiveTab
<1>1. [Next]_tabVars => [Kept]_tabVars
  <2> SUFFICES ASSUME Next, tabs' # tabs, tabs' \subseteq tabs,
                      focus \in DOMAIN panes', ActiveTab \in Held(panes'[focus])
               PROVE  focus' = focus /\ ActiveTab' = ActiveTab
    OBVIOUS
  <2>1. CASE DragEnd \/ DismissClose \/ DropAtEdge
    BY <2>1 DEF DragEnd, DismissClose, DropAtEdge, SplitActiveTab
  <2>2. CASE ConfirmClose
    BY <2>2, ViewStays DEF ConfirmClose, ClosedIn
  <2>3. CASE \E g \in GroupId : FocusGroup(g) \/ DragOver(g)
    BY <2>3 DEF FocusGroup, DragOver
  <2>4. CASE \E g \in GroupId, t \in Tab : SetActiveTab(g, t)
    BY <2>4 DEF SetActiveTab
  <2>5. CASE \E t \in Tab : OpenTab(t) \/ OpenTabToSide(t) \/ SplitActiveTab(t)
    BY <2>5 DEF OpenTab, OpenTabToSide, SplitActiveTab
  <2>6. CASE \E g \in Live : \E T \in SUBSET Held(panes[g]) : Close(g, T)
    BY <2>6, ViewStays DEF Close, ClosedIn
  <2>7. CASE \E t \in Tab : EnsureTab(t) \/ CloseTab(t) \/ Work(t)
    BY <2>7, ViewStays DEF EnsureTab, CloseTab, Work
  <2> QED BY <2>1, <2>2, <2>3, <2>4, <2>5, <2>6, <2>7
          DEF Next, UserStep, OtherStep
<1> QED BY <1>1, PTL DEF Spec, ViewSurvivesClose

=============================================================================
