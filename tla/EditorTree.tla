----------------------------- MODULE EditorTree -----------------------------
(***************************************************************************)
(* The tree of EditorLayout as the nested nodes of the source, and the     *)
(* recursive functions the source has on them. Every one of them does to   *)
(* the nodes what its operator of EditorLayout says of splits and order.   *)
(***************************************************************************)
EXTENDS EditorLayout

Leaf(g) == [type |-> "group", id |-> g]
Node(dir, kids) == [type |-> "split", dir |-> dir, kids |-> kids]
IsLeaf(n, G) == n.type = "group" /\ n.id \in G

\* allGroups: the groups from left to right; firstGroup is the first of them.
RECURSIVE AllGroups(_)
AllGroups(n) ==
  IF n.type = "group" THEN <<n.id>>
  ELSE FlattenSeq([i \in DOMAIN n.kids |-> AllGroups(n.kids[i])])

\* As if a split left with one child stayed.
RECURSIVE NormalizeWrapped(_, _)
NormalizeWrapped(n, empty) ==
  IF n.type = "group" THEN n
  ELSE LET kids == SelectSeq([i \in DOMAIN n.kids |->
                                NormalizeWrapped(n.kids[i], empty)],
                             LAMBDA k : ~IsLeaf(k, empty))
       IN IF kids = <<>> THEN Leaf(AllGroups(n)[1]) ELSE [n EXCEPT !.kids = kids]
\* normalize: empty groups go (one stays), splits of one child are unwrapped.
RECURSIVE Normalize(_, _)
Normalize(n, empty) ==
  IF n.type = "group" THEN n
  ELSE LET kids == SelectSeq([i \in DOMAIN n.kids |-> Normalize(n.kids[i], empty)],
                             LAMBDA k : ~IsLeaf(k, empty))
       IN CASE Len(kids) = 0 -> Leaf(AllGroups(n)[1])
            [] Len(kids) = 1 -> kids[1]
            [] Len(kids) > 1 -> [n EXCEPT !.kids = kids]

\* wrap: a split of two, the new group on the given side.
Wrap(n, side, new) ==
  Node(Orientation(side),
       IF Before(side) THEN <<Leaf(new), n>> ELSE <<n, Leaf(new)>>)

\* splitGroup, with its inner function transform.
RECURSIVE Transform(_, _, _, _)
Transform(n, g, side, new) ==
  IF n.type = "group" THEN n
  ELSE LET i == SelectInSeq(n.kids, LAMBDA k : IsLeaf(k, {g})) IN
       IF i = 0
       THEN [n EXCEPT !.kids = [k \in DOMAIN @ |-> Transform(@[k], g, side, new)]]
       ELSE IF n.dir = Orientation(side)
       THEN [n EXCEPT !.kids = InsertAt(@, IF Before(side) THEN i ELSE i + 1, Leaf(new))]
       ELSE [n EXCEPT !.kids[i] = Wrap(@, side, new)]
SplitInTree(n, g, side, new, empty) ==
  IF n.type = "group" THEN Wrap(n, side, new)
  ELSE Normalize(Transform(n, g, side, new), empty)

\* placeTabAtEdge
PlaceAtEdge(n, side, new) ==
  IF n.type = "split" /\ n.dir = "row"
  THEN [n EXCEPT !.kids = IF side = "right" THEN Append(@, Leaf(new))
                          ELSE <<Leaf(new)>> \o @]
  ELSE Wrap(n, side, new)

(***************************************************************************)
(* Nodes and the splits and order they stand for.                          *)
(***************************************************************************)

\* The node over the groups G: its children are the largest parts of it.
RECURSIVE Built(_)
Built(G) ==
  LET below == {p \in Parts : p \subseteq G /\ p # G}
      largest == {p \in below : \A q \in below : p \subseteq q => p = q}
      kids == SetToSortSeq(largest, LAMBDA p, q : \A g \in p, h \in q : <<g, h>> \in order)
  IN IF below = {} THEN Leaf(CHOOSE g \in G : TRUE)
     ELSE Node((CHOOSE s \in splits : s.groups = G).dir,
               [i \in DOMAIN kids |-> Built(kids[i])])

RECURSIVE SplitsOf(_)
SplitsOf(n) ==
  IF n.type = "group" THEN {}
  ELSE {Split(n.dir, ToSet(AllGroups(n)))}
         \cup UNION {SplitsOf(n.kids[i]) : i \in DOMAIN n.kids}

\* The node n has the splits S and the order R.
StandsFor(n, S, R) ==
  LET gs == AllGroups(n) IN
  /\ SplitsOf(n) = S
  /\ R = {<<gs[p[1]], gs[p[2]]>> :
            p \in {q \in (1 .. Len(gs)) \X (1 .. Len(gs)) : q[1] < q[2]}}

\* Each function of the source does to the nodes what EditorLayout says of splits
\* and order: normalize with any of the groups empty, splitGroup of any group
\* to any side, placeTabAtEdge. What is dragged, asked about or could be lost is no
\* matter to the tree, so that states without any of it show all trees.
TreeFollowsSource ==
  Live # {} /\ drag = NoPane /\ asking = NoPane /\ losable = {} =>
    LET n == Built(Live)
        new == MaxGroups + 1
    IN
    /\ StandsFor(n, splits, order)
    /\ \A empty \in SUBSET Live :
         LET rest == IF empty = Live THEN {FirstGroup(Live, order)} ELSE Live \ empty
         IN StandsFor(Normalize(n, empty), Normalized(rest), order \cap (rest \X rest))
    /\ \A g \in Live, side \in {"left", "right", "up", "down"} :
         StandsFor(SplitInTree(n, g, side, new, {}),
                   SplitGroup(g, side, new), Beside(g, side, new))
    /\ \A side \in {"left", "right"} :
         StandsFor(PlaceAtEdge(n, side, new), PlaceTabAtEdge(new), Edge(side, new))
=============================================================================
