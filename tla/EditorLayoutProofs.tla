------------------------- MODULE EditorLayoutProofs -------------------------
(***************************************************************************)
(* EditorLayout implements EditorPanes and keeps its tree a tree, for any  *)
(* tabs and any number of panes. What is proved of EditorPanes then holds  *)
(* of EditorLayout too.                                                    *)
(***************************************************************************)
EXTENDS EditorLayout, SequenceTheorems, FiniteSetTheorems, WellFoundedInduction, TLAPS

Abs == INSTANCE EditorPanesProofs WITH GroupId <- Groups, NoGroup <- 0

-----------------------------------------------------------------------------

\* Induction on the naturals, from the least element of a set of them.
LEMMA Least ==
  ASSUME NEW S \in SUBSET Nat, S # {}
  PROVE  \E m \in S : \A k \in S : m <= k
<1> DEFINE R == OpToRel(<, Nat)
<1>1. IsWellFoundedOn(R, Nat)
  BY NatLessThanWellFounded, Zenon
<1>2. \A x, y \in Nat : <<y, x>> \in R <=> y < x
  BY DEF OpToRel
<1> HIDE DEF R
<1>3. PICK m \in S : \A k \in S : ~ (<<k, m>> \in R)
  BY <1>1, WFMin
<1>4. ASSUME NEW k \in S PROVE m <= k
  <2>1. m \in Nat /\ k \in Nat /\ ~ (k < m)
    BY <1>2, <1>3
  <2> QED BY <2>1
<1> QED BY <1>4

LEMMA SetInduction ==
  ASSUME NEW S, 0 \in S, \A n \in Nat : n \in S => n + 1 \in S
  PROVE  Nat \subseteq S
<1> SUFFICES ASSUME Nat \ S # {} PROVE FALSE
  OBVIOUS
<1>1. PICK m \in Nat \ S : \A k \in Nat \ S : m <= k
  BY Least
<1>2. m # 0 /\ m - 1 \in Nat
  BY <1>1
<1>3. m - 1 \in S
  BY <1>1, <1>2
<1> QED BY <1>1, <1>2, <1>3

\* There is a first group.
LEMMA FirstExists ==
  ASSUME NEW R, NEW G, G # {}, NEW n \in Nat, G \subseteq 1 .. n, Total(R, G)
  PROVE  \E g \in G : \A h \in G : <<h, g>> \notin R
<1> DEFINE First(H) == \E g \in H : \A h \in H : <<h, g>> \notin R
           S == {k \in Nat : \A H \in SUBSET G : H # {} /\ H \subseteq 1 .. k => First(H)}
<1>1. 0 \in S
  <2>1. 1 .. 0 = {}
    OBVIOUS
  <2> QED BY <2>1
<1>2. ASSUME NEW k \in Nat, k \in S PROVE k + 1 \in S
  <2> SUFFICES ASSUME NEW H \in SUBSET G, H # {}, H \subseteq 1 .. k + 1 PROVE First(H)
    OBVIOUS
  <2>1. CASE k + 1 \notin H
    <3>1. H \subseteq 1 .. k
      BY <2>1
    <3> QED BY <1>2, <3>1
  <2>2. CASE H = {k + 1}
    BY <2>2 DEF Total
  <2>3. CASE k + 1 \in H /\ H # {k + 1}
    <3> DEFINE K == H \ {k + 1}
    <3>1. K # {} /\ K \subseteq 1 .. k /\ K \in SUBSET G
      BY <2>3
    <3>2. PICK g \in K : \A h \in K : <<h, g>> \notin R
      BY <1>2, <3>1
    <3>3. k + 1 \in G /\ g \in G /\ g # k + 1 /\ H = K \cup {k + 1}
      BY <2>3
    <3>4. CASE <<k + 1, g>> \notin R
      BY <3>2, <3>3, <3>4
    <3>5. CASE <<k + 1, g>> \in R
      <4>1. ASSUME NEW h \in K, <<h, k + 1>> \in R PROVE FALSE
        BY <3>2, <3>3, <3>5, <4>1 DEF Total
      <4>2. <<k + 1, k + 1>> \notin R
        BY <3>3 DEF Total
      <4> QED BY <3>3, <4>1, <4>2
    <3> QED BY <3>4, <3>5
  <2> QED BY <2>1, <2>2, <2>3
<1>3. Nat \subseteq S
  <2> HIDE DEF S
  <2> QED BY <1>1, <1>2, SetInduction
<1> QED BY <1>3

LEMMA FirstIsThere ==
  ASSUME NEW R, NEW G, G # {}, NEW n \in Nat, G \subseteq 1 .. n, Total(R, G)
  PROVE  FirstGroup(G, R) \in G
BY FirstExists DEF FirstGroup

-----------------------------------------------------------------------------

\* Rows of tabs.
LEMMA IndexIs ==
  ASSUME NEW s \in Seq(Tab), NEW t \in ToSet(s)
  PROVE  Index(s, t) \in 1 .. Len(s) /\ s[Index(s, t)] = t /\ t \in Tab
<1>1. DOMAIN s = 1 .. Len(s) /\ \A i \in 1 .. Len(s) : s[i] \in Tab
  BY LenProperties, ElementOfSeq
<1>2. \E i \in DOMAIN s : s[i] = t
  BY DEF ToSet
<1> QED BY <1>1, <1>2 DEF Index

\* Taking the tab at i out of s, and putting one in before it.
LEMMA RemovedAt ==
  ASSUME NEW s \in Seq(Tab), NEW i \in 1 .. Len(s)
  PROVE  /\ RemoveAt(s, i) \in Seq(Tab)
         /\ Len(RemoveAt(s, i)) = Len(s) - 1
         /\ \A j \in 1 .. Len(s) - 1 :
              RemoveAt(s, i)[j] = IF j < i THEN s[j] ELSE s[j + 1]
<1> DEFINE a == SubSeq(s, 1, i - 1)
           b == SubSeq(s, i + 1, Len(s))
<1>1. /\ Len(s) \in Nat /\ DOMAIN s = 1 .. Len(s)
      /\ \A j \in 1 .. Len(s) : s[j] \in Tab
  BY LenProperties, ElementOfSeq
<1>2. /\ a \in Seq(Tab) /\ Len(a) = i - 1
      /\ \A j \in 1 .. i - 1 : a[j] = s[j]
  BY <1>1, SubSeqProperties
<1>3. /\ b \in Seq(Tab) /\ Len(b) = Len(s) - i
      /\ \A j \in 1 .. Len(s) - i : b[j] = s[i + j]
  <2>1. /\ b \in Seq(Tab) /\ Len(b) = IF i + 1 <= Len(s) THEN Len(s) - (i + 1) + 1 ELSE 0
        /\ \A j \in 1 .. (Len(s) - (i + 1) + 1) : b[j] = s[i + 1 + j - 1]
    BY <1>1, SubSeqProperties
  <2>2. \A j \in 1 .. Len(s) - i : b[j] = s[i + j]
    <3> SUFFICES ASSUME NEW j \in 1 .. Len(s) - i PROVE b[j] = s[i + j]
      OBVIOUS
    <3>1. i + 1 + j - 1 = i + j /\ j \in 1 .. (Len(s) - (i + 1) + 1)
      BY <1>1
    <3>2. b[j] = s[i + 1 + j - 1]
      BY <2>1, <3>1
    <3> QED BY <1>1, <3>1, <3>2
  <2>3. Len(b) = Len(s) - i
    BY <1>1, <2>1
  <2> QED BY <2>1, <2>2, <2>3
<1> HIDE DEF a, b
<1>4. /\ a \o b \in Seq(Tab) /\ Len(a \o b) = Len(a) + Len(b)
      /\ \A j \in 1 .. Len(a) + Len(b) :
           (a \o b)[j] = IF j <= Len(a) THEN a[j] ELSE b[j - Len(a)]
  BY <1>2, <1>3, ConcatProperties
<1>5. ASSUME NEW j \in 1 .. Len(s) - 1
      PROVE  (a \o b)[j] = IF j < i THEN s[j] ELSE s[j + 1]
  <2>1. j \in 1 .. Len(a) + Len(b)
    BY <1>1, <1>2, <1>3
  <2>2. CASE j < i
    BY <1>1, <1>2, <1>4, <2>1, <2>2
  <2>3. CASE ~ (j < i)
    <3>1. j - (i - 1) \in 1 .. Len(s) - i /\ i + (j - (i - 1)) = j + 1 /\ ~ (j <= i - 1)
      BY <1>1, <2>3
    <3> QED BY <1>2, <1>3, <1>4, <2>1, <2>3, <3>1
  <2> QED BY <2>2, <2>3
<1>6. RemoveAt(s, i) = a \o b
  BY DEF RemoveAt, a, b
<1>7. Len(a \o b) = Len(s) - 1
  BY <1>1, <1>2, <1>3, <1>4
<1> QED BY <1>4, <1>5, <1>6, <1>7

LEMMA InsertedAt ==
  ASSUME NEW s \in Seq(Tab), NEW i \in 1 .. Len(s) + 1, NEW t \in Tab
  PROVE  /\ InsertAt(s, i, t) \in Seq(Tab)
         /\ Len(InsertAt(s, i, t)) = Len(s) + 1
         /\ \A j \in 1 .. Len(s) + 1 :
              InsertAt(s, i, t)[j] = IF j < i THEN s[j] ELSE IF j = i THEN t ELSE s[j - 1]
<1> DEFINE a == SubSeq(s, 1, i - 1)
           b == SubSeq(s, i, Len(s))
           c == <<t>>
<1>1. /\ Len(s) \in Nat /\ DOMAIN s = 1 .. Len(s)
      /\ \A j \in 1 .. Len(s) : s[j] \in Tab
  BY LenProperties, ElementOfSeq
<1>2. /\ a \in Seq(Tab) /\ Len(a) = i - 1
      /\ \A j \in 1 .. i - 1 : a[j] = s[j]
  BY <1>1, SubSeqProperties
<1>3. /\ b \in Seq(Tab) /\ Len(b) = Len(s) - i + 1
      /\ \A j \in 1 .. Len(s) - i + 1 : b[j] = s[i + j - 1]
  BY <1>1, SubSeqProperties
<1>4. c \in Seq(Tab) /\ Len(c) = 1 /\ c[1] = t
  OBVIOUS
<1> HIDE DEF a, b, c
<1>5. /\ a \o c \in Seq(Tab) /\ Len(a \o c) = i
      /\ \A j \in 1 .. i : (a \o c)[j] = IF j < i THEN s[j] ELSE t
  <2>1. /\ a \o c \in Seq(Tab) /\ Len(a \o c) = Len(a) + Len(c)
        /\ \A j \in 1 .. Len(a) + Len(c) :
             (a \o c)[j] = IF j <= Len(a) THEN a[j] ELSE c[j - Len(a)]
    BY <1>2, <1>4, ConcatProperties
  <2>2. Len(a) + Len(c) = i
    BY <1>1, <1>2, <1>4
  <2>3. ASSUME NEW j \in 1 .. i PROVE (a \o c)[j] = IF j < i THEN s[j] ELSE t
    <3>1. CASE j < i
      <4>1. j <= i - 1 /\ j \in 1 .. i - 1
        BY <1>1, <3>1
      <4> QED BY <1>2, <2>1, <2>2, <3>1, <4>1
    <3>2. CASE j = i
      <4>1. ~(j <= Len(a)) /\ j - Len(a) = 1
        BY <1>1, <1>2, <3>2
      <4>2. (a \o c)[j] = c[j - Len(a)]
        BY <2>1, <2>2, <4>1
      <4>3. c[j - Len(a)] = t
        BY <1>4, <4>1
      <4>4. ~(j < i)
        BY <1>1, <3>2
      <4> QED BY <4>2, <4>3, <4>4
    <3>3. j < i \/ j = i
      BY <1>1
    <3> QED BY <3>1, <3>2, <3>3
  <2> QED BY <2>1, <2>2, <2>3
<1> DEFINE d == a \o c
<1> HIDE DEF d
<1>6. /\ d \in Seq(Tab) /\ Len(d) = i
      /\ \A j \in 1 .. i : d[j] = IF j < i THEN s[j] ELSE t
  BY <1>5 DEF d
<1>7. /\ d \o b \in Seq(Tab) /\ Len(d \o b) = Len(d) + Len(b)
      /\ \A j \in 1 .. Len(d) + Len(b) :
           (d \o b)[j] = IF j <= Len(d) THEN d[j] ELSE b[j - Len(d)]
  BY <1>3, <1>6, ConcatProperties
<1>8. Len(d) + Len(b) = Len(s) + 1
  BY <1>1, <1>3, <1>6
<1>9. ASSUME NEW j \in 1 .. Len(s) + 1
      PROVE  (d \o b)[j] = IF j < i THEN s[j] ELSE IF j = i THEN t ELSE s[j - 1]
  <2>1. CASE j <= i
    <3>1. j \in 1 .. i /\ j <= Len(d)
      BY <1>1, <1>6, <2>1
    <3>2. (d \o b)[j] = d[j]
      BY <1>7, <1>8, <3>1
    <3> QED BY <1>6, <3>1, <3>2
  <2>2. CASE ~(j <= i)
    <3>1. /\ ~(j <= Len(d)) /\ j - i \in 1 .. Len(s) - i + 1 /\ i + (j - i) - 1 = j - 1
          /\ ~(j < i) /\ j # i
      BY <1>1, <1>6, <2>2
    <3>2. (d \o b)[j] = b[j - i]
      BY <1>6, <1>7, <1>8, <3>1
    <3> QED BY <1>3, <3>1, <3>2
  <2> QED BY <2>1, <2>2
<1>10. InsertAt(s, i, t) = d \o b
  BY DEF InsertAt, a, b, c, d
<1> QED BY <1>7, <1>8, <1>9, <1>10

\* The row without t, which stood in it once.
LEMMA WithoutIs ==
  ASSUME NEW s \in Seq(Tab), IsInjective(s), NEW t \in ToSet(s)
  PROVE  /\ Without(s, t) \in Seq(Tab) /\ IsInjective(Without(s, t))
         /\ ToSet(Without(s, t)) = ToSet(s) \ {t}
         /\ Len(Without(s, t)) = Len(s) - 1 /\ Len(s) \in Nat \ {0}
<1> DEFINE i == Index(s, t)
           r == Without(s, t)
<1>1. Len(s) \in Nat /\ DOMAIN s = 1 .. Len(s)
  BY LenProperties
<1>2. i \in 1 .. Len(s) /\ s[i] = t
  BY IndexIs
<1> HIDE DEF i
<1>3. /\ r \in Seq(Tab) /\ Len(r) = Len(s) - 1
      /\ \A j \in 1 .. Len(s) - 1 : r[j] = IF j < i THEN s[j] ELSE s[j + 1]
  BY <1>2, RemovedAt DEF Without, i
<1> HIDE DEF r
<1>4. Len(s) - 1 \in Nat /\ DOMAIN r = 1 .. Len(s) - 1
  BY <1>1, <1>2, <1>3, LenProperties
<1>5. \A j \in 1 .. Len(s) - 1 :
        \E k \in 1 .. Len(s) : /\ r[j] = s[k] /\ k # i
                               /\ k = IF j < i THEN j ELSE j + 1
  <2> SUFFICES ASSUME NEW j \in 1 .. Len(s) - 1
               PROVE  \E k \in 1 .. Len(s) : /\ r[j] = s[k] /\ k # i
                                             /\ k = IF j < i THEN j ELSE j + 1
    OBVIOUS
  <2>1. CASE j < i
    <3>1. j \in 1 .. Len(s) /\ j # i /\ r[j] = s[j]
      BY <1>1, <1>2, <1>3, <2>1
    <3> QED BY <2>1, <3>1
  <2>2. CASE ~(j < i)
    <3>1. j + 1 \in 1 .. Len(s) /\ j + 1 # i /\ r[j] = s[j + 1]
      BY <1>1, <1>2, <1>3, <2>2
    <3> QED BY <2>2, <3>1
  <2> QED BY <2>1, <2>2
<1>6. \A k \in 1 .. Len(s) : k # i => \E j \in 1 .. Len(s) - 1 : r[j] = s[k]
  <2> SUFFICES ASSUME NEW k \in 1 .. Len(s), k # i
               PROVE  \E j \in 1 .. Len(s) - 1 : r[j] = s[k]
    OBVIOUS
  <2>1. CASE k < i
    <3>1. k \in 1 .. Len(s) - 1 /\ r[k] = s[k]
      BY <1>1, <1>2, <1>3, <2>1
    <3> QED BY <3>1
  <2>2. CASE ~(k < i)
    <3>1. k - 1 \in 1 .. Len(s) - 1 /\ ~(k - 1 < i) /\ k - 1 + 1 = k
      BY <1>1, <1>2, <2>2
    <3>2. r[k - 1] = s[k - 1 + 1]
      BY <1>3, <3>1
    <3> QED BY <3>1, <3>2
  <2> QED BY <2>1, <2>2
<1>7. \A j, k \in 1 .. Len(s) : s[j] = s[k] => j = k
  BY <1>1 DEF IsInjective
<1>8. IsInjective(r)
  <2> SUFFICES ASSUME NEW a \in 1 .. Len(s) - 1, NEW b \in 1 .. Len(s) - 1, r[a] = r[b]
               PROVE  a = b
    BY <1>4 DEF IsInjective
  <2>1. PICK k \in 1 .. Len(s) : r[a] = s[k] /\ k = IF a < i THEN a ELSE a + 1
    BY <1>5
  <2>2. PICK l \in 1 .. Len(s) : r[b] = s[l] /\ l = IF b < i THEN b ELSE b + 1
    BY <1>5
  <2>3. k = l
    BY <1>7, <2>1, <2>2
  <2> QED BY <1>1, <1>2, <2>1, <2>2, <2>3
<1>9. ToSet(r) = ToSet(s) \ {t}
  <2>1. ASSUME NEW j \in 1 .. Len(s) - 1 PROVE r[j] \in ToSet(s) \ {t}
    <3>1. PICK k \in 1 .. Len(s) : r[j] = s[k] /\ k # i
      BY <1>5
    <3>2. s[k] # t
      BY <1>2, <1>7, <3>1
    <3> QED BY <1>1, <3>1, <3>2 DEF ToSet
  <2>2. ASSUME NEW k \in 1 .. Len(s), s[k] # t PROVE s[k] \in ToSet(r)
    <3>1. PICK j \in 1 .. Len(s) - 1 : r[j] = s[k]
      BY <1>2, <1>6, <2>2
    <3> QED BY <1>4, <3>1 DEF ToSet
  <2> QED BY <1>1, <1>4, <2>1, <2>2 DEF ToSet
<1> QED BY <1>1, <1>2, <1>3, <1>8, <1>9 DEF r

LEMMA InsertedIs ==
  ASSUME NEW s \in Seq(Tab), IsInjective(s), NEW i \in 1 .. Len(s) + 1,
         NEW t \in Tab, t \notin ToSet(s)
  PROVE  /\ InsertAt(s, i, t) \in Seq(Tab) /\ IsInjective(InsertAt(s, i, t))
         /\ ToSet(InsertAt(s, i, t)) = ToSet(s) \cup {t}
<1> DEFINE r == InsertAt(s, i, t)
<1>1. Len(s) \in Nat /\ DOMAIN s = 1 .. Len(s) /\ i \in Nat \ {0} /\ i <= Len(s) + 1
  BY LenProperties
<1>2. /\ r \in Seq(Tab) /\ Len(r) = Len(s) + 1
      /\ \A j \in 1 .. Len(s) + 1 : r[j] = IF j < i THEN s[j] ELSE IF j = i THEN t ELSE s[j - 1]
  BY InsertedAt
<1> HIDE DEF r
<1>3. DOMAIN r = 1 .. Len(s) + 1
  BY <1>1, <1>2, LenProperties
<1>4. \A j \in 1 .. Len(s) : s[j] # t
  BY <1>1 DEF ToSet
<1>5. \A j \in 1 .. Len(s) + 1 : j # i =>
        \E k \in 1 .. Len(s) : r[j] = s[k] /\ k = IF j < i THEN j ELSE j - 1
  <2> SUFFICES ASSUME NEW j \in 1 .. Len(s) + 1, j # i
               PROVE  \E k \in 1 .. Len(s) : r[j] = s[k] /\ k = IF j < i THEN j ELSE j - 1
    OBVIOUS
  <2>1. CASE j < i
    <3>1. j \in 1 .. Len(s) /\ r[j] = s[j]
      BY <1>1, <1>2, <2>1
    <3> QED BY <2>1, <3>1
  <2>2. CASE ~(j < i)
    <3>1. j - 1 \in 1 .. Len(s) /\ r[j] = s[j - 1]
      BY <1>1, <1>2, <2>2
    <3> QED BY <2>2, <3>1
  <2> QED BY <2>1, <2>2
<1>6. i \in 1 .. Len(s) + 1 /\ r[i] = t
  BY <1>1, <1>2
<1>7. \A j, k \in 1 .. Len(s) : s[j] = s[k] => j = k
  BY <1>1 DEF IsInjective
<1>8. IsInjective(r)
  <2> SUFFICES ASSUME NEW a \in 1 .. Len(s) + 1, NEW b \in 1 .. Len(s) + 1, r[a] = r[b]
               PROVE  a = b
    BY <1>3 DEF IsInjective
  <2>1. CASE a = i \/ b = i
    BY <1>4, <1>5, <1>6, <2>1
  <2>2. CASE a # i /\ b # i
    <3>1. PICK k \in 1 .. Len(s) : r[a] = s[k] /\ k = IF a < i THEN a ELSE a - 1
      BY <1>5, <2>2
    <3>2. PICK l \in 1 .. Len(s) : r[b] = s[l] /\ l = IF b < i THEN b ELSE b - 1
      BY <1>5, <2>2
    <3>3. k = l
      BY <1>7, <3>1, <3>2
    <3> QED BY <1>1, <2>2, <3>1, <3>2, <3>3
  <2> QED BY <2>1, <2>2
<1>9. ToSet(r) = ToSet(s) \cup {t}
  <2>1. ASSUME NEW j \in 1 .. Len(s) + 1 PROVE r[j] \in ToSet(s) \cup {t}
    BY <1>1, <1>5, <1>6 DEF ToSet
  <2>2. t \in ToSet(r)
    BY <1>3, <1>6 DEF ToSet
  <2>3. ASSUME NEW k \in 1 .. Len(s) PROVE s[k] \in ToSet(r)
    <3>1. CASE k < i
      <4>1. k \in 1 .. Len(s) + 1 /\ r[k] = s[k]
        BY <1>1, <1>2, <3>1
      <4> QED BY <1>3, <4>1 DEF ToSet
    <3>2. CASE ~(k < i)
      <4>1. k + 1 \in 1 .. Len(s) + 1 /\ ~(k + 1 < i) /\ k + 1 # i /\ k + 1 - 1 = k
        BY <1>1, <3>2
      <4>2. r[k + 1] = s[k + 1 - 1]
        BY <1>2, <4>1
      <4> QED BY <1>3, <4>1, <4>2 DEF ToSet
    <3> QED BY <3>1, <3>2
  <2> QED BY <1>1, <1>3, <2>1, <2>2, <2>3 DEF ToSet
<1> QED BY <1>2, <1>8, <1>9 DEF r

\* The row of a pane; and x without the tabs of T, the active tab kept if it can be.
Row(x) ==
  /\ x \in Abs!PaneRow /\ IsInjective(x.tabs)
  /\ IF Held(x) = {} THEN x.active = NoTab ELSE x.active \in Held(x)
Loses(x, T, y) ==
  /\ Row(y) /\ Held(y) = Held(x) \ T
  /\ x.active \notin T => y.active = x.active

LEMMA SameHeld == \A x : Abs!Held(x) = Held(x) /\ Panes!Held(x) = Held(x)
BY DEF Abs!Held, Panes!Held, Held, Abs!ToSet, Panes!ToSet, ToSet

\* A row's parts, and what makes one.
LEMMA RowFacts ==
  /\ \A x \in Abs!PaneRow : /\ x.tabs \in Seq(Tab) /\ x.active \in Tab \cup {NoTab}
                            /\ Held(x) \subseteq Tab
                            /\ x.tabs = <<>> <=> Held(x) = {}
                            /\ x = [tabs |-> x.tabs, active |-> x.active]
  /\ \A s \in Seq(Tab), a \in Tab \cup {NoTab} :
       /\ [tabs |-> s, active |-> a] \in Abs!PaneRow
       /\ Held([tabs |-> s, active |-> a]) = ToSet(s)
       /\ s = <<>> <=> ToSet(s) = {}
<1>1. ASSUME NEW s \in Seq(Tab)
      PROVE  ToSet(s) \subseteq Tab /\ (s = <<>> <=> ToSet(s) = {})
  <2>1. DOMAIN s = 1 .. Len(s) /\ Len(s) \in Nat /\ \A i \in 1 .. Len(s) : s[i] \in Tab
    BY LenProperties, ElementOfSeq
  <2>2. CASE s = <<>>
    BY <2>1, <2>2 DEF ToSet
  <2>3. CASE s # <<>>
    <3>1. 1 \in DOMAIN s
      BY <2>1, <2>3, EmptySeq
    <3> QED BY <2>1, <2>3, <3>1 DEF ToSet
  <2> QED BY <2>2, <2>3, <2>1
<1>2. ASSUME NEW x \in Abs!PaneRow
      PROVE  /\ x.tabs \in Seq(Tab) /\ x.active \in Tab \cup {NoTab}
             /\ x = [tabs |-> x.tabs, active |-> x.active]
  BY DEF Abs!PaneRow
<1>3. ASSUME NEW x \in Abs!PaneRow
      PROVE  Held(x) \subseteq Tab /\ (x.tabs = <<>> <=> Held(x) = {})
  BY <1>1, <1>2 DEF Held
<1>4. ASSUME NEW s \in Seq(Tab), NEW a \in Tab \cup {NoTab}
      PROVE  /\ [tabs |-> s, active |-> a] \in Abs!PaneRow
             /\ Held([tabs |-> s, active |-> a]) = ToSet(s)
  BY DEF Abs!PaneRow, Held
<1> QED BY <1>1, <1>2, <1>3, <1>4

LEMMA LosesActive ==
  ASSUME NEW x, NEW T, NEW y, Loses(x, T, y)
  PROVE  Abs!ActiveAfter(x, T, y)
BY SameHeld DEF Loses, Row, Abs!ActiveAfter

\* t closed in a pane.
LEMMA DropLoses ==
  ASSUME NEW x, Row(x), NEW t \in Tab
  PROVE  Loses(x, {t}, Drop(x, t))
<1> DEFINE s == x.tabs
           i == Index(s, t)
           r == Without(s, t)
           b == IF x.active # t THEN x.active
                ELSE IF r = <<>> THEN NoTab
                ELSE r[IF i <= Len(r) THEN i ELSE i - 1]
           y == [tabs |-> r, active |-> b]
<1>1. /\ x \in Abs!PaneRow /\ IsInjective(s) /\ s \in Seq(Tab) /\ Held(x) = ToSet(s)
      /\ x.active \in Tab \cup {NoTab}
  BY RowFacts DEF Row, Held
<1>2. CASE t \notin Held(x)
  <2>1. Drop(x, t) = x
    BY <1>2 DEF Drop, Holds
  <2>2. Held(x) = Held(x) \ {t}
    BY <1>2
  <2> QED BY <2>1, <2>2 DEF Loses
<1>3. CASE t \in Held(x)
  <2>1. /\ r \in Seq(Tab) /\ IsInjective(r) /\ ToSet(r) = ToSet(s) \ {t}
        /\ Len(r) = Len(s) - 1 /\ Len(s) \in Nat \ {0}
    BY <1>1, <1>3, WithoutIs
  <2>2. i \in 1 .. Len(s)
    BY <1>1, <1>3, IndexIs
  <2>3. Drop(x, t) = y
    BY <1>3 DEF Drop, Holds
  <2> HIDE DEF i, r
  <2>4. b \in Tab \cup {NoTab} /\ (IF r = <<>> THEN b = NoTab ELSE b \in ToSet(r))
    <3>1. CASE x.active # t
      <4>1. x.active \in Held(x)
        BY <1>3 DEF Row
      <4>2. x.active \in ToSet(r)
        BY <1>1, <2>1, <3>1, <4>1
      <4>3. r # <<>>
        BY <4>2 DEF ToSet
      <4> QED BY <1>1, <3>1, <4>2, <4>3
    <3>2. CASE x.active = t /\ r = <<>>
      BY <3>2
    <3>3. CASE x.active = t /\ r # <<>>
      <4>1. Len(r) \in Nat /\ Len(r) # 0 /\ DOMAIN r = 1 .. Len(r)
        BY <2>1, <3>3, EmptySeq, LenProperties
      <4> DEFINE k == IF i <= Len(r) THEN i ELSE i - 1
      <4>2. k \in 1 .. Len(r)
        <5>1. i \in Nat \ {0} /\ i <= Len(r) + 1
          BY <2>1, <2>2, <4>1
        <5>2. CASE i <= Len(r)
          BY <4>1, <5>1, <5>2
        <5>3. CASE ~(i <= Len(r))
          <6>1. i - 1 = Len(r)
            BY <4>1, <5>1, <5>3
          <6> QED BY <4>1, <5>3, <6>1
        <5> QED BY <5>2, <5>3
      <4>3. b = r[k]
        BY <3>3
      <4> HIDE DEF k
      <4>4. b \in ToSet(r) /\ b \in Tab
        BY <2>1, <4>1, <4>2, <4>3, ElementOfSeq DEF ToSet
      <4> QED BY <3>3, <4>4
    <3> QED BY <3>1, <3>2, <3>3
  <2>5. x.active \notin {t} => b = x.active
    OBVIOUS
  <2> HIDE DEF b
  <2>6. y \in Abs!PaneRow /\ Held(y) = ToSet(r) /\ (r = <<>> <=> ToSet(r) = {})
    BY <2>1, <2>4, RowFacts
  <2>7. y.tabs = r /\ y.active = b
    OBVIOUS
  <2> HIDE DEF y
  <2>8. Row(y)
    BY <2>1, <2>4, <2>6, <2>7 DEF Row
  <2> QED BY <1>1, <2>1, <2>3, <2>5, <2>6, <2>7, <2>8 DEF Loses
<1> QED BY <1>2, <1>3

\* t dragged out of a pane.
LEMMA TakeOutLoses ==
  ASSUME NEW x, Row(x), NEW t \in Tab
  PROVE  Loses(x, {t}, TakeOut(x, t))
<1> DEFINE s == x.tabs
           r == Without(s, t)
           b == IF x.active # t THEN x.active
                ELSE IF r = <<>> THEN NoTab ELSE Head(r)
           y == [tabs |-> r, active |-> b]
<1>1. /\ x \in Abs!PaneRow /\ IsInjective(s) /\ s \in Seq(Tab) /\ Held(x) = ToSet(s)
      /\ x.active \in Tab \cup {NoTab}
  BY RowFacts DEF Row, Held
<1>2. CASE t \notin Held(x)
  <2>1. TakeOut(x, t) = x
    BY <1>2 DEF TakeOut, Holds
  <2>2. Held(x) = Held(x) \ {t}
    BY <1>2
  <2> QED BY <2>1, <2>2 DEF Loses
<1>3. CASE t \in Held(x)
  <2>1. r \in Seq(Tab) /\ IsInjective(r) /\ ToSet(r) = ToSet(s) \ {t}
    BY <1>1, <1>3, WithoutIs
  <2>2. TakeOut(x, t) = y
    BY <1>3 DEF TakeOut, Holds
  <2> HIDE DEF r
  <2>3. b \in Tab \cup {NoTab} /\ (IF r = <<>> THEN b = NoTab ELSE b \in ToSet(r))
    <3>1. CASE x.active # t
      <4>1. x.active \in ToSet(r)
        BY <1>1, <1>3, <2>1, <3>1 DEF Row
      <4>2. r # <<>>
        BY <4>1 DEF ToSet
      <4> QED BY <1>1, <3>1, <4>1, <4>2
    <3>2. CASE x.active = t /\ r = <<>>
      BY <3>2
    <3>3. CASE x.active = t /\ r # <<>>
      <4>1. Len(r) \in Nat /\ Len(r) # 0 /\ DOMAIN r = 1 .. Len(r)
        BY <2>1, <3>3, EmptySeq, LenProperties
      <4>2. b = r[1] /\ 1 \in DOMAIN r
        BY <2>1, <3>3, <4>1, HeadTailProperties
      <4>3. b \in ToSet(r) /\ b \in Tab
        BY <2>1, <4>1, <4>2, ElementOfSeq DEF ToSet
      <4> QED BY <3>3, <4>3
    <3> QED BY <3>1, <3>2, <3>3
  <2>4. x.active \notin {t} => b = x.active
    OBVIOUS
  <2> HIDE DEF b
  <2>5. y \in Abs!PaneRow /\ Held(y) = ToSet(r) /\ (r = <<>> <=> ToSet(r) = {})
    BY <2>1, <2>3, RowFacts
  <2>6. y.tabs = r /\ y.active = b
    OBVIOUS
  <2> HIDE DEF y
  <2>7. Row(y)
    BY <2>1, <2>3, <2>5, <2>6 DEF Row
  <2> QED BY <1>1, <2>1, <2>2, <2>4, <2>5, <2>6, <2>7 DEF Loses
<1> QED BY <1>2, <1>3

\* A row with t as its active tab.
LEMMA TurnedRow ==
  ASSUME NEW s \in Seq(Tab), IsInjective(s), NEW t \in ToSet(s)
  PROVE  LET y == [tabs |-> s, active |-> t]
         IN Row(y) /\ Held(y) = ToSet(s) /\ y.active = t
<1> DEFINE y == [tabs |-> s, active |-> t]
<1>1. t \in Tab
  BY IndexIs
<1>2. y \in Abs!PaneRow /\ Held(y) = ToSet(s)
  BY <1>1, RowFacts
<1>3. y.tabs = s /\ y.active = t
  OBVIOUS
<1> HIDE DEF y
<1>4. Row(y)
  BY <1>2, <1>3 DEF Row
<1> QED BY <1>2, <1>3, <1>4 DEF y

\* t dragged into a pane.
LEMMA PutInHolds ==
  ASSUME NEW x, x \in Abs!PaneRow, IsInjective(x.tabs), NEW t \in Tab, NEW target, NEW after
  PROVE  LET y == PutIn(x, t, target, after)
         IN Row(y) /\ Held(y) = Held(x) \cup {t} /\ y.active = t
<1> DEFINE s == x.tabs
           r == IF Holds(x, t) THEN Without(s, t) ELSE s
           i == IF target \notin ToSet(r) THEN Len(r) + 1
                ELSE IF after THEN Index(r, target) + 1 ELSE Index(r, target)
           z == InsertAt(r, i, t)
<1>1. s \in Seq(Tab) /\ Held(x) = ToSet(s)
  BY RowFacts DEF Held
<1>2. r \in Seq(Tab) /\ IsInjective(r) /\ ToSet(r) = ToSet(s) \ {t}
  <2>1. CASE Holds(x, t)
    BY <1>1, <2>1, WithoutIs DEF Holds
  <2>2. CASE ~Holds(x, t)
    BY <1>1, <2>2 DEF Holds
  <2> QED BY <2>1, <2>2
<1> HIDE DEF r
<1>3. i \in 1 .. Len(r) + 1
  <2>1. Len(r) \in Nat
    BY <1>2, LenProperties
  <2>2. CASE target \notin ToSet(r)
    BY <2>1, <2>2
  <2>3. CASE target \in ToSet(r)
    <3>1. Index(r, target) \in 1 .. Len(r)
      BY <1>2, <2>3, IndexIs
    <3> QED BY <2>1, <2>3, <3>1
  <2> QED BY <2>2, <2>3
<1> HIDE DEF i
<1>4. z \in Seq(Tab) /\ IsInjective(z) /\ ToSet(z) = ToSet(r) \cup {t}
  BY <1>2, <1>3, InsertedIs
<1> HIDE DEF z
<1>5. PutIn(x, t, target, after) = [tabs |-> z, active |-> t]
  BY DEF PutIn, z, i, r
<1>6. ToSet(z) = Held(x) \cup {t} /\ t \in ToSet(z)
  BY <1>1, <1>2, <1>4
<1> QED BY <1>4, <1>5, <1>6, TurnedRow

LEMMA LosesNothing ==
  ASSUME NEW x, Row(x)
  PROVE  Loses(x, {}, x)
BY DEF Loses

LEMMA LosesMore ==
  ASSUME NEW x, NEW A, NEW y, Loses(x, A, y), NEW B, NEW z, Loses(y, B, z)
  PROVE  Loses(x, A \cup B, z)
BY DEF Loses

\* The tabs of T closed in a pane, one after the other.
LEMMA ClosedLoses ==
  ASSUME NEW x, Row(x), NEW T
  PROVE  Loses(x, T, Closed(x, T))
<1> DEFINE s == x.tabs
           n == Len(s)
           Rec(f, k) == f = [i \in 0 .. k |->
                               IF i = 0 THEN x
                               ELSE IF s[i] \in T THEN Drop(f[i - 1], s[i]) ELSE f[i - 1]]
           Some == {k \in Nat : \E f : Rec(f, k)}
           Gone(i) == {s[j] : j \in 1 .. i} \cap T
<1>1. s \in Seq(Tab) /\ Held(x) = ToSet(s)
  BY RowFacts DEF Row, Held
<1>2. DOMAIN s = 1 .. n /\ n \in Nat /\ \A i \in 1 .. n : s[i] \in Tab
  BY <1>1, LenProperties, ElementOfSeq
<1>3. 0 \in Some
  <2> DEFINE f == [i \in 0 .. 0 |-> x]
  <2>1. Rec(f, 0)
    <3>1. \A i \in 0 .. 0 : i = 0
      OBVIOUS
    <3> QED BY <3>1
  <2> QED BY <2>1
<1>4. ASSUME NEW k \in Nat, k \in Some PROVE k + 1 \in Some
  <2>1. PICK f : Rec(f, k)
    BY <1>4
  <2> DEFINE g == [i \in 0 .. k + 1 |->
                     IF i <= k THEN f[i]
                     ELSE IF s[k + 1] \in T THEN Drop(f[k], s[k + 1]) ELSE f[k]]
             h == [i \in 0 .. k + 1 |->
                     IF i = 0 THEN x
                     ELSE IF s[i] \in T THEN Drop(g[i - 1], s[i]) ELSE g[i - 1]]
  <2>2. \A i \in 0 .. k : g[i] = f[i]
    OBVIOUS
  <2>3. ASSUME NEW i \in 0 .. k + 1 PROVE g[i] = h[i]
    <3>1. CASE i = 0
      <4>1. f[0] = x /\ 0 \in 0 .. k
        BY <2>1
      <4> QED BY <2>2, <3>1, <4>1
    <3>2. CASE i \in 1 .. k
      <4>1. i \in 0 .. k /\ i - 1 \in 0 .. k /\ i # 0
        BY <3>2
      <4>2. f[i] = IF s[i] \in T THEN Drop(f[i - 1], s[i]) ELSE f[i - 1]
        BY <2>1, <4>1
      <4>3. g[i] = f[i] /\ g[i - 1] = f[i - 1]
        BY <2>2, <4>1
      <4> HIDE DEF g
      <4> QED BY <4>1, <4>2, <4>3
    <3>3. CASE i = k + 1
      <4>1. i - 1 = k /\ k \in 0 .. k /\ i # 0 /\ ~(i <= k)
        BY <3>3
      <4>2. g[i] = IF s[k + 1] \in T THEN Drop(f[k], s[k + 1]) ELSE f[k]
        BY <4>1
      <4>3. g[i - 1] = f[k]
        BY <2>2, <4>1
      <4> HIDE DEF g
      <4> QED BY <3>3, <4>1, <4>2, <4>3
    <3> QED BY <3>1, <3>2, <3>3
  <2>4. Rec(g, k + 1)
    <3>1. DOMAIN g = DOMAIN h
      OBVIOUS
    <3>2. g = h
      BY <2>3
    <3> HIDE DEF g
    <3> QED BY <3>2
  <2> HIDE DEF g
  <2>5. \E e : Rec(e, k + 1)
    BY <2>4
  <2> QED BY <2>5
<1>5. \E f : Rec(f, n)
  <2>1. Nat \subseteq Some
    <3> HIDE DEF Some
    <3> QED BY <1>3, <1>4, SetInduction
  <2> QED BY <1>2, <2>1
<1> DEFINE after == CHOOSE f : Rec(f, n)
<1>6. Rec(after, n)
  BY <1>5
<1>7. Closed(x, T) = after[n]
  BY DEF Closed
<1> HIDE DEF after
<1>8. /\ after[0] = x
      /\ \A i \in 1 .. n : after[i] = IF s[i] \in T THEN Drop(after[i - 1], s[i])
                                      ELSE after[i - 1]
  <2>1. 0 \in 0 .. n /\ \A i \in 1 .. n : i \in 0 .. n /\ i # 0
    BY <1>2
  <2> QED BY <1>6, <2>1
<1> DEFINE Done == {i \in Nat : i <= n => Loses(x, Gone(i), after[i])}
<1>9. 0 \in Done
  <2>1. Gone(0) = {}
    OBVIOUS
  <2> QED BY <1>8, <2>1, LosesNothing
<1>10. ASSUME NEW i \in Nat, i \in Done PROVE i + 1 \in Done
  <2> SUFFICES ASSUME i + 1 <= n PROVE Loses(x, Gone(i + 1), after[i + 1])
    OBVIOUS
  <2>1. i + 1 \in 1 .. n /\ i <= n /\ i + 1 - 1 = i
    BY <1>2
  <2>2. Loses(x, Gone(i), after[i])
    BY <1>10, <2>1
  <2>3. after[i + 1] = IF s[i + 1] \in T THEN Drop(after[i], s[i + 1]) ELSE after[i]
    BY <1>8, <2>1
  <2>4. {s[j] : j \in 1 .. i + 1} = {s[j] : j \in 1 .. i} \cup {s[i + 1]}
    <3>1. 1 .. i + 1 = (1 .. i) \cup {i + 1}
      OBVIOUS
    <3> QED BY <3>1
  <2>5. CASE s[i + 1] \in T
    <3>1. Loses(after[i], {s[i + 1]}, after[i + 1])
      BY <1>2, <2>1, <2>2, <2>3, <2>5, DropLoses DEF Loses
    <3>2. Gone(i + 1) = Gone(i) \cup {s[i + 1]}
      BY <2>4, <2>5
    <3> HIDE DEF Gone
    <3> QED BY <2>2, <3>1, <3>2, LosesMore
  <2>6. CASE s[i + 1] \notin T
    <3>1. Gone(i + 1) = Gone(i)
      BY <2>4, <2>6
    <3> HIDE DEF Gone
    <3> QED BY <2>2, <2>3, <2>6, <3>1
  <2> QED BY <2>5, <2>6
<1>11. Loses(x, Gone(n), after[n])
  <2>1. Nat \subseteq Done
    <3> HIDE DEF Done
    <3> QED BY <1>9, <1>10, SetInduction
  <2>2. n \in Done /\ n <= n
    <3> HIDE DEF Done
    <3> QED BY <1>2, <2>1
  <2> HIDE DEF Gone
  <2> QED BY <2>2
<1>12. Gone(n) = Held(x) \cap T
  BY <1>1, <1>2 DEF ToSet
<1>13. Held(x) \ (Held(x) \cap T) = Held(x) \ T
  OBVIOUS
<1> HIDE DEF Gone
<1> QED BY <1>7, <1>11, <1>12, <1>13 DEF Loses

-----------------------------------------------------------------------------

\* The tree. First what is left of it when only the groups of G stay.
LEMMA SplitIs ==
  \A d, G : Split(d, G).dir = d /\ Split(d, G).groups = G
BY DEF Split

LEMMA ForkTwo ==
  ASSUME Nested(splits, Live), NEW G, NEW s \in splits, Forks(s, G)
  PROVE  \E g, h \in s.groups \cap G : g # h
<1>1. s.groups \subseteq Live
  BY DEF Nested
<1>2. PICK a \in s.groups, b \in s.groups : a # b
  BY DEF Nested
<1>3. ASSUME NEW g \in s.groups PROVE ~(s.groups \cap G \subseteq {g})
  <2>1. {g} \in Parts /\ {g} \subseteq s.groups
    BY <1>1 DEF Parts
  <2>2. {g} # s.groups
    BY <1>2
  <2> QED BY <2>1, <2>2 DEF Forks
<1>4. PICK g \in s.groups \cap G : g # a
  BY <1>2, <1>3
<1>5. PICK h \in s.groups \cap G : h # g
  BY <1>3, <1>4
<1> QED BY <1>4, <1>5

\* The lowest split over some groups.
IsLowest(s, G) ==
  /\ s \in splits /\ G \subseteq s.groups
  /\ \A r \in splits : G \subseteq r.groups /\ r.groups \subseteq s.groups
                        => r.groups = s.groups

LEMMA Lowest ==
  ASSUME NEW G, NEW n \in Nat, \A s \in splits : s.groups \subseteq 1 .. n,
         \E s \in splits : G \subseteq s.groups
  PROVE  \E s : IsLowest(s, G)
<1> DEFINE Size(s) == Cardinality(s.groups)
           Over == {s \in splits : G \subseteq s.groups}
           Sizes == {Size(s) : s \in Over}
<1>1. ASSUME NEW s \in splits PROVE IsFiniteSet(s.groups) /\ Size(s) \in Nat
  <2>1. IsFiniteSet(1 .. n)
    BY FS_Interval
  <2>2. s.groups \in SUBSET (1 .. n)
    OBVIOUS
  <2>3. IsFiniteSet(s.groups)
    BY <2>1, <2>2, FS_Subset
  <2> QED BY <2>3, FS_CardinalityType
<1>2. Sizes \in SUBSET Nat /\ Sizes # {}
  BY <1>1
<1>3. PICK m \in Sizes : \A k \in Sizes : m <= k
  <2> HIDE DEF Sizes
  <2> QED BY <1>2, Least
<1>4. PICK s \in Over : m = Size(s)
  BY <1>3
<1>5. ASSUME NEW r \in splits, G \subseteq r.groups, r.groups \subseteq s.groups
      PROVE  r.groups = s.groups
  <2>1. r \in Over /\ s \in splits
    BY <1>5
  <2>2. Size(s) <= Size(r)
    BY <1>3, <1>4, <2>1
  <2>3. r.groups \in SUBSET s.groups /\ IsFiniteSet(s.groups)
    BY <1>1, <1>5, <2>1
  <2>4. Size(r) <= Size(s) /\ (Size(s) = Size(r) => s.groups = r.groups)
    BY <2>3, FS_Subset
  <2>5. Size(s) = Size(r)
    BY <1>1, <2>1, <2>2, <2>4
  <2> QED BY <2>4, <2>5
<1> QED BY <1>4, <1>5 DEF IsLowest

LEMMA NormalizedIs ==
  ASSUME NEW G, NEW q \in Normalized(G)
  PROVE  \E s \in splits : /\ Forks(s, G) /\ q = Split(s.dir, s.groups \cap G)
                           /\ q.dir = s.dir /\ q.groups = s.groups \cap G
<1>1. PICK s \in splits : Forks(s, G) /\ q = Split(s.dir, s.groups \cap G)
  BY DEF Normalized
<1>2. q.dir = s.dir /\ q.groups = s.groups \cap G
  BY <1>1, SplitIs
<1> QED BY <1>1, <1>2

LEMMA NormalizedNested ==
  ASSUME Nested(splits, Live), NEW n \in Nat, Live \subseteq 1 .. n,
         NEW G, G \subseteq Live
  PROVE  Nested(Normalized(G), G)
<1> DEFINE N == Normalized(G)
<1>1. \A q \in N : \E s \in splits : /\ Forks(s, G)
                                     /\ q.dir = s.dir /\ q.groups = s.groups \cap G
  BY NormalizedIs
<1>2. \A s \in splits : Forks(s, G) => Split(s.dir, s.groups \cap G) \in N
  BY DEF Normalized
<1>3. ASSUME NEW q \in N
      PROVE  /\ q.dir \in {"row", "column"} /\ q.groups \subseteq G
             /\ \E g, h \in q.groups : g # h
  <2>1. PICK s \in splits : /\ Forks(s, G)
                            /\ q.dir = s.dir /\ q.groups = s.groups \cap G
    BY <1>1
  <2>2. s.dir \in {"row", "column"}
    BY DEF Nested
  <2>3. PICK g \in s.groups \cap G, h \in s.groups \cap G : g # h
    BY <2>1, ForkTwo
  <2> QED BY <2>1, <2>2, <2>3
<1>4. ASSUME NEW r \in splits, NEW s \in splits, Forks(s, G), r.groups # s.groups,
             r.groups \subseteq s.groups
      PROVE  r.groups \cap G # s.groups \cap G
  <2>1. r.groups \in Parts
    BY DEF Parts
  <2>2. ~(s.groups \cap G \subseteq r.groups)
    BY <1>4, <2>1 DEF Forks
  <2> QED BY <2>2
<1>5. ASSUME NEW p \in N, NEW q \in N
      PROVE  \/ p = q
             \/ /\ p.groups # q.groups
                /\ p.groups \subseteq q.groups \/ q.groups \subseteq p.groups
             \/ p.groups \cap q.groups = {}
  <2>1. PICK r \in splits : Forks(r, G) /\ p = Split(r.dir, r.groups \cap G)
    BY NormalizedIs
  <2>2. PICK s \in splits : Forks(s, G) /\ q = Split(s.dir, s.groups \cap G)
    BY NormalizedIs
  <2>3. p.groups = r.groups \cap G /\ q.groups = s.groups \cap G
    BY <2>1, <2>2, SplitIs
  <2>4. \/ r = s
        \/ r.groups # s.groups /\ (r.groups \subseteq s.groups \/ s.groups \subseteq r.groups)
        \/ r.groups \cap s.groups = {}
    BY DEF Nested
  <2>5. CASE r = s
    BY <2>1, <2>2, <2>5
  <2>6. CASE r.groups # s.groups /\ r.groups \subseteq s.groups
    BY <1>4, <2>2, <2>3, <2>6
  <2>7. CASE r.groups # s.groups /\ s.groups \subseteq r.groups
    BY <1>4, <2>1, <2>3, <2>7
  <2>8. CASE r.groups \cap s.groups = {}
    BY <2>3, <2>8
  <2> QED BY <2>4, <2>5, <2>6, <2>7, <2>8
<1>6. ASSUME NEW a \in G, NEW b \in G, a # b
      PROVE  \E q \in N : q.groups = G
  <2>1. PICK root \in splits : root.groups = Live
    BY <1>6 DEF Nested
  <2>2. \A s \in splits : s.groups \subseteq 1 .. n
    BY DEF Nested
  <2>3. \E s \in splits : G \subseteq s.groups
    BY <2>1
  <2>4. PICK s : IsLowest(s, G)
    BY <2>2, <2>3, Lowest
  <2>5. s.groups \cap G = G
    BY <2>4 DEF IsLowest
  <2>6. Forks(s, G)
    <3> SUFFICES ASSUME NEW part \in Parts, part \subseteq s.groups, part # s.groups,
                        G \subseteq part
                 PROVE  FALSE
      BY <2>5 DEF Forks
    <3>1. CASE \E r \in splits : part = r.groups
      BY <2>4, <3>1 DEF IsLowest
    <3>2. CASE \E g \in Live : part = {g}
      BY <1>6, <3>2
    <3> QED BY <3>1, <3>2 DEF Parts
  <2>7. Split(s.dir, s.groups \cap G) \in N
    BY <1>2, <2>4, <2>6 DEF IsLowest
  <2> QED BY <2>5, <2>7, SplitIs
<1> HIDE DEF N
<1>7. Nested(N, G)
  BY <1>3, <1>5, <1>6 DEF Nested
<1> QED BY <1>7 DEF N

LEMMA NormalizedOrdered ==
  ASSUME Ordered(splits, order, Live), NEW G, G \subseteq Live
  PROVE  Ordered(Normalized(G), order \cap (G \X G), G)
<1> DEFINE R == order \cap (G \X G)
<1>1. \A g, h \in G : <<g, h>> \in R <=> <<g, h>> \in order
  OBVIOUS
<1>2. Total(R, G)
  <2>1. R \subseteq G \X G
    OBVIOUS
  <2> HIDE DEF R
  <2>2. \A g, h \in G : <<g, h>> \in R <=> (g # h /\ <<h, g>> \notin R)
    BY <1>1 DEF Ordered, Total
  <2>3. \A g, h, k \in G : <<g, h>> \in R /\ <<h, k>> \in R => <<g, k>> \in R
    BY <1>1 DEF Ordered, Total
  <2> QED BY <2>1, <2>2, <2>3 DEF Total
<1>3. ASSUME NEW q \in Normalized(G), NEW g \in q.groups, NEW h \in q.groups,
             NEW k \in G \ q.groups, <<g, k>> \in R
      PROVE  <<h, k>> \in R
  <2>1. PICK s \in splits : q.groups = s.groups \cap G
    BY NormalizedIs
  <2>2. g \in s.groups /\ h \in s.groups /\ k \in Live \ s.groups /\ g \in G /\ h \in G
    BY <1>3, <2>1
  <2>3. <<h, k>> \in order
    BY <1>3, <2>2 DEF Ordered
  <2> QED BY <2>2, <2>3
<1> HIDE DEF R
<1>4. Ordered(Normalized(G), R, G)
  BY <1>2, <1>3 DEF Ordered
<1> QED BY <1>4 DEF R

\* A group split in two, the new one beside it.
LEMMA SplitNested ==
  ASSUME Nested(splits, Live), NEW g \in Live, NEW side, NEW new, new \notin Live
  PROVE  Nested(SplitGroup(g, side, new), Live \cup {new})
<1> DEFINE W(s) == IF Below(s, g) THEN Split(s.dir, s.groups \cup {new}) ELSE s
           two == Split(Orientation(side), {g, new})
           S == SplitGroup(g, side, new)
           G == Live \cup {new}
<1>1. \A s \in splits : /\ W(s).dir = s.dir
                        /\ g \in s.groups => W(s).groups = s.groups \cup {new}
                        /\ g \notin s.groups => W(s).groups = s.groups
  BY SplitIs DEF Below
<1>2. \A s \in splits : /\ s.dir \in {"row", "column"} /\ s.groups \subseteq Live
                        /\ new \notin s.groups
                        /\ \E h, k \in s.groups : h # k
  BY DEF Nested
<1>3. two.dir \in {"row", "column"} /\ two.groups = {g, new} /\ g # new
  BY SplitIs DEF Orientation
<1> HIDE DEF two
<1>4. S = {W(s) : s \in splits} \cup (IF ParentRuns(g, Orientation(side)) THEN {} ELSE {two})
  BY DEF SplitGroup, two
<1> HIDE DEF W, S
<1>5. \A q \in S : q = two \/ \E s \in splits : q = W(s)
  BY <1>4
<1>6. ASSUME NEW q \in S
      PROVE  /\ q.dir \in {"row", "column"} /\ q.groups \subseteq G
             /\ \E h, k \in q.groups : h # k
  <2>1. CASE q = two
    BY <1>3, <2>1
  <2>2. ASSUME NEW s \in splits, q = W(s)
        PROVE  /\ q.dir \in {"row", "column"} /\ q.groups \subseteq G
               /\ \E h, k \in q.groups : h # k
    <3>1. s.groups \subseteq q.groups /\ q.groups \subseteq s.groups \cup {new} /\ q.dir = s.dir
      BY <1>1, <2>2
    <3> QED BY <1>2, <3>1
  <2> QED BY <1>5, <2>1, <2>2
<1> DEFINE Apart(p, q) ==
      \/ p = q
      \/ p.groups # q.groups /\ (p.groups \subseteq q.groups \/ q.groups \subseteq p.groups)
      \/ p.groups \cap q.groups = {}
<1>7. ASSUME NEW r \in splits, NEW s \in splits
      PROVE  Apart(W(r), W(s))
  <2>1. Apart(r, s)
    BY DEF Nested
  <2>2. CASE g \in r.groups /\ g \in s.groups
    <3>1. r = s \/ (r.groups # s.groups /\ (r.groups \subseteq s.groups \/ s.groups \subseteq r.groups))
      BY <2>1, <2>2
    <3>2. W(r).groups = r.groups \cup {new} /\ W(s).groups = s.groups \cup {new}
      BY <1>1, <2>2
    <3>3. r.groups # s.groups => W(r).groups # W(s).groups
      BY <1>2, <3>2
    <3>4. r.groups \subseteq s.groups => W(r).groups \subseteq W(s).groups
      BY <3>2
    <3>5. s.groups \subseteq r.groups => W(s).groups \subseteq W(r).groups
      BY <3>2
    <3> QED BY <3>1, <3>3, <3>4, <3>5
  <2>3. CASE g \notin r.groups /\ g \notin s.groups
    <3>1. W(r) = r /\ W(s) = s
      BY <2>3 DEF W, Below
    <3> QED BY <2>1, <3>1
  <2>4. CASE g \in r.groups /\ g \notin s.groups
    <3>1. W(r).groups = r.groups \cup {new} /\ W(s).groups = s.groups
      BY <1>1, <2>4
    <3>2. s.groups \subseteq r.groups \/ r.groups \cap s.groups = {}
      BY <2>1, <2>4
    <3> QED BY <1>2, <2>4, <3>1, <3>2
  <2>5. CASE g \notin r.groups /\ g \in s.groups
    <3>1. W(s).groups = s.groups \cup {new} /\ W(r).groups = r.groups
      BY <1>1, <2>5
    <3>2. r.groups \subseteq s.groups \/ r.groups \cap s.groups = {}
      BY <2>1, <2>5
    <3> QED BY <1>2, <2>5, <3>1, <3>2
  <2> QED BY <2>2, <2>3, <2>4, <2>5
<1>8. ASSUME NEW s \in splits PROVE Apart(W(s), two) /\ Apart(two, W(s))
  <2>1. CASE g \in s.groups
    <3>1. W(s).groups = s.groups \cup {new}
      BY <1>1, <2>1
    <3>2. \E k \in s.groups : k # g /\ k # new
      BY <1>2
    <3>3. two.groups \subseteq W(s).groups /\ two.groups # W(s).groups
      BY <1>3, <2>1, <3>1, <3>2
    <3> QED BY <3>3
  <2>2. CASE g \notin s.groups
    <3>1. W(s).groups \cap two.groups = {} /\ two.groups \cap W(s).groups = {}
      BY <1>1, <1>2, <1>3, <2>2
    <3> QED BY <3>1
  <2> QED BY <2>1, <2>2
<1>9. ASSUME NEW p \in S, NEW q \in S PROVE Apart(p, q)
  <2>1. Apart(two, two)
    OBVIOUS
  <2> HIDE DEF Apart
  <2>2. p = two \/ \E r \in splits : p = W(r)
    BY <1>5
  <2>3. q = two \/ \E s \in splits : q = W(s)
    BY <1>5
  <2> QED BY <1>7, <1>8, <2>1, <2>2, <2>3
<1>10. \E q \in S : q.groups = G
  <2>1. CASE \E h, k \in Live : h # k
    <3>1. PICK s \in splits : s.groups = Live
      BY <2>1 DEF Nested
    <3>2. W(s) \in S /\ W(s).groups = Live \cup {new}
      BY <1>1, <1>4, <3>1
    <3> QED BY <3>2
  <2>2. CASE ~ \E h, k \in Live : h # k
    <3>1. Live = {g}
      BY <2>2
    <3>2. splits = {}
      BY <1>2, <2>2
    <3>3. ~ParentRuns(g, Orientation(side))
      BY <3>2 DEF ParentRuns
    <3>4. two \in S
      BY <1>4, <3>3
    <3> QED BY <1>3, <3>1, <3>4
  <2> QED BY <2>1, <2>2
<1>11. Nested(S, G)
  BY <1>6, <1>9, <1>10 DEF Nested
<1> QED BY <1>11 DEF S

\* The order beside a group: the new group lies to others as the group does.
LEMMA BesideIs ==
  ASSUME Total(order, Live), NEW g \in Live, NEW side, NEW new, new \notin Live
  PROVE  LET R == Beside(g, side, new)
         IN /\ R \subseteq (Live \cup {new}) \X (Live \cup {new})
            /\ \A h, k \in Live : <<h, k>> \in R <=> <<h, k>> \in order
            /\ \A h \in Live \ {g} : /\ <<h, new>> \in R <=> <<h, g>> \in order
                                     /\ <<new, h>> \in R <=> <<g, h>> \in order
            /\ <<g, new>> \in R <=> <<new, g>> \notin R
            /\ <<new, new>> \notin R
<1> DEFINE R == Beside(g, side, new)
           A == {<<h, new>> : h \in {k \in Live : <<k, g>> \in order}}
           B == {<<new, h>> : h \in {k \in Live : <<g, k>> \in order}}
           c == IF Before(side) THEN <<new, g>> ELSE <<g, new>>
<1>1. R = order \cup A \cup B \cup {c}
  BY DEF Beside
<1>2. order \subseteq Live \X Live /\ <<g, g>> \notin order
  BY DEF Total
<1>3. \A h, k : <<h, k>> \in A <=> k = new /\ h \in Live /\ <<h, g>> \in order
  OBVIOUS
<1>4. \A h, k : <<h, k>> \in B <=> h = new /\ k \in Live /\ <<g, k>> \in order
  OBVIOUS
<1>5. (c = <<new, g>> /\ Before(side)) \/ (c = <<g, new>> /\ ~Before(side))
  OBVIOUS
<1>6. \A x \in A : \E h \in Live : x = <<h, new>>
  OBVIOUS
<1>7. \A x \in B : \E h \in Live : x = <<new, h>>
  OBVIOUS
<1>8. g # new
  OBVIOUS
<1> HIDE DEF A, B, c, R
<1>9. \A h, k : <<h, k>> \in R <=> <<h, k>> \in order \/ <<h, k>> \in A \/ <<h, k>> \in B \/ <<h, k>> = c
  BY <1>1
<1>10. R \subseteq (Live \cup {new}) \X (Live \cup {new})
  <2>1. \A x \in order \cup A \cup B \cup {c} :
          \E h, k \in Live \cup {new} : x = <<h, k>>
    <3>1. \A x \in order : \E h, k \in Live : x = <<h, k>>
      BY <1>2
    <3>2. \E h, k \in Live \cup {new} : c = <<h, k>>
      BY <1>5
    <3> QED BY <1>6, <1>7, <3>1, <3>2
  <2> QED BY <1>1, <2>1
<1>11. \A h, k \in Live : <<h, k>> \in R <=> <<h, k>> \in order
  <2> SUFFICES ASSUME NEW h \in Live, NEW k \in Live
               PROVE  <<h, k>> \in R <=> <<h, k>> \in order
    OBVIOUS
  <2>1. h # new /\ k # new
    OBVIOUS
  <2>2. <<h, k>> \notin A /\ <<h, k>> \notin B
    BY <1>3, <1>4, <2>1
  <2>3. <<h, k>> # c
    BY <1>5, <2>1
  <2> QED BY <1>9, <2>2, <2>3
<1>12. ASSUME NEW h \in Live \ {g}
       PROVE  (<<h, new>> \in R <=> <<h, g>> \in order) /\ (<<new, h>> \in R <=> <<g, h>> \in order)
  <2>1. <<h, new>> \notin order /\ <<new, h>> \notin order
    BY <1>2
  <2>2. <<h, new>> # c /\ <<new, h>> # c
    BY <1>5, <1>8
  <2> QED BY <1>3, <1>4, <1>9, <2>1, <2>2
<1>13. (<<g, new>> \in R <=> <<new, g>> \notin R) /\ <<new, new>> \notin R
  <2>1. <<g, new>> \notin order /\ <<new, g>> \notin order /\ <<new, new>> \notin order
    BY <1>2
  <2>2. <<g, new>> \notin A /\ <<new, g>> \notin A /\ <<new, new>> \notin A
    BY <1>2, <1>3, <1>8
  <2>3. <<g, new>> \notin B /\ <<new, g>> \notin B /\ <<new, new>> \notin B
    BY <1>2, <1>4, <1>8
  <2>4. <<new, new>> # c /\ (<<g, new>> = c <=> <<new, g>> # c)
    BY <1>5, <1>8
  <2> QED BY <1>9, <2>1, <2>2, <2>3, <2>4
<1> QED BY <1>10, <1>11, <1>12, <1>13 DEF R

LEMMA SplitOrdered ==
  ASSUME Nested(splits, Live), Ordered(splits, order, Live),
         NEW g \in Live, NEW side, NEW new, new \notin Live
  PROVE  Ordered(SplitGroup(g, side, new), Beside(g, side, new), Live \cup {new})
<1> DEFINE R == Beside(g, side, new)
           G == Live \cup {new}
<1>1. Total(order, Live)
  BY DEF Ordered
<1>2. /\ R \subseteq G \X G
      /\ \A h, k \in Live : <<h, k>> \in R <=> <<h, k>> \in order
      /\ \A h \in Live \ {g} : /\ <<h, new>> \in R <=> <<h, g>> \in order
                               /\ <<new, h>> \in R <=> <<g, h>> \in order
      /\ <<g, new>> \in R <=> <<new, g>> \notin R
      /\ <<new, new>> \notin R
  BY <1>1, BesideIs
<1>3. g # new
  OBVIOUS
<1> HIDE DEF R
<1>4. /\ \A h, k \in Live : <<h, k>> \in order <=> (h # k /\ <<k, h>> \notin order)
      /\ \A h, k, l \in Live : <<h, k>> \in order /\ <<k, l>> \in order => <<h, l>> \in order
  BY <1>1 DEF Total
<1>5. ASSUME NEW h \in G, NEW k \in G PROVE <<h, k>> \in R <=> (h # k /\ <<k, h>> \notin R)
  <2>1. CASE h \in Live /\ k \in Live
    BY <1>2, <1>4, <2>1
  <2>2. CASE h = new /\ k = new
    BY <1>2, <2>2
  <2>3. CASE h = new /\ k \in Live
    BY <1>2, <1>3, <1>4, <2>3
  <2>4. CASE h \in Live /\ k = new
    BY <1>2, <1>3, <1>4, <2>4
  <2> QED BY <2>1, <2>2, <2>3, <2>4
<1>6. ASSUME NEW h \in G, NEW k \in G, NEW l \in G, <<h, k>> \in R, <<k, l>> \in R
      PROVE  <<h, l>> \in R
  <2>1. h # k /\ k # l
    BY <1>5, <1>6
  <2>2. CASE h \in Live /\ k \in Live /\ l \in Live
    BY <1>2, <1>4, <1>6, <2>2
  <2>3. CASE h = new
    <3>1. k \in Live
      BY <2>1, <2>3
    <3>2. CASE l = new
      BY <1>5, <1>6, <2>3, <3>2
    <3>3. CASE l \in Live /\ k = g
      <4>1. l # g /\ <<g, l>> \in order
        BY <1>2, <1>6, <2>1, <3>3
      <4> QED BY <1>2, <2>3, <3>3, <4>1
    <3>4. CASE l \in Live /\ k # g
      <4>1. <<g, k>> \in order /\ <<k, l>> \in order
        BY <1>2, <1>6, <2>3, <3>1, <3>4
      <4>2. <<g, l>> \in order /\ l # g
        BY <1>4, <3>1, <3>4, <4>1
      <4> QED BY <1>2, <2>3, <3>4, <4>2
    <3> QED BY <3>2, <3>3, <3>4
  <2>4. CASE h \in Live /\ k = new
    <3>1. l \in Live
      BY <2>1, <2>4
    <3>2. CASE h = g /\ l = g
      BY <1>5, <1>6, <2>4, <3>2
    <3>3. CASE h = g /\ l # g
      BY <1>2, <1>6, <2>4, <3>1, <3>3
    <3>4. CASE h # g /\ l = g
      BY <1>2, <1>6, <2>4, <3>1, <3>4
    <3>5. CASE h # g /\ l # g
      <4>1. <<h, g>> \in order /\ <<g, l>> \in order
        BY <1>2, <1>6, <2>4, <3>1, <3>5
      <4> QED BY <1>2, <1>4, <2>4, <3>1, <4>1
    <3> QED BY <3>2, <3>3, <3>4, <3>5
  <2>5. CASE h \in Live /\ k \in Live /\ l = new
    <3>1. CASE k = g
      <4>1. h # g /\ <<h, g>> \in order
        BY <1>2, <1>6, <2>1, <2>5, <3>1
      <4> QED BY <1>2, <2>5, <4>1
    <3>2. CASE k # g
      <4>1. <<h, k>> \in order /\ <<k, g>> \in order
        BY <1>2, <1>6, <2>5, <3>2
      <4>2. <<h, g>> \in order /\ h # g
        BY <1>4, <2>5, <4>1
      <4> QED BY <1>2, <2>5, <4>2
    <3> QED BY <3>1, <3>2
  <2> QED BY <2>2, <2>3, <2>4, <2>5
<1>7. Total(R, G)
  BY <1>2, <1>5, <1>6 DEF Total
<1>8. ASSUME NEW q \in SplitGroup(g, side, new), NEW h \in q.groups, NEW k \in q.groups,
             NEW l \in G \ q.groups, <<h, l>> \in R
      PROVE  <<k, l>> \in R
  <2>1. \/ q = Split(Orientation(side), {g, new})
        \/ \E s \in splits : q = IF Below(s, g) THEN Split(s.dir, s.groups \cup {new}) ELSE s
    BY DEF SplitGroup
  <2>2. CASE q = Split(Orientation(side), {g, new})
    <3>1. q.groups = {g, new} /\ l \in Live \ {g}
      BY <2>2, SplitIs
    <3> QED BY <1>2, <1>8, <3>1
  <2>3. ASSUME NEW s \in splits,
               q = IF Below(s, g) THEN Split(s.dir, s.groups \cup {new}) ELSE s
        PROVE  <<k, l>> \in R
    <3>1. s.groups \subseteq Live
      BY DEF Nested
    <3>2. \A a, b \in s.groups : \A c \in Live \ s.groups : <<a, c>> \in order => <<b, c>> \in order
      BY DEF Ordered
    <3>3. CASE g \in s.groups
      <4>1. q.groups = s.groups \cup {new} /\ l \in Live \ s.groups /\ l # g
        BY <2>3, <3>3, SplitIs DEF Below
      <4>2. \A a \in q.groups : <<a, l>> \in R <=> (IF a = new THEN <<g, l>> \in order ELSE <<a, l>> \in order)
        BY <1>2, <3>1, <4>1
      <4>3. \E a \in s.groups : <<a, l>> \in order
        BY <1>8, <3>3, <4>1, <4>2
      <4>4. \A b \in s.groups : <<b, l>> \in order
        BY <3>2, <4>1, <4>3
      <4> QED BY <3>3, <4>1, <4>2, <4>4
    <3>4. CASE g \notin s.groups
      <4>1. q = s
        BY <2>3, <3>4 DEF Below
      <4>2. h \in Live /\ k \in Live /\ h # g /\ k # g /\ h \in s.groups /\ k \in s.groups
        BY <3>1, <3>4, <4>1
      <4>3. CASE l = new
        BY <1>2, <1>8, <3>2, <3>4, <4>2, <4>3
      <4>4. CASE l \in Live
        BY <1>2, <1>8, <3>2, <4>1, <4>2, <4>4
      <4> QED BY <4>3, <4>4
    <3> QED BY <3>3, <3>4
  <2> QED BY <2>1, <2>2, <2>3
<1>9. Ordered(SplitGroup(g, side, new), R, G)
  BY <1>7, <1>8 DEF Ordered
<1> QED BY <1>9 DEF R

\* A group at the edge of the tree.
LEMMA EdgeNested ==
  ASSUME Nested(splits, Live), Live # {}, NEW new, new \notin Live
  PROVE  Nested(PlaceTabAtEdge(new), Live \cup {new})
<1> DEFINE root == Split("row", Live \cup {new})
           S == PlaceTabAtEdge(new)
           G == Live \cup {new}
           Apart(p, q) ==
             \/ p = q
             \/ p.groups # q.groups /\ (p.groups \subseteq q.groups \/ q.groups \subseteq p.groups)
             \/ p.groups \cap q.groups = {}
<1>1. root.dir = "row" /\ root.groups = G
  BY SplitIs
<1>2. root \in S /\ \A q \in S : q = root \/ q \in splits
  BY DEF PlaceTabAtEdge
<1> HIDE DEF root, S
<1>3. ASSUME NEW s \in splits
      PROVE  /\ s.dir \in {"row", "column"} /\ s.groups \subseteq Live
             /\ \E g, h \in s.groups : g # h
             /\ s.groups \subseteq root.groups /\ s.groups # root.groups
  <2>1. /\ s.dir \in {"row", "column"} /\ s.groups \subseteq Live
        /\ \E g, h \in s.groups : g # h
    BY DEF Nested
  <2>2. new \notin s.groups /\ new \in root.groups
    BY <1>1, <2>1
  <2> QED BY <1>1, <2>1, <2>2
<1>4. ASSUME NEW q \in S
      PROVE  /\ q.dir \in {"row", "column"} /\ q.groups \subseteq G
             /\ \E g, h \in q.groups : g # h
  <2>1. CASE q = root
    <3>1. PICK g \in Live : g # new
      OBVIOUS
    <3> QED BY <1>1, <2>1, <3>1
  <2>2. CASE q \in splits
    BY <1>3, <2>2
  <2> QED BY <1>2, <2>1, <2>2
<1>5. ASSUME NEW p \in S, NEW q \in S PROVE Apart(p, q)
  <2>1. CASE p \in splits /\ q \in splits
    BY <2>1 DEF Nested
  <2>2. CASE p = root /\ q = root
    BY <2>2
  <2>3. CASE p = root /\ q \in splits
    BY <1>3, <2>3
  <2>4. CASE p \in splits /\ q = root
    BY <1>3, <2>4
  <2> QED BY <1>2, <2>1, <2>2, <2>3, <2>4
<1>6. \E q \in S : q.groups = G
  BY <1>1, <1>2
<1>7. Nested(S, G)
  BY <1>4, <1>5, <1>6 DEF Nested
<1> QED BY <1>7 DEF S

LEMMA EdgeOrdered ==
  ASSUME Nested(splits, Live), Ordered(splits, order, Live),
         NEW side, NEW new, new \notin Live
  PROVE  Ordered(PlaceTabAtEdge(new), Edge(side, new), Live \cup {new})
<1> DEFINE R == Edge(side, new)
           G == Live \cup {new}
<1>1. /\ order \subseteq Live \X Live
      /\ \A h, k \in Live : <<h, k>> \in order <=> (h # k /\ <<k, h>> \notin order)
      /\ \A h, k, l \in Live : <<h, k>> \in order /\ <<k, l>> \in order => <<h, l>> \in order
  BY DEF Ordered, Total
<1>2. /\ R \subseteq G \X G
      /\ \A h, k \in Live : <<h, k>> \in R <=> <<h, k>> \in order
      /\ \A h \in Live : /\ <<h, new>> \in R <=> side = "right"
                         /\ <<new, h>> \in R <=> side # "right"
      /\ <<new, new>> \notin R
  <2>1. CASE side = "right"
    <3>1. R = order \cup (Live \X {new})
      BY <2>1 DEF Edge
    <3> HIDE DEF R
    <3>2. \A h, k : <<h, k>> \in R <=> <<h, k>> \in order \/ (h \in Live /\ k = new)
      BY <3>1
    <3>3. R \subseteq G \X G
      BY <1>1, <3>1
    <3>4. \A h : <<new, h>> \notin order /\ <<h, new>> \notin order
      BY <1>1
    <3> QED BY <2>1, <3>2, <3>3, <3>4
  <2>2. CASE side # "right"
    <3>1. R = order \cup ({new} \X Live)
      BY <2>2 DEF Edge
    <3> HIDE DEF R
    <3>2. \A h, k : <<h, k>> \in R <=> <<h, k>> \in order \/ (h = new /\ k \in Live)
      BY <3>1
    <3>3. R \subseteq G \X G
      BY <1>1, <3>1
    <3>4. \A h : <<new, h>> \notin order /\ <<h, new>> \notin order
      BY <1>1
    <3> QED BY <2>2, <3>2, <3>3, <3>4
  <2> QED BY <2>1, <2>2
<1> HIDE DEF R
<1>3. ASSUME NEW h \in G, NEW k \in G PROVE <<h, k>> \in R <=> (h # k /\ <<k, h>> \notin R)
  <2>1. CASE h \in Live /\ k \in Live
    BY <1>1, <1>2, <2>1
  <2>2. CASE h = new /\ k = new
    BY <1>2, <2>2
  <2>3. CASE h = new /\ k \in Live
    BY <1>2, <2>3
  <2>4. CASE h \in Live /\ k = new
    BY <1>2, <2>4
  <2> QED BY <2>1, <2>2, <2>3, <2>4
<1>4. ASSUME NEW h \in G, NEW k \in G, NEW l \in G, <<h, k>> \in R, <<k, l>> \in R
      PROVE  <<h, l>> \in R
  <2>1. CASE h \in Live /\ k \in Live /\ l \in Live
    BY <1>1, <1>2, <1>4, <2>1
  <2>2. CASE h = new
    BY <1>2, <1>4, <2>2
  <2>3. CASE l = new
    BY <1>2, <1>4, <2>3
  <2>4. CASE h \in Live /\ k = new /\ l \in Live
    BY <1>2, <1>4, <2>4
  <2> QED BY <2>1, <2>2, <2>3, <2>4
<1>5. Total(R, G)
  BY <1>2, <1>3, <1>4 DEF Total
<1>6. ASSUME NEW q \in PlaceTabAtEdge(new), NEW h \in q.groups, NEW k \in q.groups,
             NEW l \in G \ q.groups, <<h, l>> \in R
      PROVE  <<k, l>> \in R
  <2>1. q = Split("row", Live \cup {new}) \/ q \in splits
    BY DEF PlaceTabAtEdge
  <2>2. CASE q = Split("row", Live \cup {new})
    BY <2>2, SplitIs
  <2>3. CASE q \in splits
    <3>1. q.groups \subseteq Live
      BY <2>3 DEF Nested
    <3>2. l \in Live \ q.groups => (<<h, l>> \in order => <<k, l>> \in order)
      BY <2>3 DEF Ordered
    <3>3. CASE l = new
      BY <1>2, <1>6, <3>1, <3>3
    <3>4. CASE l \in Live
      BY <1>2, <1>6, <3>1, <3>2, <3>4
    <3> QED BY <3>3, <3>4
  <2> QED BY <2>1, <2>2, <2>3
<1>7. Ordered(PlaceTabAtEdge(new), R, G)
  BY <1>5, <1>6 DEF Ordered
<1> QED BY <1>7 DEF R

-----------------------------------------------------------------------------

(***************************************************************************)
(* The invariant: that of EditorPanes, and the tree.                       *)
(***************************************************************************)

TreeInv ==
  /\ Nested(splits, Live) /\ Ordered(splits, order, Live)
  /\ \A g \in Live : IsInjective(panes[g].tabs)
  /\ Live = {} => drag = NoPane /\ asking = NoPane

Inv == Abs!TypeInv /\ TreeInv

LEMMA InvFacts ==
  ASSUME Inv
  PROVE  /\ Live \subseteq Groups /\ Groups = 1 .. MaxGroups /\ MaxGroups \in Nat
         /\ \A g \in Live : Row(panes[g])
         /\ IF Live = {} THEN focus = 0 ELSE focus \in Live
         /\ \A g \in Live : Held(panes[g]) = {} => Live = {g}
         /\ tabs \subseteq Tab /\ losable \subseteq tabs
         /\ \A t \in Tab : t \in tabs <=> \E g \in Live : t \in Held(panes[g])
         /\ drag \in Abs!Place /\ asking \in Abs!Place
         /\ Nested(splits, Live) /\ Ordered(splits, order, Live) /\ Total(order, Live)
<1>1. /\ Live \subseteq Groups /\ \A g \in Live : panes[g] \in Abs!PaneRow
      /\ tabs \subseteq Tab /\ losable \subseteq tabs
      /\ drag \in Abs!Place /\ asking \in Abs!Place
  BY DEF Inv, Abs!TypeInv, Abs!TypeOK, Abs!Rows, Live
<1>2. /\ IF Live = {} THEN focus = 0 ELSE focus \in Live
      /\ \A g \in Live : IF Held(panes[g]) = {} THEN panes[g].active = NoTab /\ Live = {g}
                         ELSE panes[g].active \in Held(panes[g])
  BY SameHeld DEF Inv, Abs!TypeInv, Abs!PanesSound, Abs!Sound, Abs!Live, Live
<1>3. \A t \in Tab : t \in tabs <=> \E g \in Live : t \in Held(panes[g])
  BY SameHeld DEF Inv, Abs!TypeInv, Abs!OpenIffShown, Abs!ShownIn, Live
<1>4. \A g \in Live : Row(panes[g])
  BY <1>1, <1>2 DEF Row, Inv, TreeInv
<1>5. Nested(splits, Live) /\ Ordered(splits, order, Live) /\ Total(order, Live)
  BY DEF Inv, TreeInv, Ordered
<1>6. Groups = 1 .. MaxGroups /\ MaxGroups \in Nat
  BY MaxGroupsAssumption DEF Groups
<1> QED BY <1>1, <1>2, <1>3, <1>4, <1>5, <1>6

\* The tree and the panes after a step.
LEMMA TreeAfter ==
  ASSUME Nested(splits', Live'), Ordered(splits', order', Live'),
         \A g \in Live' : Row(panes'[g]), Live' # {}
  PROVE  TreeInv'
<1>1. \A g \in Live' : IsInjective(panes'[g].tabs)
  BY DEF Row
<1> QED BY <1>1 DEF TreeInv, Live

\* Rows of panes.
LEMMA RowsAre ==
  ASSUME NEW P, DOMAIN P \subseteq Groups, P = [g \in DOMAIN P |-> P[g]],
         \A g \in DOMAIN P : Row(P[g])
  PROVE  Abs!Rows(P)
<1>1. \A g \in DOMAIN P : P[g] \in Abs!PaneRow
  BY DEF Row
<1> QED BY <1>1 DEF Abs!Rows

\* The new group is one.
LEMMA FreshIs ==
  /\ Abs!Fresh = FreshGroups
  /\ FreshGroups # {} => FreshGroup \in FreshGroups
  /\ Inv /\ Live = {} => FreshGroups # {}
<1>1. Abs!Fresh = FreshGroups
  BY DEF Abs!Fresh, FreshGroups, Abs!Live, Live
<1>2. ASSUME FreshGroups # {} PROVE FreshGroup \in FreshGroups
  <2>1. FreshGroups \in SUBSET Nat
    BY MaxGroupsAssumption DEF FreshGroups, Groups
  <2>2. \E g \in FreshGroups : \A h \in FreshGroups : g <= h
    BY <1>2, <2>1, Least
  <2> QED BY <2>2 DEF FreshGroup
<1>3. ASSUME Inv, Live = {} PROVE FreshGroups # {}
  <2>1. focus = 0 /\ drag = NoPane /\ asking = NoPane
    BY <1>3, InvFacts DEF Inv, TreeInv
  <2>2. 1 \in Groups /\ 1 # 0
    BY MaxGroupsAssumption DEF Groups
  <2>3. 1 \in FreshGroups
    BY <1>3, <2>1, <2>2 DEF FreshGroups, NoPane
  <2> QED BY <2>3
<1> QED BY <1>1, <1>2, <1>3

\* What Tidied makes of panes P that have lost tabs of B.
LEMMA TidiedIs ==
  ASSUME Inv, Live # {}, NEW P, DOMAIN P = Live, NEW B, DOMAIN B = Live, NEW lost,
         \A g \in Live : Loses(B[g], lost[g], P[g]), Tidied(P)
  PROVE  /\ Abs!Shrinks(B, lost, panes')
         /\ Live' \subseteq Live /\ Live' \subseteq Groups /\ Live' # {}
         /\ Total(order', Live')
         /\ TreeInv'
<1> DEFINE G == Remaining(P)
           full == {g \in Live : P[g].tabs # <<>>}
           left == {g \in Live : ~(Held(B[g]) \subseteq lost[g])}
<1>1. /\ Live \subseteq Groups /\ Groups = 1 .. MaxGroups /\ MaxGroups \in Nat
      /\ Nested(splits, Live) /\ Ordered(splits, order, Live) /\ Total(order, Live)
  BY InvFacts
<1>2. \A g \in Live : Row(P[g]) /\ Held(P[g]) = Held(B[g]) \ lost[g]
  BY DEF Loses
<1>3. full = left
  <2>1. \A g \in Live : P[g].tabs # <<>> <=> Held(P[g]) # {}
    BY <1>2, RowFacts DEF Row
  <2> QED BY <1>2, <2>1
<1>4. FirstGroup(Live, order) \in Live
  BY <1>1, FirstIsThere
<1>5. G = IF full = {} THEN {FirstGroup(Live, order)} ELSE full
  BY DEF Remaining
<1>6. G \subseteq Live /\ G # {}
  BY <1>4, <1>5
<1>7. /\ panes' = [g \in G |-> P[g]] /\ Live' = G
      /\ splits' = Normalized(G) /\ order' = order \cap (G \X G)
  <2>1. /\ panes' = [g \in G |-> P[g]]
        /\ splits' = Normalized(G) /\ order' = order \cap (G \X G)
    BY DEF Tidied
  <2> HIDE DEF G
  <2>2. Live' = G
    BY <2>1 DEF Live
  <2> QED BY <2>1, <2>2
<1> HIDE DEF G, full, left
<1>8. \A g \in G : panes'[g] = P[g] /\ Row(panes'[g])
  BY <1>2, <1>6, <1>7
<1>9. Nested(splits', Live') /\ Ordered(splits', order', Live')
  <2>1. Live \subseteq 1 .. MaxGroups /\ MaxGroups \in Nat
    BY <1>1
  <2>2. Nested(Normalized(G), G)
    BY <1>1, <1>6, <2>1, NormalizedNested
  <2>3. Ordered(Normalized(G), order \cap (G \X G), G)
    BY <1>1, <1>6, NormalizedOrdered
  <2> QED BY <1>7, <2>2, <2>3
<1>10. TreeInv'
  BY <1>6, <1>7, <1>8, <1>9, TreeAfter
<1>11. Abs!Rows(panes')
  <2>1. DOMAIN panes' = G
    BY <1>7
  <2>2. panes' = [g \in DOMAIN panes' |-> panes'[g]]
    BY <1>7
  <2>3. DOMAIN panes' \subseteq Groups /\ \A g \in DOMAIN panes' : Row(panes'[g])
    BY <1>1, <1>6, <1>8, <2>1
  <2> HIDE DEF Groups
  <2> QED BY <2>2, <2>3, RowsAre
<1>12. Abs!Shrinks(B, lost, panes')
  <2>1. left = {g \in DOMAIN B : ~(Abs!Held(B[g]) \subseteq lost[g])}
    BY SameHeld DEF left
  <2>2. IF left = {} THEN \E g \in DOMAIN B : DOMAIN panes' = {g} ELSE DOMAIN panes' = left
    BY <1>3, <1>4, <1>5, <1>7
  <2>3. ASSUME NEW g \in DOMAIN panes'
        PROVE  /\ Abs!Held(panes'[g]) = Abs!Held(B[g]) \ lost[g]
               /\ Abs!ActiveAfter(B[g], lost[g], panes'[g])
    <3>1. g \in Live /\ panes'[g] = P[g]
      BY <1>6, <1>7, <1>8
    <3>2. Abs!ActiveAfter(B[g], lost[g], P[g])
      BY <3>1, LosesActive
    <3> QED BY <1>2, <3>1, <3>2, SameHeld
  <2> QED BY <1>11, <2>1, <2>2, <2>3 DEF Abs!Shrinks
<1>13. Total(order', Live')
  BY <1>9 DEF Ordered
<1> QED BY <1>1, <1>6, <1>7, <1>10, <1>12, <1>13

\* The focus after a close.
LEMMA FocusAfterIs ==
  ASSUME Live' \subseteq Groups, Live' # {}, Total(order', Live'), FocusAfter
  PROVE  Abs!Refocus
<1>1. Live' \subseteq 1 .. MaxGroups /\ MaxGroups \in Nat
  BY MaxGroupsAssumption DEF Groups
<1>2. FirstGroup(Live', order') \in Live'
  BY <1>1, FirstIsThere
<1>3. Live' = DOMAIN panes'
  BY DEF Live
<1> QED BY <1>2, <1>3 DEF FocusAfter, Abs!Refocus

-----------------------------------------------------------------------------

(***************************************************************************)
(* Every action does what its counterpart of EditorPanes does, and keeps   *)
(* the tree.                                                               *)
(***************************************************************************)

\* A row that takes t in at its end, or that turns to it.
LEMMA AppendRow ==
  ASSUME NEW x, Row(x), NEW t \in Tab, t \notin Held(x)
  PROVE  LET y == [tabs |-> Append(x.tabs, t), active |-> t]
         IN Row(y) /\ Held(y) = Held(x) \cup {t} /\ y.active = t
<1> DEFINE s == x.tabs
           a == Append(s, t)
<1>1. s \in Seq(Tab) /\ IsInjective(s) /\ Held(x) = ToSet(s)
  BY RowFacts DEF Row, Held
<1>2. /\ a \in Seq(Tab) /\ Len(a) = Len(s) + 1 /\ a[Len(s) + 1] = t
      /\ \A i \in 1 .. Len(s) : a[i] = s[i]
  BY <1>1, AppendProperties
<1>3. Len(s) \in Nat /\ DOMAIN s = 1 .. Len(s) /\ DOMAIN a = 1 .. Len(s) + 1
  BY <1>1, <1>2, LenProperties
<1> HIDE DEF a
<1>4. \A i \in 1 .. Len(s) + 1 : i \in 1 .. Len(s) \/ i = Len(s) + 1
  BY <1>3
<1>5. \A i \in 1 .. Len(s) : i \in 1 .. Len(s) + 1 /\ s[i] # t
  BY <1>1, <1>3 DEF ToSet
<1>6. Len(s) + 1 \in 1 .. Len(s) + 1
  BY <1>3
<1>7. IsInjective(a)
  <2>1. \A i, j \in 1 .. Len(s) : s[i] = s[j] => i = j
    BY <1>1, <1>3 DEF IsInjective
  <2> SUFFICES ASSUME NEW i \in 1 .. Len(s) + 1, NEW j \in 1 .. Len(s) + 1, a[i] = a[j]
               PROVE  i = j
    BY <1>3 DEF IsInjective
  <2> QED BY <1>2, <1>4, <1>5, <2>1
<1>8. ToSet(a) = ToSet(s) \cup {t}
  <2>1. \A i \in 1 .. Len(s) + 1 : a[i] \in ToSet(s) \cup {t}
    BY <1>2, <1>3, <1>4 DEF ToSet
  <2>2. \A i \in 1 .. Len(s) : s[i] \in ToSet(a)
    BY <1>2, <1>3, <1>5 DEF ToSet
  <2>3. t \in ToSet(a)
    BY <1>2, <1>3, <1>6 DEF ToSet
  <2> QED BY <1>3, <2>1, <2>2, <2>3 DEF ToSet
<1>9. t \in ToSet(a)
  BY <1>8
<1> QED BY <1>1, <1>2, <1>7, <1>8, <1>9, TurnedRow DEF a

LEMMA ActiveRow ==
  ASSUME NEW x, Row(x), NEW t \in Held(x)
  PROVE  LET y == [x EXCEPT !.active = t]
         IN Row(y) /\ Held(y) = Held(x) /\ y.active = t
<1>1. x \in Abs!PaneRow /\ x.tabs \in Seq(Tab) /\ IsInjective(x.tabs) /\ Held(x) = ToSet(x.tabs)
  BY RowFacts DEF Row, Held
<1>2. [x EXCEPT !.active = t] = [tabs |-> x.tabs, active |-> t]
  BY <1>1 DEF Abs!PaneRow
<1> QED BY <1>1, <1>2, TurnedRow

LEMMA NewRow ==
  ASSUME NEW t \in Tab
  PROVE  /\ Pane(<<t>>) = [tabs |-> <<t>>, active |-> t]
         /\ [tabs |-> Append(<<>>, t), active |-> t] = [tabs |-> <<t>>, active |-> t]
         /\ LET y == [tabs |-> <<t>>, active |-> t]
            IN Row(y) /\ Held(y) = {t} /\ y.active = t
<1>1. <<t>> \in Seq(Tab) /\ Len(<<t>>) = 1 /\ <<t>>[1] = t /\ <<t>> # <<>> /\ DOMAIN <<t>> = 1 .. 1
  OBVIOUS
<1>2. IsInjective(<<t>>)
  BY <1>1 DEF IsInjective
<1>3. ToSet(<<t>>) = {t}
  BY <1>1 DEF ToSet
<1>4. Pane(<<t>>) = [tabs |-> <<t>>, active |-> t]
  BY <1>1 DEF Pane, Last
<1>5. Append(<<>>, t) = <<t>>
  OBVIOUS
<1> QED BY <1>1, <1>2, <1>3, <1>4, <1>5, TurnedRow

\* Q is With(P, g, t) but for the order of tabs.
LEMMA AlikeWith ==
  ASSUME NEW P, NEW g \in Groups, NEW t, NEW Q,
         DOMAIN P \subseteq Groups, DOMAIN Q = DOMAIN P \cup {g},
         Q = [h \in DOMAIN Q |-> Q[h]],
         \A h \in DOMAIN Q : Row(Q[h]),
         \A h \in DOMAIN P \ {g} : Held(Q[h]) = Held(P[h]) /\ Q[h].active = P[h].active,
         Held(Q[g]) = {t} \cup (IF g \in DOMAIN P THEN Held(P[g]) ELSE {}),
         Q[g].active = t,
         g \in DOMAIN P => P[g].tabs \in Seq(Tab),
         t \in Tab
  PROVE  Abs!Alike(Abs!With(P, g, t), Q)
<1> DEFINE W == Abs!With(P, g, t)
<1>1. /\ DOMAIN W = DOMAIN P \cup {g}
      /\ \A h \in DOMAIN P \ {g} : W[h] = P[h]
      /\ W[g] = [tabs |-> IF g \in DOMAIN P THEN Append(P[g].tabs, t) ELSE <<t>>, active |-> t]
  BY DEF Abs!With
<1>2. Held(W[g]) = {t} \cup (IF g \in DOMAIN P THEN Held(P[g]) ELSE {}) /\ W[g].active = t
  <2>1. CASE g \in DOMAIN P
    <3> DEFINE s == P[g].tabs
               a == Append(s, t)
    <3>1. W[g].tabs = a /\ W[g].active = t
      BY <1>1, <2>1
    <3>2. /\ a \in Seq(Tab) /\ Len(a) = Len(s) + 1 /\ a[Len(s) + 1] = t
          /\ \A i \in 1 .. Len(s) : a[i] = s[i]
      BY <2>1, AppendProperties
    <3>3. Len(s) \in Nat /\ DOMAIN s = 1 .. Len(s) /\ DOMAIN a = 1 .. Len(s) + 1
      BY <2>1, <3>2, LenProperties
    <3> HIDE DEF a, s
    <3>4. \A i \in 1 .. Len(s) + 1 : i \in 1 .. Len(s) \/ i = Len(s) + 1
      BY <3>3
    <3>5. /\ \A i \in 1 .. Len(s) : i \in 1 .. Len(s) + 1
          /\ Len(s) + 1 \in 1 .. Len(s) + 1
      BY <3>3
    <3>6. ToSet(a) \subseteq {t} \cup ToSet(s)
      BY <3>2, <3>3, <3>4 DEF ToSet
    <3>7. ToSet(s) \subseteq ToSet(a)
      BY <3>2, <3>3, <3>5 DEF ToSet
    <3>8. t \in ToSet(a)
      BY <3>2, <3>3, <3>5 DEF ToSet
    <3> QED BY <2>1, <3>1, <3>6, <3>7, <3>8 DEF Held, s
  <2>2. CASE g \notin DOMAIN P
    <3>1. W[g] = [tabs |-> <<t>>, active |-> t]
      BY <1>1, <2>2
    <3> QED BY <2>2, <3>1, NewRow
  <2> QED BY <2>1, <2>2
<1> HIDE DEF W
<1>3. \A h \in DOMAIN Q : Held(Q[h]) = Held(W[h]) /\ Q[h].active = W[h].active
  <2> SUFFICES ASSUME NEW h \in DOMAIN Q PROVE Held(Q[h]) = Held(W[h]) /\ Q[h].active = W[h].active
    OBVIOUS
  <2>1. CASE h = g
    BY <1>2, <2>1
  <2>2. CASE h # g
    <3>1. h \in DOMAIN P \ {g}
      BY <2>2
    <3> QED BY <1>1, <3>1
  <2> QED BY <2>1, <2>2
<1>4. DOMAIN Q \subseteq Groups
  OBVIOUS
<1>5. Abs!Rows(Q)
  <2> HIDE DEF Groups
  <2> QED BY <1>4, RowsAre
<1>6. DOMAIN Q = DOMAIN W
  BY <1>1
<1>7. Abs!Alike(W, Q)
  BY <1>3, <1>5, <1>6, SameHeld DEF Abs!Alike
<1> QED BY <1>7 DEF W

\* The layout made on demand, and the group a tab goes to.
LEMMA EnsuredIs ==
  ASSUME Inv
  PROVE  /\ EnsuredGroup \in Groups /\ Abs!Target(EnsuredGroup)
         /\ DOMAIN EnsuredPanes = Live \cup {EnsuredGroup}
         /\ EnsuredPanes = [h \in DOMAIN EnsuredPanes |-> EnsuredPanes[h]]
         /\ \A h \in DOMAIN EnsuredPanes : Row(EnsuredPanes[h])
         /\ \A h \in Live : EnsuredPanes[h] = panes[h]
         /\ EnsuredGroup \notin Live => Live = {} /\ Held(EnsuredPanes[EnsuredGroup]) = {}
         /\ Nested(splits, Live \cup {EnsuredGroup})
         /\ Ordered(splits, order, Live \cup {EnsuredGroup})
<1>1. /\ Live \subseteq Groups /\ \A g \in Live : Row(panes[g])
      /\ IF Live = {} THEN focus = 0 ELSE focus \in Live
      /\ Nested(splits, Live) /\ Ordered(splits, order, Live)
  BY InvFacts
<1>2. panes = [h \in Live |-> panes[h]]
  BY DEF Inv, Abs!TypeInv, Abs!TypeOK, Abs!Rows, Live
<1>3. CASE Live # {}
  <2>1. EnsuredGroup = focus /\ EnsuredPanes = panes /\ Live \cup {EnsuredGroup} = Live
    BY <1>1, <1>3 DEF EnsuredGroup, EnsuredPanes
  <2>2. Abs!Target(focus)
    BY <1>1, <1>3 DEF Abs!Target, Abs!Live, Live
  <2>3. DOMAIN EnsuredPanes = Live
    BY <2>1 DEF Live
  <2> QED BY <1>1, <1>2, <1>3, <2>1, <2>2, <2>3
<1>4. CASE Live = {}
  <2> DEFINE f == FreshGroup
             E == [h \in {f} |-> Pane(<<>>)]
  <2>1. f \in FreshGroups /\ f \in Groups
    BY <1>4, FreshIs DEF FreshGroups
  <2>2. EnsuredGroup = f /\ EnsuredPanes = E
    BY <1>4 DEF EnsuredGroup, EnsuredPanes
  <2>3. Abs!Target(f)
    BY <1>4, <2>1, FreshIs DEF Abs!Target, Abs!Live, Live
  <2>4. DOMAIN E = {f} /\ E[f] = [tabs |-> <<>>, active |-> NoTab]
    BY DEF Pane
  <2>5. Row(E[f]) /\ Held(E[f]) = {}
    <3>1. <<>> \in Seq(Tab) /\ ToSet(<<>>) = {} /\ IsInjective(<<>>)
      BY DEF ToSet, IsInjective
    <3> DEFINE y == [tabs |-> <<>>, active |-> NoTab]
    <3>2. y \in Abs!PaneRow /\ Held(y) = {}
      BY <3>1, RowFacts
    <3>3. y.tabs = <<>> /\ y.active = NoTab
      OBVIOUS
    <3> HIDE DEF y
    <3>4. Row(y)
      BY <3>1, <3>2, <3>3 DEF Row
    <3> QED BY <2>4, <3>2, <3>4 DEF y
  <2>6. splits = {} /\ order = {}
    <3>1. \A s \in splits : s.groups \subseteq Live /\ \E g \in s.groups : TRUE
      BY <1>1 DEF Nested
    <3>2. order \subseteq Live \X Live
      BY <1>1 DEF Ordered, Total
    <3> QED BY <1>4, <3>1, <3>2
  <2>7. Nested(splits, {f})
    BY <2>6 DEF Nested
  <2>8. Ordered(splits, order, {f})
    BY <2>6 DEF Ordered, Total
  <2>9. Live \cup {f} = {f} /\ f \notin Live
    BY <1>4
  <2> HIDE DEF f
  <2>10. E = [h \in DOMAIN E |-> E[h]]
    OBVIOUS
  <2> HIDE DEF E
  <2> QED BY <1>4, <2>1, <2>2, <2>3, <2>4, <2>5, <2>7, <2>8, <2>9, <2>10
<1> QED BY <1>3, <1>4

LEMMA AddTabIs ==
  ASSUME NEW P, P = [h \in DOMAIN P |-> P[h]], \A h \in DOMAIN P : Row(P[h]),
         NEW f \in DOMAIN P, NEW t \in Tab
  PROVE  LET A == AddTab(P, f, t)
         IN /\ DOMAIN A = DOMAIN P /\ A = [h \in DOMAIN A |-> A[h]]
            /\ \A h \in DOMAIN P \ {f} : A[h] = P[h]
            /\ Row(A[f]) /\ Held(A[f]) = Held(P[f]) \cup {t}
            /\ t \notin Held(P[f]) => A[f].active = t
<1> DEFINE A == AddTab(P, f, t)
           x == P[f]
<1>1. Row(x)
  OBVIOUS
<1>2. CASE t \in Held(x)
  <2>1. A = P /\ Held(P[f]) = Held(P[f]) \cup {t}
    BY <1>2 DEF AddTab, Holds
  <2> HIDE DEF A
  <2> QED BY <1>2, <2>1 DEF A
<1>3. CASE t \notin Held(x)
  <2> DEFINE y == [tabs |-> Append(x.tabs, t), active |-> t]
  <2>1. A = [P EXCEPT ![f] = y]
    BY <1>3 DEF AddTab, Holds
  <2>2. Row(y) /\ Held(y) = Held(x) \cup {t} /\ y.active = t
    <3> HIDE DEF x
    <3> QED BY <1>1, <1>3, AppendRow
  <2> HIDE DEF y, A
  <2>3. /\ DOMAIN A = DOMAIN P /\ A[f] = y
        /\ \A h \in DOMAIN P \ {f} : A[h] = P[h]
    BY <2>1
  <2>4. A = [h \in DOMAIN A |-> A[h]]
    BY <2>1
  <2>5. Row(A[f]) /\ Held(A[f]) = Held(P[f]) \cup {t} /\ A[f].active = t
    BY <2>2, <2>3
  <2> QED BY <2>3, <2>4, <2>5 DEF A
<1> QED BY <1>2, <1>3

LEMMA SetActiveIs ==
  ASSUME NEW P, \A h \in DOMAIN P : Row(P[h]), NEW t \in Tab
  PROVE  LET S == SetActive(P, t)
         IN /\ DOMAIN S = DOMAIN P /\ S = [h \in DOMAIN S |-> S[h]]
            /\ \A h \in DOMAIN P :
                 /\ Row(S[h]) /\ Held(S[h]) = Held(P[h])
                 /\ S[h].active = IF t \in Held(P[h]) THEN t ELSE P[h].active
<1> DEFINE S == SetActive(P, t)
<1>1. S = [h \in DOMAIN P |-> IF t \in Held(P[h]) THEN [P[h] EXCEPT !.active = t] ELSE P[h]]
  BY DEF SetActive, Holds
<1> HIDE DEF S
<1>2. DOMAIN S = DOMAIN P /\ S = [h \in DOMAIN S |-> S[h]]
  BY <1>1
<1>3. ASSUME NEW h \in DOMAIN P
      PROVE  /\ Row(S[h]) /\ Held(S[h]) = Held(P[h])
             /\ S[h].active = IF t \in Held(P[h]) THEN t ELSE P[h].active
  <2>1. CASE t \in Held(P[h])
    <3> DEFINE x == P[h]
               y == [x EXCEPT !.active = t]
    <3>1. S[h] = y
      BY <1>1, <2>1
    <3>2. Row(x)
      OBVIOUS
    <3>3. Row(y) /\ Held(y) = Held(x) /\ y.active = t
      <4> HIDE DEF x
      <4> QED BY <2>1, <3>2, ActiveRow DEF x
    <3> QED BY <2>1, <3>1, <3>3
  <2>2. CASE t \notin Held(P[h])
    BY <1>1, <2>2
  <2> QED BY <2>1, <2>2
<1> QED BY <1>2, <1>3 DEF S

LEMMA OpenTabStep ==
  ASSUME Inv, NEW t \in Tab, OpenTab(t)
  PROVE  Abs!OpenTab(t) /\ TreeInv'
<1> DEFINE f == EnsuredGroup
           E == EnsuredPanes
           A == AddTab(E, f, t)
           S == SetActive(A, t)
           T == Abs!Turned(t)
<1>1. /\ f \in Groups /\ Abs!Target(f)
      /\ DOMAIN E = Live \cup {f} /\ E = [h \in DOMAIN E |-> E[h]]
      /\ \A h \in DOMAIN E : Row(E[h])
      /\ \A h \in Live : E[h] = panes[h]
      /\ f \notin Live => Live = {} /\ Held(E[f]) = {}
      /\ Nested(splits, Live \cup {f}) /\ Ordered(splits, order, Live \cup {f})
  BY EnsuredIs
<1>2. /\ panes' = S /\ focus' = f /\ tabs' = tabs \cup {t}
      /\ splits' = splits /\ order' = order
      /\ UNCHANGED <<drag, losable, asking>>
  BY DEF OpenTab
<1>3. /\ Live \subseteq Groups /\ \A g \in Live : Row(panes[g])
  BY InvFacts
<1> HIDE DEF E, f
<1>4. /\ DOMAIN A = DOMAIN E
      /\ \A h \in DOMAIN E \ {f} : A[h] = E[h]
      /\ Row(A[f]) /\ Held(A[f]) = Held(E[f]) \cup {t}
  BY <1>1, AddTabIs
<1> HIDE DEF A
<1>5. \A h \in DOMAIN A : Row(A[h])
  BY <1>1, <1>4
<1>6. /\ DOMAIN S = DOMAIN A /\ S = [h \in DOMAIN S |-> S[h]]
      /\ \A h \in DOMAIN A : /\ Row(S[h]) /\ Held(S[h]) = Held(A[h])
                             /\ S[h].active = IF t \in Held(A[h]) THEN t ELSE A[h].active
  BY <1>5, SetActiveIs
<1> HIDE DEF S
<1>7. /\ DOMAIN T = Live
      /\ \A h \in Live : /\ T[h].tabs = panes[h].tabs /\ T[h].tabs \in Seq(Tab)
                         /\ Held(T[h]) = Held(panes[h])
                         /\ T[h].active = IF t \in Held(panes[h]) THEN t ELSE panes[h].active
  <2>1. T = [h \in Live |-> IF t \in Held(panes[h]) THEN [panes[h] EXCEPT !.active = t]
                            ELSE panes[h]]
    BY SameHeld DEF Abs!Turned, Abs!Shows, Abs!Live, Live
  <2> HIDE DEF T
  <2> SUFFICES ASSUME NEW h \in Live
               PROVE  /\ T[h].tabs = panes[h].tabs /\ T[h].tabs \in Seq(Tab)
                      /\ Held(T[h]) = Held(panes[h])
                      /\ T[h].active = IF t \in Held(panes[h]) THEN t ELSE panes[h].active
    BY <2>1
  <2>2. Row(panes[h]) /\ panes[h] \in Abs!PaneRow
    BY <1>3 DEF Row
  <2>3. panes[h].tabs \in Seq(Tab)
    BY <2>2, RowFacts
  <2>4. CASE t \in Held(panes[h])
    <3> DEFINE x == panes[h]
               y == [x EXCEPT !.active = t]
    <3>1. T[h] = y
      BY <2>1, <2>4
    <3>2. y.tabs = x.tabs /\ y.active = t
      BY <2>2 DEF Abs!PaneRow
    <3> HIDE DEF y
    <3> QED BY <2>3, <2>4, <3>1, <3>2 DEF Held
  <2>5. CASE t \notin Held(panes[h])
    BY <2>1, <2>3, <2>5
  <2> QED BY <2>4, <2>5
<1> HIDE DEF T
<1>8. /\ \A h \in DOMAIN T \ {f} : Held(S[h]) = Held(T[h]) /\ S[h].active = T[h].active
      /\ Held(S[f]) = {t} \cup (IF f \in DOMAIN T THEN Held(T[f]) ELSE {})
      /\ S[f].active = t
  BY <1>1, <1>4, <1>6, <1>7
<1>9. /\ DOMAIN T \subseteq Groups /\ DOMAIN S = DOMAIN T \cup {f}
      /\ \A h \in DOMAIN S : Row(S[h])
      /\ f \in DOMAIN T => T[f].tabs \in Seq(Tab)
  BY <1>1, <1>3, <1>4, <1>6, <1>7
<1>10. Abs!Alike(Abs!With(T, f, t), S)
  <2> HIDE DEF Groups
  <2> QED BY <1>1, <1>6, <1>8, <1>9, AlikeWith
<1>11. Abs!OpenTab(t)
  BY <1>1, <1>2, <1>10 DEF Abs!OpenTab, T
<1>12. TreeInv'
  <2>1. Live' = Live \cup {f}
    BY <1>1, <1>2, <1>4, <1>6 DEF Live
  <2> QED BY <1>1, <1>2, <1>9, <2>1, <1>4, <1>6, TreeAfter
<1> QED BY <1>11, <1>12

LEMMA EnsureTabStep ==
  ASSUME Inv, NEW t \in Tab, EnsureTab(t)
  PROVE  Abs!EnsureTab(t) /\ TreeInv'
<1> DEFINE f == EnsuredGroup
           E == EnsuredPanes
           A == AddTab(E, f, t)
<1>1. /\ f \in Groups /\ Abs!Target(f)
      /\ DOMAIN E = Live \cup {f} /\ E = [h \in DOMAIN E |-> E[h]]
      /\ \A h \in DOMAIN E : Row(E[h])
      /\ \A h \in Live : E[h] = panes[h]
      /\ f \notin Live => Live = {} /\ Held(E[f]) = {}
      /\ Nested(splits, Live \cup {f}) /\ Ordered(splits, order, Live \cup {f})
  BY EnsuredIs
<1>2. /\ panes' = A /\ t \notin tabs /\ tabs' = tabs \cup {t}
      /\ focus' = IF focus # 0 THEN focus ELSE f
      /\ splits' = splits /\ order' = order
      /\ UNCHANGED <<drag, losable, asking>>
  BY DEF EnsureTab
<1>3. /\ Live \subseteq Groups /\ \A g \in Live : Row(panes[g])
      /\ \A g \in Live : t \notin Held(panes[g])
  BY <1>2, InvFacts
<1> HIDE DEF E, f
<1>4. /\ DOMAIN A = DOMAIN E /\ A = [h \in DOMAIN A |-> A[h]]
      /\ \A h \in DOMAIN E \ {f} : A[h] = E[h]
      /\ Row(A[f]) /\ Held(A[f]) = Held(E[f]) \cup {t}
      /\ t \notin Held(E[f]) => A[f].active = t
  BY <1>1, AddTabIs
<1> HIDE DEF A
<1>5. /\ DOMAIN panes = Live /\ DOMAIN A = DOMAIN panes \cup {f}
      /\ \A h \in DOMAIN A : Row(A[h])
  BY <1>1, <1>4 DEF Live
<1>6. /\ \A h \in DOMAIN panes \ {f} : Held(A[h]) = Held(panes[h]) /\ A[h].active = panes[h].active
      /\ Held(A[f]) = {t} \cup (IF f \in DOMAIN panes THEN Held(panes[f]) ELSE {})
      /\ A[f].active = t
  BY <1>1, <1>3, <1>4, <1>5
<1>7. f \in DOMAIN panes => panes[f].tabs \in Seq(Tab)
  BY <1>3, <1>5, RowFacts DEF Row
<1>8. Abs!Alike(Abs!With(panes, f, t), A)
  <2> HIDE DEF Groups
  <2>1. DOMAIN panes \subseteq Groups
    BY <1>3, <1>5
  <2> QED BY <1>1, <1>4, <1>5, <1>6, <1>7, <2>1, AlikeWith
<1>9. Abs!EnsureTab(t)
  BY <1>1, <1>2, <1>8 DEF Abs!EnsureTab
<1>10. TreeInv'
  <2>1. Live' = Live \cup {f}
    BY <1>2, <1>5 DEF Live
  <2> QED BY <1>1, <1>2, <1>5, <2>1, TreeAfter
<1> QED BY <1>9, <1>10

\* A new group with one tab.
LEMMA NewPaneIs ==
  ASSUME Inv, NEW t \in Tab, NewPane(t), UNCHANGED <<drag, losable, asking>>
  PROVE  /\ Abs!NewPane(t)
         /\ FreshGroup \notin Live /\ Live' = Live \cup {FreshGroup}
         /\ \A h \in Live' : Row(panes'[h])
<1> DEFINE f == FreshGroup
           y == [tabs |-> <<t>>, active |-> t]
           Q == [h \in Live \cup {f} |-> IF h = f THEN y ELSE panes[h]]
<1>1. /\ FreshGroups # {} /\ focus' = f
      /\ panes' = [h \in Live \cup {f} |-> IF h = f THEN Pane(<<t>>) ELSE panes[h]]
  BY DEF NewPane
<1>2. f \in FreshGroups
  BY <1>1, FreshIs
<1>3. f \in Groups /\ f \notin Live /\ f # focus /\ f \in Abs!Fresh
  BY <1>2, FreshIs DEF FreshGroups
<1>4. /\ Pane(<<t>>) = y /\ Row(y) /\ Held(y) = {t} /\ y.active = t
  BY NewRow
<1>5. Live \subseteq Groups /\ (\A g \in Live : Row(panes[g])) /\ DOMAIN panes = Live
  BY InvFacts DEF Live
<1> HIDE DEF y, f
<1>6. panes' = Q
  BY <1>1, <1>4
<1>7. /\ DOMAIN Q = Live \cup {f} /\ Q = [h \in DOMAIN Q |-> Q[h]]
      /\ Q[f] = y /\ \A h \in Live : Q[h] = panes[h]
  BY <1>3
<1> HIDE DEF Q
<1>8. \A h \in DOMAIN Q : Row(Q[h])
  BY <1>4, <1>5, <1>7
<1>9. /\ \A h \in DOMAIN panes \ {f} : Held(Q[h]) = Held(panes[h]) /\ Q[h].active = panes[h].active
      /\ Held(Q[f]) = {t} \cup (IF f \in DOMAIN panes THEN Held(panes[f]) ELSE {})
      /\ Q[f].active = t
  BY <1>3, <1>4, <1>5, <1>7
<1>10. Abs!Alike(Abs!With(panes, f, t), Q)
  <2> HIDE DEF Groups
  <2>1. DOMAIN panes \subseteq Groups /\ DOMAIN Q = DOMAIN panes \cup {f} /\ f \notin DOMAIN panes
    BY <1>3, <1>5, <1>7
  <2> QED BY <1>3, <1>7, <1>8, <1>9, <2>1, AlikeWith
<1>11. Abs!NewPane(t)
  BY <1>1, <1>3, <1>6, <1>10 DEF Abs!NewPane
<1>12. Live' = Live \cup {f} /\ \A h \in Live' : Row(panes'[h])
  BY <1>6, <1>7, <1>8 DEF Live
<1> QED BY <1>3, <1>11, <1>12 DEF f

\* At an edge of the editor.
LEMMA EdgeStep ==
  ASSUME Inv, Live # {}, NEW t \in Tab, NewPane(t), UNCHANGED <<drag, losable, asking>>,
         NEW side, splits' = PlaceTabAtEdge(FreshGroup), order' = Edge(side, FreshGroup)
  PROVE  TreeInv'
<1>1. /\ FreshGroup \notin Live /\ Live' = Live \cup {FreshGroup}
      /\ \A h \in Live' : Row(panes'[h])
  BY NewPaneIs
<1>2. Nested(splits, Live) /\ Ordered(splits, order, Live)
  BY InvFacts
<1>3. Nested(splits', Live')
  BY <1>1, <1>2, EdgeNested
<1>4. Ordered(splits', order', Live')
  BY <1>1, <1>2, EdgeOrdered
<1>5. Live' # {}
  BY <1>1
<1> QED BY <1>1, <1>3, <1>4, <1>5, TreeAfter

LEMMA OpenTabToSideStep ==
  ASSUME Inv, NEW t \in Tab, OpenTabToSide(t)
  PROVE  Abs!OpenTabToSide(t) /\ TreeInv'
<1>1. /\ NewPane(t) /\ UNCHANGED <<drag, losable, asking>> /\ tabs' = tabs \cup {t}
      /\ splits' = PlaceTabAtEdge(FreshGroup) /\ order' = Edge("right", FreshGroup)
  BY DEF OpenTabToSide
<1>2. PICK g \in Live : panes[g].tabs # <<>>
  BY DEF OpenTabToSide
<1>3. Row(panes[g])
  BY InvFacts
<1>4. Held(panes[g]) # {}
  BY <1>2, <1>3, RowFacts DEF Row
<1>5. \E h \in Abs!Live : Abs!Held(panes[h]) # {}
  BY <1>4, SameHeld DEF Abs!Live, Live
<1>6. Abs!OpenTabToSide(t)
  BY <1>1, <1>5, NewPaneIs DEF Abs!OpenTabToSide
<1>7. TreeInv'
  BY <1>1, <1>2, EdgeStep
<1> QED BY <1>6, <1>7

LEMMA SplitActiveTabStep ==
  ASSUME Inv, NEW g \in Groups, NEW t \in Tab, NEW side, SplitActiveTab(g, t, side)
  PROVE  Abs!SplitActiveTab(t) /\ TreeInv'
<1>1. /\ NewPane(t) /\ UNCHANGED <<drag, losable, asking>> /\ tabs' = tabs
      /\ splits' = SplitGroup(g, side, FreshGroup) /\ order' = Beside(g, side, FreshGroup)
      /\ g \in Live /\ t \in Held(panes[g])
  BY DEF SplitActiveTab, Shows
<1>2. /\ FreshGroup \notin Live /\ Live' = Live \cup {FreshGroup} /\ Abs!NewPane(t)
      /\ \A h \in Live' : Row(panes'[h])
  BY <1>1, NewPaneIs
<1>3. Nested(splits, Live) /\ Ordered(splits, order, Live)
  BY InvFacts
<1>4. Nested(splits', Live')
  BY <1>1, <1>2, <1>3, SplitNested
<1>5. Ordered(splits', order', Live')
  BY <1>1, <1>2, <1>3, SplitOrdered
<1>6. Live' # {}
  BY <1>2
<1>7. TreeInv'
  BY <1>2, <1>4, <1>5, <1>6, TreeAfter
<1>8. Abs!ShownIn(panes, t)
  BY <1>1, SameHeld DEF Abs!ShownIn, Live
<1> QED BY <1>1, <1>2, <1>7, <1>8 DEF Abs!SplitActiveTab

LEMMA DropAtEdgeStep ==
  ASSUME Inv, NEW side, DropAtEdge(side)
  PROVE  Abs!DropAtEdge /\ TreeInv'
<1> DEFINE t == drag.tab
<1>1. /\ NewPane(t) /\ UNCHANGED <<drag, losable, asking>> /\ tabs' = tabs
      /\ splits' = PlaceTabAtEdge(FreshGroup) /\ order' = Edge(side, FreshGroup)
      /\ drag # NoPane /\ Holders(panes, t) # {}
  BY DEF DropAtEdge
<1>2. PICK g \in Live : t \in Held(panes[g])
  BY <1>1 DEF Holders, Holds, Live
<1>3. Held(panes[g]) \subseteq Tab
  BY InvFacts, RowFacts DEF Row
<1>4. t \in Tab
  BY <1>2, <1>3
<1>5. Abs!ShownIn(panes, t)
  BY <1>2, SameHeld DEF Abs!ShownIn, Live
<1>6. drag # Abs!Nowhere
  BY <1>1 DEF Abs!Nowhere, NoPane
<1> HIDE DEF t
<1>7. Abs!NewPane(t) /\ TreeInv'
  BY <1>1, <1>2, <1>4, NewPaneIs, EdgeStep
<1> QED BY <1>1, <1>5, <1>6, <1>7 DEF Abs!DropAtEdge, Abs!SplitActiveTab, t

\* Steps that leave the panes as they are.
LEMMA SamePanes ==
  ASSUME Inv, UNCHANGED <<panes, splits, order>>,
         Live = {} => drag' = NoPane /\ asking' = NoPane
  PROVE  TreeInv'
<1>1. Live' = Live
  BY DEF Live
<1> QED BY <1>1 DEF Inv, TreeInv

LEMMA FocusGroupStep ==
  ASSUME Inv, NEW g \in Live, FocusGroup(g)
  PROVE  Abs!FocusGroup(g) /\ TreeInv'
<1>1. TreeInv'
  BY SamePanes DEF FocusGroup
<1> QED BY <1>1 DEF FocusGroup, Abs!FocusGroup, Abs!Live, Live

LEMMA DragEndStep ==
  ASSUME Inv, DragEnd
  PROVE  Abs!DragEnd /\ TreeInv'
<1>1. Live = {} => drag' = NoPane /\ asking' = NoPane
  BY DEF DragEnd, Inv, TreeInv
<1>2. TreeInv'
  BY <1>1, SamePanes DEF DragEnd
<1> QED BY <1>2 DEF DragEnd, Abs!DragEnd, Abs!Nowhere, NoPane

LEMMA WorkStep ==
  ASSUME Inv, NEW t \in Tab, Work(t)
  PROVE  Abs!Work(t) /\ TreeInv'
<1>1. Live = {} => drag' = NoPane /\ asking' = NoPane
  BY DEF Work, Inv, TreeInv
<1>2. TreeInv'
  BY <1>1, SamePanes DEF Work
<1> QED BY <1>2 DEF Work, Abs!Work

LEMMA DialogIs == DialogOpen <=> Abs!DialogOpen
BY DEF DialogOpen, Abs!DialogOpen, Abs!Nowhere, NoPane, Abs!Live, Live

LEMMA DismissCloseStep ==
  ASSUME Inv, DismissClose
  PROVE  Abs!DismissClose /\ TreeInv'
<1>1. Live = {} => drag' = NoPane /\ asking' = NoPane
  BY DEF DismissClose, Inv, TreeInv
<1>2. TreeInv'
  BY <1>1, SamePanes DEF DismissClose
<1>3. Abs!DismissClose
  BY DialogIs DEF DismissClose, Abs!DismissClose, Abs!Nowhere, NoPane
<1> QED BY <1>2, <1>3

\* A tab activated, by a click or at the beginning of a drag.
LEMMA SetActiveTabStep ==
  ASSUME Inv, NEW g \in Groups, NEW t \in Tab, SetActiveTab(g, t) \/ DragStart(g, t)
  PROVE  Abs!SetActiveTab(g, t) /\ TreeInv'
<1>1. /\ SetActiveInGroup(g, t) /\ drag' \in {drag, [tab |-> t, group |-> g]}
  BY DEF SetActiveTab, DragStart
<1>2. /\ g \in Live /\ t \in Held(panes[g]) /\ focus' = g
      /\ panes' = [panes EXCEPT ![g].active = t]
      /\ UNCHANGED <<tabs, splits, order, losable, asking>>
  BY <1>1 DEF SetActiveInGroup, Shows
<1> DEFINE x == panes[g]
           y == [x EXCEPT !.active = t]
           Q == [panes EXCEPT ![g] = y]
<1>3. panes' = Q
  BY <1>2
<1>4. /\ Live \subseteq Groups /\ (\A h \in Live : Row(panes[h])) /\ DOMAIN panes = Live
      /\ Nested(splits, Live) /\ Ordered(splits, order, Live)
  BY InvFacts DEF Live
<1>5. Row(x) /\ t \in Held(x) /\ x.tabs \in Seq(Tab)
  BY <1>2, <1>4, RowFacts DEF Row
<1> HIDE DEF x
<1>6. Row(y) /\ Held(y) = Held(x) /\ y.active = t
  BY <1>5, ActiveRow
<1> HIDE DEF y
<1>7. /\ DOMAIN Q = Live /\ Q = [h \in DOMAIN Q |-> Q[h]]
      /\ Q[g] = y /\ \A h \in Live \ {g} : Q[h] = panes[h]
  BY <1>2, <1>4
<1> HIDE DEF Q
<1>8. \A h \in DOMAIN Q : Row(Q[h])
  BY <1>4, <1>6, <1>7
<1>9. /\ DOMAIN panes \subseteq Groups /\ DOMAIN Q = DOMAIN panes \cup {g}
      /\ \A h \in DOMAIN panes \ {g} : Held(Q[h]) = Held(panes[h]) /\ Q[h].active = panes[h].active
      /\ Held(Q[g]) = {t} \cup (IF g \in DOMAIN panes THEN Held(panes[g]) ELSE {})
      /\ Q[g].active = t
      /\ panes[g].tabs \in Seq(Tab)
  BY <1>2, <1>4, <1>5, <1>6, <1>7 DEF x
<1>10. Abs!Alike(Abs!With(panes, g, t), Q)
  <2> HIDE DEF Groups
  <2> QED BY <1>7, <1>8, <1>9, AlikeWith
<1>11. Abs!Shows(g, t)
  BY <1>2, SameHeld DEF Abs!Shows, Abs!Live, Live
<1>12. Abs!SetActiveTab(g, t)
  BY <1>1, <1>2, <1>3, <1>10, <1>11 DEF Abs!SetActiveTab
<1>13. TreeInv'
  <2>1. Live' = Live /\ \A h \in Live' : Row(panes'[h])
    BY <1>3, <1>7, <1>8 DEF Live
  <2>2. Nested(splits', Live') /\ Ordered(splits', order', Live') /\ Live' # {}
    BY <1>2, <1>4, <2>1
  <2> QED BY <2>1, <2>2, TreeAfter
<1> QED BY <1>12, <1>13

\* Another window has closed the tab.
LEMMA CloseTabStep ==
  ASSUME Inv, NEW t \in Tab, CloseTab(t)
  PROVE  Abs!CloseTab(t) /\ TreeInv'
<1> DEFINE P == [g \in Live |-> Drop(panes[g], t)]
           lost == [g \in Live |-> {t}]
<1>1. /\ t \in tabs /\ tabs' = tabs \ {t} /\ losable' = losable \ {t}
      /\ UNCHANGED <<drag, asking>> /\ Tidied(P) /\ FocusAfter
  BY DEF CloseTab, RemoveTab
<1>2. (\A g \in Live : Row(panes[g])) /\ Live # {} /\ DOMAIN panes = Live
  BY <1>1, InvFacts DEF Live
<1>3. DOMAIN P = Live /\ \A g \in Live : Loses(panes[g], lost[g], P[g])
  <2>1. \A g \in Live : Loses(panes[g], {t}, Drop(panes[g], t))
    BY <1>2, DropLoses
  <2> QED BY <2>1
<1> HIDE DEF P, lost
<1>4. /\ Abs!Shrinks(panes, lost, panes') /\ TreeInv'
      /\ Live' \subseteq Groups /\ Live' # {} /\ Total(order', Live')
  BY <1>1, <1>2, <1>3, TidiedIs
<1>5. Abs!Refocus
  BY <1>1, <1>4, FocusAfterIs
<1>6. lost = [g \in Abs!Live |-> {t}]
  BY DEF lost, Abs!Live, Live
<1> QED BY <1>1, <1>4, <1>5, <1>6 DEF Abs!CloseTab

\* The panes of a tab.
LEMMA HoldersAre ==
  ASSUME NEW P, NEW t
  PROVE  Holders(P, t) # {} <=> Abs!ShownIn(P, t)
BY SameHeld DEF Holders, Holds, Abs!ShownIn

LEMMA ClosedInstanceStep ==
  ASSUME Inv, NEW g \in Live, NEW t \in Tab, ClosedInstance(g, t)
  PROVE  Abs!ClosedIn(g, {t}) /\ TreeInv' /\ tabs' \subseteq tabs /\ losable' = losable \cap tabs'
<1> DEFINE P == [h \in Live |-> IF h = g THEN Drop(panes[h], t) ELSE panes[h]]
           lost == [h \in Live |-> IF h = g THEN {t} ELSE {}]
<1>1. /\ tabs' = IF Holders(panes', t) = {} THEN tabs \ {t} ELSE tabs
      /\ losable' = losable \cap tabs' /\ UNCHANGED drag
      /\ Tidied(P) /\ FocusAfter
  BY DEF ClosedInstance, RemoveTabFromGroup
<1>2. (\A h \in Live : Row(panes[h])) /\ Live # {} /\ DOMAIN panes = Live
  BY InvFacts DEF Live
<1>3. DOMAIN P = Live /\ \A h \in Live : Loses(panes[h], lost[h], P[h])
  <2>1. \A h \in Live : /\ Loses(panes[h], {t}, Drop(panes[h], t))
                        /\ Loses(panes[h], {}, panes[h])
    BY <1>2, DropLoses, LosesNothing
  <2> QED BY <2>1
<1> HIDE DEF P, lost
<1>4. /\ Abs!Shrinks(panes, lost, panes') /\ TreeInv'
      /\ Live' \subseteq Groups /\ Live' # {} /\ Total(order', Live')
  BY <1>1, <1>2, <1>3, TidiedIs
<1>5. Abs!Refocus
  BY <1>1, <1>4, FocusAfterIs
<1>6. lost = [h \in Abs!Live |-> IF h = g THEN {t} ELSE {}]
  BY DEF lost, Abs!Live, Live
<1>7. tabs' = {u \in tabs : u \in {t} => Abs!ShownIn(panes', u)}
  <2>1. Holders(panes', t) # {} <=> Abs!ShownIn(panes', t)
    BY HoldersAre
  <2> QED BY <1>1, <2>1
<1>8. tabs' \subseteq tabs
  BY <1>1
<1> QED BY <1>1, <1>4, <1>5, <1>6, <1>7, <1>8 DEF Abs!ClosedIn

\* One pane at most is one pane.
LEMMA NeedsConfirmationIs ==
  ASSUME Inv, NEW u
  PROVE  NeedsConfirmation(u) <=> Abs!NeedsConfirmation(u)
<1> DEFINE H == Holders(panes, u)
<1>1. IsFiniteSet(H)
  <2>1. H \subseteq 1 .. MaxGroups /\ MaxGroups \in Nat
    BY InvFacts DEF Holders, Live
  <2>2. IsFiniteSet(1 .. MaxGroups)
    BY <2>1, FS_Interval
  <2> QED BY <2>1, <2>2, FS_Subset
<1>2. \A g, h \in DOMAIN panes :
        u \in Abs!Held(panes[g]) /\ u \in Abs!Held(panes[h]) <=> g \in H /\ h \in H
  BY SameHeld DEF Holders, Holds
<1>3. Abs!InOnePane(panes, u) <=> \A g, h \in H : g = h
  <2>1. H \subseteq DOMAIN panes
    BY DEF Holders
  <2> HIDE DEF H
  <2> QED BY <1>2, <2>1 DEF Abs!InOnePane
<1> HIDE DEF H
<1>4. Cardinality(H) \in Nat /\ (Cardinality(H) = 0 <=> H = {})
  BY <1>1, FS_CardinalityType, FS_EmptySet
<1>5. Cardinality(H) = 1 <=> \E x : H = {x}
  BY <1>1, FS_Singleton
<1>6. Cardinality(H) <= 1 <=> Cardinality(H) = 0 \/ Cardinality(H) = 1
  BY <1>4
<1>7. (\A g, h \in H : g = h) <=> H = {} \/ \E x : H = {x}
  <2>1. ASSUME \A g, h \in H : g = h, H # {} PROVE \E x : H = {x}
    <3>1. PICK x : x \in H
      BY <2>1
    <3>2. H = {x}
      BY <2>1, <3>1
    <3> QED BY <3>2
  <2>2. ASSUME H = {} \/ \E x : H = {x} PROVE \A g, h \in H : g = h
    BY <2>2
  <2> QED BY <2>1, <2>2
<1> QED BY <1>3, <1>4, <1>5, <1>6, <1>7 DEF NeedsConfirmation, Abs!NeedsConfirmation, H

\* Panes that lose nothing.
LEMMA KeepsAll ==
  ASSUME Inv, Live # {}, NEW lost, \A g \in Live : lost[g] = {}
  PROVE  Abs!Shrinks(panes, lost, panes)
<1> DEFINE left == {g \in DOMAIN panes : ~(Abs!Held(panes[g]) \subseteq lost[g])}
<1>1. \A g \in Live : Held(panes[g]) = {} => Live = {g}
  BY InvFacts
<1>2. DOMAIN panes = Live
  BY DEF Live
<1>3. left = {g \in Live : Held(panes[g]) # {}}
  BY <1>2, SameHeld
<1>4. IF left = {} THEN \E g \in DOMAIN panes : DOMAIN panes = {g} ELSE DOMAIN panes = left
  BY <1>1, <1>2, <1>3
<1>5. \A g \in DOMAIN panes : /\ Abs!Held(panes[g]) = Abs!Held(panes[g]) \ lost[g]
                              /\ Abs!ActiveAfter(panes[g], lost[g], panes[g])
  BY <1>2 DEF Abs!ActiveAfter
<1>6. Abs!Rows(panes)
  BY DEF Inv, Abs!TypeInv, Abs!TypeOK
<1> QED BY <1>4, <1>5, <1>6 DEF Abs!Shrinks

LEMMA RequestCloseStep ==
  ASSUME Inv, NEW g \in Groups, NEW t \in Tab, RequestClose(g, t)
  PROVE  /\ g \in Live /\ {t} \in SUBSET Held(panes[g])
         /\ Abs!Close(g, {t}) /\ TreeInv'
<1> DEFINE kept == {u \in {t} : Abs!NeedsConfirmation(u)}
           lost == [h \in Abs!Live |-> IF h = g THEN {t} \ kept ELSE {}]
<1>1. g \in Live /\ {t} \in SUBSET Held(panes[g])
  BY DEF RequestClose, Shows
<1>2. tabs \subseteq Tab /\ losable \subseteq tabs /\ focus \in Live /\ Abs!Live = Live
  BY <1>1, InvFacts DEF Abs!Live, Live
<1>3. CASE NeedsConfirmation(t)
  <2>1. /\ asking' = [tab |-> t, group |-> g]
        /\ UNCHANGED <<tabs, splits, order, panes, focus, drag, losable>>
    BY <1>3 DEF RequestClose
  <2>2. kept = {t}
    BY <1>3, NeedsConfirmationIs
  <2>3. \A h \in Live : lost[h] = {}
    BY <1>2, <2>2
  <2> HIDE DEF lost, kept
  <2>4. Abs!Shrinks(panes, lost, panes')
    BY <1>1, <2>1, <2>3, KeepsAll
  <2>5. Abs!Refocus
    BY <1>2, <2>1 DEF Abs!Refocus, Live
  <2>6. Abs!ClosedIn(g, {t} \ kept)
    BY <1>2, <2>1, <2>2, <2>4, <2>5 DEF Abs!ClosedIn, lost
  <2>7. Abs!Close(g, {t})
    BY <1>2, <2>1, <2>2, <2>6 DEF Abs!Close, kept
  <2>8. Live = {} => drag' = NoPane /\ asking' = NoPane
    BY <1>1
  <2>9. TreeInv'
    BY <2>1, <2>8, SamePanes
  <2> QED BY <1>1, <2>7, <2>9
<1>4. CASE ~NeedsConfirmation(t)
  <2>1. ClosedInstance(g, t) /\ UNCHANGED asking /\ UNCHANGED drag
    BY <1>4 DEF RequestClose, ClosedInstance
  <2>2. kept = {}
    BY <1>4, NeedsConfirmationIs
  <2>3. /\ Abs!ClosedIn(g, {t}) /\ TreeInv' /\ tabs' \subseteq tabs
        /\ losable' = losable \cap tabs'
    BY <1>1, <2>1, ClosedInstanceStep
  <2> HIDE DEF kept
  <2>4. {t} \ kept = {t}
    BY <2>2
  <2>5. Abs!ClosedIn(g, {t} \ kept)
    BY <2>3, <2>4
  <2>6. Abs!Close(g, {t})
    BY <2>1, <2>2, <2>3, <2>5 DEF Abs!Close, kept
  <2> QED BY <1>1, <2>3, <2>6
<1> QED BY <1>3, <1>4

LEMMA ConfirmCloseStep ==
  ASSUME Inv, ConfirmClose
  PROVE  Abs!ConfirmClose /\ TreeInv'
<1> DEFINE g == asking.group
           t == asking.tab
<1>1. DialogOpen /\ ClosedInstance(g, t) /\ asking' = NoPane
  BY DEF ConfirmClose
<1>2. g \in Live /\ t \in Tab
  BY <1>1, InvFacts DEF DialogOpen
<1> HIDE DEF g, t
<1>3. Abs!ClosedIn(g, {t}) /\ TreeInv'
  BY <1>1, <1>2, ClosedInstanceStep
<1>4. Abs!DialogOpen
  BY <1>1, DialogIs
<1> QED BY <1>1, <1>3, <1>4 DEF Abs!ConfirmClose, Abs!Nowhere, NoPane, g, t

\* What a pane is not to lose is still there.
LEMMA ShrinkKeeps ==
  ASSUME NEW B, NEW lost, NEW Q, Abs!Shrinks(B, lost, Q),
         NEW h \in DOMAIN B, NEW u \in Held(B[h]), u \notin lost[h]
  PROVE  Abs!ShownIn(Q, u)
<1> DEFINE left == {g \in DOMAIN B : ~(Abs!Held(B[g]) \subseteq lost[g])}
<1>1. /\ IF left = {} THEN \E g \in DOMAIN B : DOMAIN Q = {g} ELSE DOMAIN Q = left
      /\ \A g \in DOMAIN Q : Abs!Held(Q[g]) = Abs!Held(B[g]) \ lost[g]
  BY DEF Abs!Shrinks
<1>2. u \in Abs!Held(B[h])
  BY SameHeld
<1>3. h \in left
  BY <1>2
<1>4. h \in DOMAIN Q
  BY <1>1, <1>3
<1> QED BY <1>1, <1>2, <1>4 DEF Abs!ShownIn

\* The last of some tabs of a pane.
LEMMA LastIsThere ==
  ASSUME NEW s \in Seq(Tab), NEW K \in SUBSET ToSet(s), K # {}
  PROVE  LastOf(s, K) \in K
<1> DEFINE n == Len(s)
           S == {n - Index(s, v) : v \in K}
<1>1. n \in Nat
  BY LenProperties
<1>2. \A v \in K : Index(s, v) \in 1 .. n
  BY IndexIs
<1>3. S \in SUBSET Nat /\ S # {}
  <2>1. \A v \in K : n - Index(s, v) \in Nat
    BY <1>1, <1>2
  <2> QED BY <2>1
<1>4. PICK m \in S : \A k \in S : m <= k
  <2> HIDE DEF S
  <2> QED BY <1>3, Least
<1>5. PICK u \in K : m = n - Index(s, u)
  BY <1>4
<1>6. \A v \in K : Index(s, v) <= Index(s, u)
  <2> SUFFICES ASSUME NEW v \in K PROVE Index(s, v) <= Index(s, u)
    OBVIOUS
  <2>1. m <= n - Index(s, v)
    BY <1>4
  <2>2. Index(s, v) \in 1 .. n /\ Index(s, u) \in 1 .. n
    BY <1>2
  <2> HIDE DEF n
  <2> QED BY <1>1, <1>5, <2>1, <2>2
<1> QED BY <1>5, <1>6 DEF LastOf

\* The menus close tabs of their pane.
LEMMA ScopesAre ==
  ASSUME Inv, NEW g \in Live, NEW T \in Scopes(g)
  PROVE  T \in SUBSET Held(panes[g])
<1> DEFINE s == panes[g].tabs
<1>1. PICK scope \in {"others", "right", "all"}, t \in Held(panes[g]) : T = TabsToClose(scope, s, t)
  BY DEF Scopes
<1>2. s \in Seq(Tab) /\ Held(panes[g]) = ToSet(s)
  BY InvFacts, RowFacts DEF Row, Held
<1>3. DOMAIN s = 1 .. Len(s) /\ Len(s) \in Nat
  BY <1>2, LenProperties
<1>4. t \in ToSet(s)
  BY <1>1, <1>2
<1>5. Index(s, t) \in 1 .. Len(s)
  BY <1>2, <1>4, IndexIs
<1>6. \A i \in Index(s, t) + 1 .. Len(s) : i \in 1 .. Len(s)
  BY <1>3, <1>5
<1>7. \A i \in Index(s, t) + 1 .. Len(s) : s[i] \in ToSet(s)
  BY <1>3, <1>6 DEF ToSet
<1> QED BY <1>1, <1>2, <1>7 DEF TabsToClose

LEMMA CloseManyStep ==
  ASSUME Inv, NEW g \in Live, NEW T \in SUBSET Held(panes[g]), CloseMany(g, T)
  PROVE  Abs!Close(g, T) /\ TreeInv'
<1> DEFINE kept == {u \in T : NeedsConfirmation(u)}
           D == T \ kept
           P == [panes EXCEPT ![g] = Closed(@, D)]
           lost == [h \in Live |-> IF h = g THEN D ELSE {}]
<1>1. /\ Tidied(P) /\ FocusAfter
      /\ asking' = IF kept = {} THEN asking
                   ELSE [tab |-> LastOf(panes[g].tabs, kept), group |-> g]
      /\ tabs' = {u \in tabs : Holders(panes', u) # {}}
      /\ losable' = losable \cap tabs' /\ UNCHANGED drag
  BY DEF CloseMany
<1>2. /\ (\A h \in Live : Row(panes[h])) /\ Live # {} /\ DOMAIN panes = Live
      /\ tabs \subseteq Tab
      /\ \A t \in Tab : t \in tabs <=> \E h \in Live : t \in Held(panes[h])
  BY InvFacts DEF Live
<1>3. kept = {u \in T : Abs!NeedsConfirmation(u)}
  BY NeedsConfirmationIs
<1>4. kept \subseteq T
  OBVIOUS
<1> HIDE DEF kept, D
<1>5. DOMAIN P = Live /\ \A h \in Live : Loses(panes[h], lost[h], P[h])
  <2>1. /\ DOMAIN P = Live /\ P[g] = Closed(panes[g], D)
        /\ \A h \in Live \ {g} : P[h] = panes[h]
    BY <1>2
  <2>2. \A h \in Live : Loses(panes[h], {}, panes[h])
    BY <1>2, LosesNothing
  <2>3. Loses(panes[g], D, Closed(panes[g], D))
    BY <1>2, ClosedLoses
  <2>4. lost[g] = D /\ \A h \in Live \ {g} : lost[h] = {}
    OBVIOUS
  <2> HIDE DEF P, lost
  <2>5. ASSUME NEW h \in Live PROVE Loses(panes[h], lost[h], P[h])
    <3>1. CASE h = g
      BY <2>1, <2>3, <2>4, <3>1
    <3>2. CASE h # g
      BY <2>1, <2>2, <2>4, <3>2
    <3> QED BY <3>1, <3>2
  <2> QED BY <2>1, <2>5
<1>6. \A h \in Live : lost[h] \subseteq D
  OBVIOUS
<1> HIDE DEF P, lost
<1>7. /\ Abs!Shrinks(panes, lost, panes') /\ TreeInv'
      /\ Live' \subseteq Groups /\ Live' # {} /\ Total(order', Live')
  BY <1>1, <1>2, <1>5, TidiedIs
<1>8. Abs!Refocus
  BY <1>1, <1>7, FocusAfterIs
<1>9. lost = [h \in Abs!Live |-> IF h = g THEN D ELSE {}]
  BY DEF lost, Abs!Live, Live
<1>10. tabs' = {u \in tabs : u \in D => Abs!ShownIn(panes', u)}
  <2>1. \A u \in tabs : Holders(panes', u) # {} <=> Abs!ShownIn(panes', u)
    BY HoldersAre
  <2>2. ASSUME NEW u \in tabs, u \notin D PROVE Abs!ShownIn(panes', u)
    <3>1. PICK h \in Live : u \in Held(panes[h])
      BY <1>2
    <3>2. u \notin lost[h]
      BY <1>6, <2>2
    <3> QED BY <1>2, <1>7, <3>1, <3>2, ShrinkKeeps
  <2> QED BY <1>1, <2>1, <2>2
<1>11. Abs!ClosedIn(g, T \ kept)
  BY <1>1, <1>7, <1>8, <1>9, <1>10 DEF Abs!ClosedIn, D
<1>12. IF kept = {} THEN asking' = asking
       ELSE \E t \in kept : asking' = [tab |-> t, group |-> g]
  <2>1. CASE kept = {}
    BY <1>1, <2>1
  <2>2. CASE kept # {}
    <3>1. panes[g].tabs \in Seq(Tab) /\ Held(panes[g]) = ToSet(panes[g].tabs)
      BY <1>2, RowFacts DEF Row, Held
    <3>2. kept \in SUBSET ToSet(panes[g].tabs)
      BY <1>4, <3>1
    <3>3. LastOf(panes[g].tabs, kept) \in kept
      BY <2>2, <3>1, <3>2, LastIsThere
    <3> QED BY <1>1, <2>2, <3>3
  <2> QED BY <2>1, <2>2
<1>13. tabs' \subseteq tabs
  BY <1>1
<1>14. Abs!Close(g, T)
  BY <1>1, <1>3, <1>11, <1>12, <1>13 DEF Abs!Close
<1> QED BY <1>7, <1>14

\* A dragged tab passes over a pane.
LEMMA DragOverStep ==
  ASSUME Inv, NEW g \in Groups, NEW target, NEW after, DragOver(g, target, after)
  PROVE  Abs!DragOver(g) /\ TreeInv'
<1> DEFINE t == drag.tab
           from == drag.group
           out == [h \in Live |-> IF h = from THEN TakeOut(panes[h], t) ELSE panes[h]]
           P == [out EXCEPT ![g] = PutIn(@, t, target, after)]
           B == Abs!With(panes, g, t)
           lost == [h \in Live |-> IF h = from /\ h # g THEN {t} ELSE {}]
<1>1. /\ drag # NoPane /\ t \in tabs /\ g \in Live /\ focus' = g
      /\ UNCHANGED <<tabs, drag, losable, asking>> /\ Tidied(P)
  BY DEF DragOver, Moved, Shows
<1>2. /\ (\A h \in Live : Row(panes[h])) /\ Live # {} /\ DOMAIN panes = Live /\ t \in Tab
  BY <1>1, InvFacts DEF Live
<1> HIDE DEF t, from
<1>3. \A h \in Live : /\ Row(out[h])
                      /\ Held(out[h]) \cup {t} = Held(panes[h]) \cup {t}
                      /\ h = from => Loses(panes[h], {t}, out[h])
                      /\ h # from => out[h] = panes[h]
  <2> SUFFICES ASSUME NEW h \in Live
               PROVE  /\ Row(out[h])
                      /\ Held(out[h]) \cup {t} = Held(panes[h]) \cup {t}
                      /\ h = from => Loses(panes[h], {t}, out[h])
                      /\ h # from => out[h] = panes[h]
    OBVIOUS
  <2>1. CASE h = from
    <3>1. out[h] = TakeOut(panes[h], t)
      BY <2>1
    <3> HIDE DEF out
    <3>2. Loses(panes[h], {t}, out[h])
      BY <1>2, <3>1, TakeOutLoses
    <3> QED BY <2>1, <3>2 DEF Loses
  <2>2. CASE h # from
    <3>1. out[h] = panes[h]
      BY <2>2
    <3> HIDE DEF out
    <3> QED BY <1>2, <2>2, <3>1
  <2> QED BY <2>1, <2>2
<1>4. DOMAIN out = Live
  OBVIOUS
<1> HIDE DEF out
<1>5. /\ DOMAIN P = Live /\ P[g] = PutIn(out[g], t, target, after)
      /\ \A h \in Live \ {g} : P[h] = out[h]
  BY <1>1, <1>4
<1>6. lost[g] = {} /\ \A h \in Live \ {g} : lost[h] = IF h = from THEN {t} ELSE {}
  BY <1>1
<1> HIDE DEF P
<1>7. Row(P[g]) /\ Held(P[g]) = Held(panes[g]) \cup {t} /\ P[g].active = t
  <2>1. Row(out[g]) /\ out[g] \in Abs!PaneRow /\ IsInjective(out[g].tabs)
    BY <1>1, <1>3 DEF Row
  <2>2. LET y == PutIn(out[g], t, target, after)
        IN Row(y) /\ Held(y) = Held(out[g]) \cup {t} /\ y.active = t
    BY <1>2, <2>1, PutInHolds
  <2> QED BY <1>1, <1>3, <1>5, <2>2
<1>8. /\ DOMAIN B = Live /\ Held(B[g]) = Held(panes[g]) \cup {t} /\ B[g].active = t
      /\ \A h \in Live \ {g} : B[h] = panes[h]
  <2> DEFINE x == panes[g]
             y == [tabs |-> Append(x.tabs, t), active |-> t]
  <2>1. DOMAIN B = Live /\ B[g] = y /\ \A h \in Live \ {g} : B[h] = panes[h]
    BY <1>1, <1>2 DEF Abs!With
  <2>2. x \in Abs!PaneRow
    BY <1>1, <1>2 DEF Row
  <2>3. Abs!Held(y) = Abs!Held(x) \cup {t}
    <3> HIDE DEF x
    <3> QED BY <1>2, <2>2, Abs!HeldFacts
  <2>4. y.active = t
    OBVIOUS
  <2> HIDE DEF y, B
  <2> QED BY <2>1, <2>3, <2>4, SameHeld
<1> HIDE DEF B, lost
<1>9. \A h \in Live : Loses(B[h], lost[h], P[h])
  <2> SUFFICES ASSUME NEW h \in Live PROVE Loses(B[h], lost[h], P[h])
    OBVIOUS
  <2>1. CASE h = g
    BY <1>1, <1>6, <1>7, <1>8, <2>1 DEF Loses
  <2>2. CASE h # g /\ h = from
    BY <1>3, <1>5, <1>6, <1>8, <2>2
  <2>3. CASE h # g /\ h # from
    BY <1>2, <1>3, <1>5, <1>6, <1>8, <2>3, LosesNothing
  <2> QED BY <2>1, <2>2, <2>3
<1>10. Abs!Shrinks(B, lost, panes') /\ TreeInv'
  BY <1>1, <1>2, <1>5, <1>8, <1>9, TidiedIs
<1>11. Abs!DragOver(g)
  BY <1>1, <1>10 DEF Abs!DragOver, Abs!Nowhere, NoPane, Abs!Live, Live, B, lost, t, from
<1> QED BY <1>10, <1>11

-----------------------------------------------------------------------------

(***************************************************************************)
(* The steps together.                                                     *)
(***************************************************************************)

LEMMA PointerStepIs ==
  ASSUME Inv, PointerStep
  PROVE  Abs!UserStep /\ TreeInv'
<1>1. Live \subseteq Groups /\ tabs \subseteq Tab /\ Abs!Live = Live
  BY InvFacts DEF Abs!Live, Live
<1>2. ASSUME NEW t \in Tab, OpenTab(t) PROVE Abs!UserStep /\ TreeInv'
  BY <1>2, OpenTabStep DEF Abs!UserStep
<1>3. ASSUME NEW t \in Tab, OpenTabToSide(t) PROVE Abs!UserStep /\ TreeInv'
  BY <1>3, OpenTabToSideStep DEF Abs!UserStep
<1>4. ASSUME NEW g \in Groups, NEW t \in tabs, RequestClose(g, t)
      PROVE  Abs!UserStep /\ TreeInv'
  <2>1. /\ g \in Live /\ {t} \in SUBSET Held(panes[g])
        /\ Abs!Close(g, {t}) /\ TreeInv'
    BY <1>1, <1>4, RequestCloseStep
  <2>2. {t} \in SUBSET Abs!Held(panes[g])
    BY <2>1, SameHeld
  <2> QED BY <1>1, <2>1, <2>2 DEF Abs!UserStep
<1>5. ASSUME NEW g \in Groups, NEW t \in tabs, NEW side, SplitActiveTab(g, t, side)
      PROVE  Abs!UserStep /\ TreeInv'
  <2>1. t \in Tab
    BY <1>1
  <2>2. Abs!SplitActiveTab(t) /\ TreeInv'
    BY <1>5, <2>1, SplitActiveTabStep
  <2> QED BY <2>1, <2>2 DEF Abs!UserStep
<1>6. ASSUME NEW g \in Groups, NEW t \in tabs, SetActiveTab(g, t) \/ DragStart(g, t)
      PROVE  Abs!UserStep /\ TreeInv'
  <2>1. t \in Tab
    BY <1>1
  <2>2. Abs!SetActiveTab(g, t) /\ TreeInv'
    BY <1>6, <2>1, SetActiveTabStep
  <2> QED BY <2>1, <2>2 DEF Abs!UserStep
<1>7. ASSUME NEW g \in Live, FocusGroup(g) PROVE Abs!UserStep /\ TreeInv'
  BY <1>1, <1>7, FocusGroupStep DEF Abs!UserStep
<1>8. ASSUME NEW g \in Live, CloseMenu(g) PROVE Abs!UserStep /\ TreeInv'
  <2>1. PICK T \in Scopes(g) : CloseMany(g, T)
    BY <1>8 DEF CloseMenu
  <2>2. T \in SUBSET Held(panes[g])
    BY <2>1, ScopesAre
  <2>3. Abs!Close(g, T) /\ TreeInv'
    BY <2>1, <2>2, CloseManyStep
  <2>4. T \in SUBSET Abs!Held(panes[g])
    BY <2>2, SameHeld
  <2> QED BY <1>1, <2>3, <2>4 DEF Abs!UserStep
<1> QED BY <1>2, <1>3, <1>4, <1>5, <1>6, <1>7, <1>8 DEF PointerStep, TabItem, TabMenu

LEMMA UserStepIs ==
  ASSUME Inv, UserStep
  PROVE  Abs!UserStep /\ TreeInv'
<1>1. CASE PointerStep
  BY <1>1, PointerStepIs
<1>2. ASSUME NEW g \in Groups, NEW t \in tabs, NEW after \in BOOLEAN, DragOver(g, t, after)
      PROVE  Abs!UserStep /\ TreeInv'
  BY <1>2, DragOverStep DEF Abs!UserStep
<1>3. ASSUME NEW side, DropAtEdge(side) PROVE Abs!UserStep /\ TreeInv'
  BY <1>3, DropAtEdgeStep DEF Abs!UserStep
<1>4. CASE DragEnd
  BY <1>4, DragEndStep DEF Abs!UserStep
<1>5. CASE ConfirmClose
  BY <1>5, ConfirmCloseStep DEF Abs!UserStep
<1>6. CASE DismissClose
  BY <1>6, DismissCloseStep DEF Abs!UserStep
<1> QED BY <1>1, <1>2, <1>3, <1>4, <1>5, <1>6 DEF UserStep, DragStep

\* Every step is one of EditorPanes, and keeps the tree.
LEMMA StepIs ==
  ASSUME Inv, [Next]_vars
  PROVE  [Abs!Next]_tabVars /\ TreeInv'
<1>1. CASE UserStep
  BY <1>1, UserStepIs DEF Abs!Next
<1>2. ASSUME NEW t \in Tab, Work(t) PROVE Abs!Next /\ TreeInv'
  BY <1>2, WorkStep DEF Abs!Next, Abs!OtherStep
<1>3. ASSUME NEW t \in Tab, EnsureTab(t) PROVE Abs!Next /\ TreeInv'
  BY <1>3, EnsureTabStep DEF Abs!Next, Abs!OtherStep
<1>4. ASSUME NEW t \in Tab, CloseTab(t) PROVE Abs!Next /\ TreeInv'
  BY <1>4, CloseTabStep DEF Abs!Next, Abs!OtherStep
<1>5. CASE UNCHANGED vars
  <2>1. Live = {} => drag' = NoPane /\ asking' = NoPane
    BY <1>5 DEF vars, Inv, TreeInv
  <2>2. TreeInv'
    BY <1>5, <2>1, SamePanes DEF vars
  <2> QED BY <1>5, <2>2 DEF vars, tabVars
<1> QED BY <1>1, <1>2, <1>3, <1>4, <1>5 DEF Next

LEMMA StepKeeps == Inv /\ [Next]_vars => Inv'
<1> SUFFICES ASSUME Inv, [Next]_vars PROVE Inv'
  OBVIOUS
<1>1. [Abs!Next]_(Abs!tabVars) /\ TreeInv'
  BY StepIs DEF Abs!tabVars, tabVars
<1>2. Abs!TypeInv
  BY DEF Inv
<1>3. Abs!TypeInv'
  BY <1>1, <1>2, Abs!StepKeeps
<1> QED BY <1>1, <1>3 DEF Inv

LEMMA InitIs == Init => Abs!Init /\ Inv
<1> SUFFICES ASSUME Init PROVE Abs!Init /\ Inv
  OBVIOUS
<1>1. panes = [g \in {} |-> {}] /\ Live = {}
  BY DEF Init, Live
<1>2. Abs!Init
  BY <1>1 DEF Init, Abs!Init, Abs!Nowhere, NoPane
<1>3. Abs!TypeInv
  BY <1>2, Abs!InitInv
<1>4. Nested(splits, Live) /\ Ordered(splits, order, Live)
  BY <1>1 DEF Init, Nested, Ordered, Total
<1>5. TreeInv
  BY <1>1, <1>4 DEF TreeInv, Init
<1> QED BY <1>2, <1>3, <1>5 DEF Inv

LEMMA AlwaysInv == Spec => []Inv
<1>1. Init => Inv
  BY InitIs
<1>2. Inv /\ [Next]_vars => Inv'
  BY StepKeeps
<1> QED BY <1>1, <1>2, PTL DEF Spec

\* The tree stays a tree of panes through every order of splits, moves and
\* closes, for any tabs and any number of panes: its splits nest, their groups
\* lie together, no pane is empty beside others, no tab is twice in a pane, every
\* pane with tabs has an active one, and the focus is on a pane that exists
\* (normalize, splitGroup, placeTabAtEdge, moveTabBetweenGroups).
THEOREM TreeStaysSound == Spec => []TreeIsSound
<1>1. Inv => TreeIsSound
  <2> SUFFICES ASSUME Inv PROVE TreeIsSound
    OBVIOUS
  <2>1. /\ Nested(splits, Live) /\ Ordered(splits, order, Live)
        /\ IF Live = {} THEN focus = 0 ELSE focus \in Live
        /\ \A g \in Live : Row(panes[g])
        /\ \A g \in Live : Held(panes[g]) = {} => Live = {g}
    BY InvFacts
  <2>2. ASSUME NEW g \in Live
        PROVE  /\ IsInjective(panes[g].tabs)
               /\ IF panes[g].tabs = <<>>
                  THEN panes[g].active = NoTab /\ Live = {g}
                  ELSE Holds(panes[g], panes[g].active)
    <3>1. panes[g].tabs = <<>> <=> Held(panes[g]) = {}
      BY <2>1, RowFacts DEF Row
    <3> QED BY <2>1, <3>1 DEF Row, Holds
  <2> QED BY <2>1, <2>2 DEF TreeIsSound
<1> QED BY <1>1, AlwaysInv, PTL

\* What is named exists: the focus is a pane or nothing, and what could be lost is
\* kept of open tabs only (activeGroupId, draggingTab, pendingCloseTabId).
THEOREM TypeCorrect == Spec => []TypeOK
<1>1. Inv => TypeOK
  <2> SUFFICES ASSUME Inv PROVE TypeOK
    OBVIOUS
  <2>1. /\ tabs \subseteq Tab /\ losable \subseteq tabs /\ Live \subseteq Groups
        /\ IF Live = {} THEN focus = 0 ELSE focus \in Live
        /\ drag \in Abs!Place /\ asking \in Abs!Place
    BY InvFacts
  <2>2. drag.tab \in Tab \cup {NoTab} /\ asking.tab \in Tab \cup {NoTab}
    BY <2>1 DEF Abs!Place
  <2>3. focus \in Groups \cup {0}
    BY <2>1
  <2> QED BY <2>1, <2>2, <2>3 DEF TypeOK
<1> QED BY <1>1, AlwaysInv, PTL

\* A tab is open exactly when some pane of the tree shows it: no move, split,
\* close or clean-up of the tree loses the last pane of an open tab.
THEOREM TabsStayShown == Spec => []OpenIffShown
<1>1. Inv => OpenIffShown
  BY SameHeld DEF Inv, Abs!TypeInv, Abs!OpenIffShown, Abs!ShownIn, OpenIffShown, ShownIn
<1> QED BY <1>1, AlwaysInv, PTL

\* What can be lost is only closed by another window, or by the user who has
\* been asked: in every pane of the tree, by every menu and button
\* (requiresCloseConfirmation, handleCloseMany).
THEOREM LossIsAgreed == Spec => LossNeedsConsent
<1> DEFINE Agreed == \A t \in losable \ tabs' :
                       UserStep => DialogOpen /\ asking.tab = t
<1>1. Inv /\ [Next]_vars => [Agreed]_vars
  <2> SUFFICES ASSUME Inv, NEW t \in losable \ tabs', UserStep
               PROVE  DialogOpen /\ asking.tab = t
    OBVIOUS
  <2>1. Abs!UserStep /\ Abs!TypeInv
    BY UserStepIs DEF Inv
  <2>2. Abs!DialogOpen /\ asking.tab = t
    BY <2>1, Abs!UserAgrees
  <2> QED BY <2>2, DialogIs
<1> QED BY <1>1, AlwaysInv, PTL DEF Spec, LossNeedsConsent

-----------------------------------------------------------------------------

\* The two instances of EditorPanes are one.
LEMMA SameHelpers ==
  /\ Panes!Live = Abs!Live /\ Panes!Fresh = Abs!Fresh /\ Panes!Nowhere = Abs!Nowhere
  /\ Panes!PaneRow = Abs!PaneRow /\ Panes!Refocus = Abs!Refocus
  /\ \A x : Panes!Held(x) = Abs!Held(x)
  /\ \A g : Panes!Target(g) <=> Abs!Target(g)
BY SameHeld DEF Panes!Live, Abs!Live, Panes!Fresh, Abs!Fresh, Panes!Nowhere, Abs!Nowhere,
   Panes!PaneRow, Abs!PaneRow, Panes!Refocus, Abs!Refocus, Panes!Target, Abs!Target

LEMMA SameRelations ==
  /\ \A P : Panes!Rows(P) <=> Abs!Rows(P)
  /\ \A P, Q : Panes!Alike(P, Q) <=> Abs!Alike(P, Q)
  /\ \A P, g, t : Panes!With(P, g, t) = Abs!With(P, g, t)
  /\ \A P, lost, Q : Panes!Shrinks(P, lost, Q) <=> Abs!Shrinks(P, lost, Q)
  /\ \A P, t : Panes!ShownIn(P, t) <=> Abs!ShownIn(P, t)
  /\ \A t : Panes!NeedsConfirmation(t) <=> Abs!NeedsConfirmation(t)
  /\ \A t : Panes!Turned(t) = Abs!Turned(t)
  /\ \A g, t : Panes!Shows(g, t) <=> Abs!Shows(g, t)
<1>1. \A P : Panes!Rows(P) <=> Abs!Rows(P)
  BY SameHelpers DEF Panes!Rows, Abs!Rows
<1>2. \A P, Q : Panes!Alike(P, Q) <=> Abs!Alike(P, Q)
  BY <1>1, SameHelpers DEF Panes!Alike, Abs!Alike
<1>3. \A P, g, t : Panes!With(P, g, t) = Abs!With(P, g, t)
  BY DEF Panes!With, Abs!With
<1>4. ASSUME NEW P, NEW lost, NEW Q
      PROVE  Panes!Shrinks(P, lost, Q) <=> Abs!Shrinks(P, lost, Q)
  BY <1>1, SameHelpers DEF Panes!Shrinks, Abs!Shrinks, Panes!ActiveAfter, Abs!ActiveAfter
<1>5. \A P, t : Panes!ShownIn(P, t) <=> Abs!ShownIn(P, t)
  BY SameHelpers DEF Panes!ShownIn, Abs!ShownIn
<1>6. \A t : Panes!NeedsConfirmation(t) <=> Abs!NeedsConfirmation(t)
  BY SameHelpers DEF Panes!NeedsConfirmation, Abs!NeedsConfirmation,
                     Panes!InOnePane, Abs!InOnePane
<1>7. \A g, t : Panes!Shows(g, t) <=> Abs!Shows(g, t)
  BY SameHelpers DEF Panes!Shows, Abs!Shows
<1>8. ASSUME NEW t PROVE Panes!Turned(t) = Abs!Turned(t)
  BY <1>7, SameHelpers DEF Panes!Turned, Abs!Turned
<1> QED BY <1>1, <1>2, <1>3, <1>4, <1>5, <1>6, <1>7, <1>8

LEMMA SameOpening ==
  /\ \A t : Panes!OpenTab(t) <=> Abs!OpenTab(t)
  /\ \A t : Panes!EnsureTab(t) <=> Abs!EnsureTab(t)
  /\ \A t : Panes!OpenTabToSide(t) <=> Abs!OpenTabToSide(t)
  /\ \A t : Panes!SplitActiveTab(t) <=> Abs!SplitActiveTab(t)
  /\ Panes!DropAtEdge <=> Abs!DropAtEdge
<1>1. ASSUME NEW t PROVE Panes!OpenTab(t) <=> Abs!OpenTab(t)
  BY SameHelpers, SameRelations DEF Panes!OpenTab, Abs!OpenTab
<1>2. ASSUME NEW t PROVE Panes!EnsureTab(t) <=> Abs!EnsureTab(t)
  BY SameHelpers, SameRelations DEF Panes!EnsureTab, Abs!EnsureTab
<1>3. ASSUME NEW t PROVE Panes!NewPane(t) <=> Abs!NewPane(t)
  BY SameHelpers, SameRelations DEF Panes!NewPane, Abs!NewPane
<1>4. ASSUME NEW t PROVE Panes!OpenTabToSide(t) <=> Abs!OpenTabToSide(t)
  BY <1>3, SameHelpers DEF Panes!OpenTabToSide, Abs!OpenTabToSide
<1>5. ASSUME NEW t PROVE Panes!SplitActiveTab(t) <=> Abs!SplitActiveTab(t)
  BY <1>3, SameRelations DEF Panes!SplitActiveTab, Abs!SplitActiveTab
<1>6. Panes!DropAtEdge <=> Abs!DropAtEdge
  BY <1>5, SameHelpers DEF Panes!DropAtEdge, Abs!DropAtEdge
<1> QED BY <1>1, <1>2, <1>4, <1>5, <1>6

LEMMA SameClosing ==
  /\ \A t : Panes!CloseTab(t) <=> Abs!CloseTab(t)
  /\ \A g, T : Panes!Close(g, T) <=> Abs!Close(g, T)
  /\ Panes!ConfirmClose <=> Abs!ConfirmClose
  /\ Panes!DismissClose <=> Abs!DismissClose
<1>1. ASSUME NEW t PROVE Panes!CloseTab(t) <=> Abs!CloseTab(t)
  BY SameHelpers, SameRelations DEF Panes!CloseTab, Abs!CloseTab
<1>2. ASSUME NEW g, NEW T PROVE Panes!ClosedIn(g, T) <=> Abs!ClosedIn(g, T)
  <2>1. {t \in tabs : t \in T => Panes!ShownIn(panes', t)}
          = {t \in tabs : t \in T => Abs!ShownIn(panes', t)}
    BY SameRelations
  <2> QED BY <2>1, SameHelpers, SameRelations DEF Panes!ClosedIn, Abs!ClosedIn
<1>3. ASSUME NEW g, NEW T PROVE Panes!Close(g, T) <=> Abs!Close(g, T)
  <2>1. {t \in T : Panes!NeedsConfirmation(t)} = {t \in T : Abs!NeedsConfirmation(t)}
    BY SameRelations
  <2> QED BY <1>2, <2>1 DEF Panes!Close, Abs!Close
<1>4. Panes!DialogOpen <=> Abs!DialogOpen
  BY SameHelpers DEF Panes!DialogOpen, Abs!DialogOpen
<1>5. Panes!ConfirmClose <=> Abs!ConfirmClose
  BY <1>2, <1>4, SameHelpers DEF Panes!ConfirmClose, Abs!ConfirmClose
<1>6. Panes!DismissClose <=> Abs!DismissClose
  BY <1>4, SameHelpers DEF Panes!DismissClose, Abs!DismissClose
<1> QED BY <1>1, <1>3, <1>5, <1>6

LEMMA SameOthers ==
  /\ \A g, t : Panes!SetActiveTab(g, t) <=> Abs!SetActiveTab(g, t)
  /\ \A g : Panes!FocusGroup(g) <=> Abs!FocusGroup(g)
  /\ \A g : Panes!DragOver(g) <=> Abs!DragOver(g)
  /\ Panes!DragEnd <=> Abs!DragEnd
  /\ \A t : Panes!Work(t) <=> Abs!Work(t)
<1>1. ASSUME NEW g, NEW t PROVE Panes!SetActiveTab(g, t) <=> Abs!SetActiveTab(g, t)
  BY SameRelations DEF Panes!SetActiveTab, Abs!SetActiveTab
<1>2. ASSUME NEW g PROVE Panes!FocusGroup(g) <=> Abs!FocusGroup(g)
  BY SameHelpers DEF Panes!FocusGroup, Abs!FocusGroup
<1>3. ASSUME NEW g PROVE Panes!DragOver(g) <=> Abs!DragOver(g)
  BY SameHelpers, SameRelations DEF Panes!DragOver, Abs!DragOver
<1>4. Panes!DragEnd <=> Abs!DragEnd
  BY SameHelpers DEF Panes!DragEnd, Abs!DragEnd
<1>5. ASSUME NEW t PROVE Panes!Work(t) <=> Abs!Work(t)
  BY DEF Panes!Work, Abs!Work
<1> QED BY <1>1, <1>2, <1>3, <1>4, <1>5

LEMMA SameNext == Panes!Next <=> Abs!Next
<1>1. Panes!OtherStep <=> Abs!OtherStep
  BY SameOpening, SameClosing, SameOthers DEF Panes!OtherStep, Abs!OtherStep
<1>2. Panes!UserStep <=> Abs!UserStep
  BY SameHelpers, SameOpening, SameClosing, SameOthers DEF Panes!UserStep, Abs!UserStep
<1> QED BY <1>1, <1>2 DEF Panes!Next, Abs!Next

\* The tree of splits does to the panes what each operation is for and
\* nothing else: every step of EditorLayout, clean-up of the tree included,
\* is a step of EditorPanes.
THEOREM LayoutImplementsPanes == Spec => ImplementsPanes
<1>1. Init => Panes!Init
  BY InitIs DEF Panes!Init, Abs!Init, Panes!Nowhere, Abs!Nowhere
<1>2. Inv /\ [Next]_vars => [Panes!Next]_(Panes!tabVars)
  <2> SUFFICES ASSUME Inv, [Next]_vars PROVE [Panes!Next]_(Panes!tabVars)
    OBVIOUS
  <2>1. [Abs!Next]_tabVars
    BY StepIs
  <2> QED BY <2>1, SameNext DEF Panes!tabVars, tabVars
<1> QED BY <1>1, <1>2, AlwaysInv, PTL DEF Spec, ImplementsPanes, Panes!Spec

\* Closing tabs beside the one the user looks at leaves the user looking at
\* it, in the same pane of the tree (removeTab, removeTabFromGroup, normalize).
THEOREM ViewIsKept == Spec => ViewSurvivesClose
<1> DEFINE Kept == /\ tabs' # tabs /\ tabs' \subseteq tabs
                   /\ focus \in DOMAIN panes' /\ ActiveTab \in Held(panes'[focus])
                   => focus' = focus /\ ActiveTab' = ActiveTab
           Seen == /\ tabs' # tabs /\ tabs' \subseteq tabs
                   /\ focus \in DOMAIN panes' /\ Abs!ActiveTab \in Abs!Held(panes'[focus])
                   => focus' = focus /\ Abs!ActiveTab' = Abs!ActiveTab
<1>1. Init => Abs!Init
  BY InitIs
<1>2. Inv /\ [Next]_vars => [Abs!Next]_(Abs!tabVars)
  BY StepIs DEF Abs!tabVars, tabVars
<1>3. Spec => Abs!Spec
  BY <1>1, <1>2, AlwaysInv, PTL DEF Spec, Abs!Spec
<1>4. Abs!Spec => Abs!ViewSurvivesClose
  BY Abs!ViewIsKept
<1>5. [Seen]_(Abs!tabVars) => [Kept]_tabVars
  BY SameHeld DEF Abs!ActiveTab, ActiveTab, Abs!Live, Live, Abs!tabVars, tabVars
<1> QED BY <1>3, <1>4, <1>5, PTL DEF ViewSurvivesClose, Abs!ViewSurvivesClose
=============================================================================
